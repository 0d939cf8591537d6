------------------------------- MODULE ProCon -------------------------------
(***************************************************************************)
(* Multithreading&ThreadSync/Thread_sync/CV/pro_con.c: producers that fill *)
(* the whole queue and consumers that drain it, once each, around one      *)
(* mutex and one condition variable on which both kinds wait.  The main    *)
(* thread joins them all.                                                  *)
(***************************************************************************)
EXTENDS RingQueue, FiniteSets

CONSTANTS Producers, Consumers,
          Nobody,       \* the holder of an unlocked mutex
          MaxSpurious   \* bound on the wakeups without a broadcast

ASSUME ThreadAssumption ==
  /\ Producers \cap Consumers = {}
  /\ Nobody \notin Producers \cup Consumers
  /\ MaxSpurious \in Nat

Threads == Producers \cup Consumers

VARIABLES queue, q_mutex, pc,
          item,       \* the static counter of new_item
          taken,      \* what the latest deque returned
          spurious

vars == <<queue, q_mutex, pc, item, taken, spurious>>

\* lock: before pthread_mutex_lock, at first or inside pthread_cond_wait; test:
\* before the while condition; wait: asleep; work: past the assertion; unlock:
\* after the broadcast; aborted: an assertion failed.
Pcs == {"lock", "test", "wait", "work", "unlock", "done", "aborted"}

TypeOK ==
  /\ queue \in QueueType
  /\ q_mutex \in Threads \cup {Nobody}
  /\ pc \in [Threads -> Pcs]
  /\ item \in Nat
  /\ taken \in Nat
  /\ spurious \in 0..MaxSpurious

Init ==
  /\ queue = initQ
  /\ q_mutex = Nobody
  /\ pc = [t \in Threads |-> "lock"]
  /\ item = 0 /\ taken = 0 /\ spurious = 0

GoTo(t, label) == pc' = [pc EXCEPT ![t] = label]

\* What a thread sleeps on and works until, and what it asserts once it is awake.
MustWait(t) == IF t \in Producers THEN is_queue_full(queue) ELSE is_queue_empty(queue)
Asserted(t) == IF t \in Producers THEN is_queue_empty(queue) ELSE is_queue_full(queue)

Lock(t) ==
  /\ pc[t] = "lock" /\ q_mutex = Nobody
  /\ q_mutex' = t
  /\ GoTo(t, "test")
  /\ UNCHANGED <<queue, item, taken, spurious>>

\* Mutant: the mutex is not given back while asleep.
WaitWithLock(t) ==
  /\ pc[t] = "test" /\ MustWait(t)
  /\ GoTo(t, "wait")
  /\ UNCHANGED <<q_mutex, queue, item, taken, spurious>>

\* pthread_cond_wait gives the mutex back and sleeps in one step.
Wait(t) ==
  /\ pc[t] = "test" /\ MustWait(t)
  /\ q_mutex' = Nobody
  /\ GoTo(t, "wait")
  /\ UNCHANGED <<queue, item, taken, spurious>>

\* assert, pro_con.c:35 and 62.
Check(t) ==
  /\ pc[t] = "test" /\ ~MustWait(t)
  /\ GoTo(t, IF Asserted(t) THEN "work" ELSE "aborted")
  /\ UNCHANGED <<queue, q_mutex, item, taken, spurious>>

Produce(t) ==
  /\ pc[t] = "work" /\ t \in Producers /\ ~is_queue_full(queue)
  /\ item' = item + 1
  /\ queue' = enqueue(queue, item')
  /\ UNCHANGED <<q_mutex, pc, taken, spurious>>

\* Mutant: one item is left.
ConsumeMost(t) ==
  /\ pc[t] = "work" /\ t \in Consumers /\ ~is_queue_empty(queue)
  /\ taken' = first(queue)
  /\ queue' = deque(queue)
  /\ IF queue.count = 2 THEN GoTo(t, "unlock") ELSE UNCHANGED pc
  /\ UNCHANGED <<q_mutex, item, spurious>>

Consume(t) ==
  /\ pc[t] = "work" /\ t \in Consumers /\ ~is_queue_empty(queue)
  /\ taken' = first(queue)
  /\ queue' = deque(queue)
  /\ UNCHANGED <<q_mutex, pc, item, spurious>>

\* The loop condition no longer holds: the queue is full, or empty for a consumer.
Finished(t) == pc[t] = "work" /\ MustWait(t)

\* Mutant: pthread_cond_signal, which wakes one of the sleepers.
SignalOne(t) ==
  /\ Finished(t)
  /\ \E w \in {u \in Threads : pc[u] = "wait"} \cup {t} :
       pc' = [pc EXCEPT ![w] = "lock", ![t] = "unlock"]
  /\ UNCHANGED <<queue, q_mutex, item, taken, spurious>>

\* The work loop has ended: every sleeper is woken.
Broadcast(t) ==
  /\ Finished(t)
  /\ pc' = [u \in Threads |-> IF u = t THEN "unlock"
                              ELSE IF pc[u] = "wait" THEN "lock" ELSE pc[u]]
  /\ UNCHANGED <<queue, q_mutex, item, taken, spurious>>

Unlock(t) ==
  /\ pc[t] = "unlock"
  /\ q_mutex' = Nobody
  /\ GoTo(t, "done")
  /\ UNCHANGED <<queue, item, taken, spurious>>

\* POSIX lets pthread_cond_wait return without a broadcast.
WakeUp(t) ==
  /\ pc[t] = "wait" /\ spurious < MaxSpurious
  /\ spurious' = spurious + 1
  /\ GoTo(t, "lock")
  /\ UNCHANGED <<queue, q_mutex, item, taken>>

Step(t) ==
  \/ Lock(t) \/ Wait(t) \/ Check(t) \/ Produce(t) \/ Consume(t) \/ Broadcast(t)
  \/ Unlock(t)

\* abort() ends the whole process.
Next ==
  /\ \A t \in Threads : pc[t] # "aborted"
  /\ \E t \in Threads : Step(t) \/ WakeUp(t)

Spec == Init /\ [][Next]_vars

\* Every thread runs.  Each locks at most once plus once per wakeup, so that weak
\* fairness is enough for the mutex.
FairSpec == Spec /\ \A t \in Threads : WF_vars(Step(t))
-----------------------------------------------------------------------------
\* The two assertions of pro_con.c: a producer that does not wait finds the queue
\* empty (line 35) and a consumer finds it full (line 62), in every order of the
\* threads: nobody sees a queue that is partly filled.
AssertsHold == \A t \in Threads : pc[t] # "aborted"

\* A thread sleeps only while its condition is false or the thread that makes it
\* true has not yet broadcast.
NoLostWakeup ==
  \A t \in Threads : pc[t] = "wait" =>
    MustWait(t) \/ \E u \in Threads : pc[u] = "work"

\* "No of queue(should be 0)" (pro_con.c:99), printed after the joins.
QueueEmptyAtEnd ==
  (\A t \in Threads : pc[t] = "done") => queue.count = 0

\* Items leave in the order in which they were made, none twice, none lost.
Buffer == INSTANCE Fifo WITH
  Size <- Q_DEFAULT_SIZE, buf <- Contents(queue), made <- item

ImplementsFifo == Buffer!Spec

\* With as many consumers as producers all threads end: main's joins return.
AllEnd == <>(\A t \in Threads : pc[t] = "done")
=============================================================================
