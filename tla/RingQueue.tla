------------------------------ MODULE RingQueue -----------------------------
(***************************************************************************)
(* The queue of Multithreading&ThreadSync/Thread_sync/CV/queue.c: an array *)
(* elem of Q_DEFAULT_SIZE slots with the indices front and rear and a      *)
(* count.  An empty queue has front = rear, and so has one with a single   *)
(* element: the first element goes to front without moving rear, and the   *)
(* last one leaves without moving front.                                   *)
(***************************************************************************)
EXTENDS Integers, Sequences

CONSTANTS Q_DEFAULT_SIZE, NULL

ASSUME SizeAssumption == Q_DEFAULT_SIZE \in Nat \ {0} /\ NULL \notin Nat

Indices == 0..(Q_DEFAULT_SIZE - 1)

\* The queues whose elements are the items x \in Nat (pro_con.c stores integers).
QueueType == [elem : [Indices -> Nat \cup {NULL}], front : Indices,
              rear : Indices, count : 0..Q_DEFAULT_SIZE]

initQ == [elem |-> [i \in Indices |-> NULL], front |-> 0, rear |-> 0, count |-> 0]

\* Mutant: an off-by-one in the comparison.
is_queue_almost_empty(q) == q.count <= 1
is_queue_empty(q) == q.count = 0
is_queue_full(q)  == q.count = Q_DEFAULT_SIZE

\* Mutant: the index wraps one slot too late.
AfterOpenEnd(i) == IF i = Q_DEFAULT_SIZE THEN 0 ELSE i + 1

After(i) == IF i = Q_DEFAULT_SIZE - 1 THEN 0 ELSE i + 1

\* Mutant: rear moves for the first element too.
EnqueueAtNext(q, x) ==
  IF is_queue_full(q) THEN q
  ELSE [q EXCEPT !.rear = After(q.rear), !.elem[After(q.rear)] = x, !.count = @ + 1]

enqueue(q, x) ==
  IF is_queue_full(q) THEN q
  ELSE IF is_queue_empty(q)
  THEN [q EXCEPT !.elem[q.front] = x, !.count = @ + 1]
  ELSE [q EXCEPT !.rear = After(q.rear), !.elem[After(q.rear)] = x, !.count = @ + 1]

\* What deque returns.
first(q) == IF is_queue_empty(q) THEN NULL ELSE q.elem[q.front]

deque(q) ==
  IF is_queue_empty(q) THEN q
  ELSE LET out == [q EXCEPT !.elem[q.front] = NULL, !.count = @ - 1]
       IN  IF q.front = q.rear THEN out ELSE [out EXCEPT !.front = After(q.front)]

-----------------------------------------------------------------------------
\* The slot of the i-th element of a queue with front = f.
Slot(f, i) == IF f + i <= Q_DEFAULT_SIZE THEN f + i - 1 ELSE f + i - 1 - Q_DEFAULT_SIZE

\* The sequence a queue stands for.
Contents(q) == [i \in 1..q.count |-> q.elem[Slot(q.front, i)]]

\* What initQ, enqueue and deque keep true: the elements are in the slots from
\* front on, and rear is the slot of the last one, or front if there is none.
WellFormed(q) ==
  /\ q.rear = IF q.count = 0 THEN q.front ELSE Slot(q.front, q.count)
  /\ \A i \in 1..q.count : q.elem[Slot(q.front, i)] \in Nat
=============================================================================
