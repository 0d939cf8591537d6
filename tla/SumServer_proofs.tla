-------------------------- MODULE SumServer_proofs ---------------------------
(***************************************************************************)
(* Proofs about the sum servers, for any number of clients, slots, numbers *)
(* and messages.                                                           *)
(***************************************************************************)
EXTENDS SumServer, FiniteSetTheorems, SequenceTheorems, WellFoundedInduction, TLAPS

-----------------------------------------------------------------------------
(* Slot arrays (FdSet): what the loops over one do to its type, its slots  *)
(* and the absence of duplicates, for arrays of any length.                *)
\* Every non-empty set of natural numbers has a least element.
LEMMA Least ==
  ASSUME NEW S \in SUBSET Nat, S # {}
  PROVE  \E n \in S : \A m \in S : n <= m
<1> DEFINE Less == OpToRel(<, Nat)
<1>1. \A x, y \in Nat : y < x => <<y, x>> \in Less
  BY DEF OpToRel
<1>2. IsWellFoundedOn(Less, Nat)
  BY NatLessThanWellFounded, Zenon
<1> HIDE DEF Less
<1>3. PICK x \in S : \A y \in S : ~ (<<y, x>> \in Less)
  BY <1>2, WFMin
<1>4. \A y \in S : ~ (y < x)
  BY <1>1, <1>3
<1>5. QED BY <1>4

\* The loop that looks for v stops at a slot that holds it.
LEMMA FirstSlotIs ==
  ASSUME NEW n \in Nat, NEW set, DOMAIN set = 1..n, NEW v, Holds(set, v)
  PROVE  FirstSlot(set, v) \in 1..n /\ set[FirstSlot(set, v)] = v
<1> DEFINE I == {i \in 1..n : set[i] = v}
<1>1. I \in SUBSET Nat /\ I # {}
  BY DEF Holds
<1>2. PICK i \in I : \A j \in I : i <= j
  BY <1>1, Least
<1>3. i \in 1..n /\ set[i] = v /\ \A j \in 1..n : j < i => set[j] # v
  BY <1>2
<1>4. QED BY <1>3 DEF FirstSlot

\* One slot that was free takes v, if one was free.
LEMMA AddToIs ==
  ASSUME NEW n \in Nat, NEW T, NEW set \in [1..n -> T], NEW free, NEW v \in T
  PROVE  /\ AddTo(set, free, v) \in [1..n -> T]
         /\ \/ AddTo(set, free, v) = set
            \/ \E k \in 1..n : set[k] = free /\ AddTo(set, free, v) = [set EXCEPT ![k] = v]
<1> DEFINE k == FirstSlot(set, free)
<1>1. CASE Holds(set, free)
  <2>1. k \in 1..n /\ set[k] = free
    BY <1>1, FirstSlotIs
  <2> HIDE DEF k
  <2>2. AddTo(set, free, v) = [set EXCEPT ![k] = v]
    BY <1>1 DEF AddTo, k
  <2>3. QED BY <2>1, <2>2
<1>2. CASE ~ Holds(set, free)
  BY <1>2 DEF AddTo
<1>3. QED BY <1>1, <1>2

\* If a slot was free, v is in the array.
LEMMA AddToHolds ==
  ASSUME NEW n \in Nat, NEW T, NEW set \in [1..n -> T], NEW free, NEW v \in T,
         Holds(set, free)
  PROVE  Holds(AddTo(set, free, v), v)
<1> DEFINE k == FirstSlot(set, free)
<1>1. k \in 1..n
  BY FirstSlotIs
<1> HIDE DEF k
<1>2. AddTo(set, free, v) = [set EXCEPT ![k] = v]
  BY DEF AddTo, k
<1>3. QED BY <1>1, <1>2 DEF Holds

\* The array stays without duplicates when v is not in it, and loses nothing.
LEMMA AddToSound ==
  ASSUME NEW n \in Nat, NEW T, NEW set \in [1..n -> T], NEW free, NEW v \in T,
         Distinct(set, free), ~ Holds(set, v)
  PROVE  /\ Distinct(AddTo(set, free, v), free)
         /\ \A x : x # free /\ Holds(set, x) => Holds(AddTo(set, free, v), x)
         /\ \A i \in 1..n : AddTo(set, free, v)[i] \in {set[i], v}
<1>1. CASE AddTo(set, free, v) = set
  BY <1>1
<1>2. ASSUME NEW k \in 1..n, set[k] = free, AddTo(set, free, v) = [set EXCEPT ![k] = v]
      PROVE  /\ Distinct(AddTo(set, free, v), free)
             /\ \A x : x # free /\ Holds(set, x) => Holds(AddTo(set, free, v), x)
             /\ \A i \in 1..n : AddTo(set, free, v)[i] \in {set[i], v}
  <2> DEFINE r == [set EXCEPT ![k] = v]
  <2>1. \A i \in 1..n : r[i] = IF i = k THEN v ELSE set[i]
    OBVIOUS
  <2>2. DOMAIN r = 1..n /\ DOMAIN set = 1..n
    OBVIOUS
  <2> HIDE DEF r
  <2>3. Distinct(r, free)
    BY <2>1, <2>2 DEF Distinct, Holds
  <2>4. ASSUME NEW x, x # free, Holds(set, x) PROVE Holds(r, x)
    BY <2>1, <2>2, <2>4, <1>2 DEF Holds
  <2>5. QED BY <1>2, <2>1, <2>3, <2>4 DEF r
<1>3. \/ AddTo(set, free, v) = set
      \/ \E k \in 1..n : set[k] = free /\ AddTo(set, free, v) = [set EXCEPT ![k] = v]
  BY AddToIs
<1>4. QED BY <1>1, <1>2, <1>3

\* Without duplicates, the slot that held v becomes free and no other changes.
LEMMA RemoveFromIs ==
  ASSUME NEW n \in Nat, NEW T, NEW set \in [1..n -> T], NEW free \in T, NEW v
  PROVE  /\ RemoveFrom(set, free, v) \in [1..n -> T]
         /\ Distinct(set, free) /\ v # free =>
              \A i \in 1..n :
                RemoveFrom(set, free, v)[i] = IF set[i] = v THEN free ELSE set[i]
<1> DEFINE k == FirstSlot(set, v)
<1>1. CASE Holds(set, v)
  <2>1. k \in 1..n /\ set[k] = v
    BY <1>1, FirstSlotIs
  <2> HIDE DEF k
  <2>2. RemoveFrom(set, free, v) = [set EXCEPT ![k] = free]
    BY <1>1 DEF RemoveFrom, k
  <2>3. QED BY <2>1, <2>2 DEF Distinct
<1>2. CASE ~ Holds(set, v)
  BY <1>2 DEF RemoveFrom, Holds
<1>3. QED BY <1>1, <1>2

LEMMA RemoveFromSound ==
  ASSUME NEW n \in Nat, NEW T, NEW set \in [1..n -> T], NEW free \in T, NEW v,
         Distinct(set, free), v # free
  PROVE  /\ Distinct(RemoveFrom(set, free, v), free)
         /\ \A x : x # v /\ Holds(set, x) => Holds(RemoveFrom(set, free, v), x)
<1> DEFINE r == RemoveFrom(set, free, v)
<1>1. /\ DOMAIN r = 1..n /\ DOMAIN set = 1..n
      /\ \A i \in 1..n : r[i] = IF set[i] = v THEN free ELSE set[i]
  BY RemoveFromIs
<1> HIDE DEF r
<1>2. Distinct(r, free)
  BY <1>1 DEF Distinct
<1>3. \A x : x # v /\ Holds(set, x) => Holds(r, x)
  BY <1>1 DEF Holds
<1>4. QED BY <1>2, <1>3 DEF r

-----------------------------------------------------------------------------
(* The inductive invariant.                                                *)
\* The slots: a client in the array is connected, and what the server watches besides
\* its clients is never lost; a free slot has nothing added up, and a TCP server never.
SlotsOK ==
  /\ Distinct(monitor_fd_set, Free)
  /\ \A i \in Slots : monitor_fd_set[i] \in Clients => monitor_fd_set[i] \in open
  /\ kind = "sums" => Holds(monitor_fd_set, Console)
  /\ kind # "single" => Holds(monitor_fd_set, Master)
  /\ \A i \in Slots : monitor_fd_set[i] = Free \/ kind = "pairs" => client_response[i] = 0

\* A connection waits to be accepted once, and before it is open.
BacklogOK ==
  /\ \A i, j \in 1..Len(backlog) : backlog[i] = backlog[j] => i = j
  /\ \A i \in 1..Len(backlog) : backlog[i] \notin open

\* The loop visits slots of clients that have something to read, but for the one whose
\* request is being answered.
LoopOK ==
  /\ pc = "select" => todo = {}
  /\ pc \in {"loop", "answer"} => todo # {}
  /\ \A i \in todo : monitor_fd_set[i] \in Clients
  /\ \A i \in todo : pc = "loop" \/ (pc = "answer" /\ i # Slot) => Readable(monitor_fd_set[i])
  /\ pc = "answer" => kind # "pairs" /\ up[Peer] = <<>> /\ client[Peer] # "typing"

\* What a client has yet to be told, given what has been added up for it.
Rest(c, sum) ==
  /\ Len(up[c]) = 0 => total[c] = sum
  /\ Len(up[c]) = 1 => total[c] = sum + Value(up[c][1])

\* Where a client is and what is on its way to and from it.
StartOK(c) ==
  client[c] = "start" =>
    up[c] = <<>> /\ answer[c] = None /\ total[c] = 0 /\ c \notin open /\ ~Waiting(c)

PairsOK(c) ==
  kind = "pairs" =>
    /\ ~HungUp(c) /\ client[c] = "typing" => up[c] = <<>> /\ answer[c] = None
    /\ ~HungUp(c) /\ answer[c] # None => up[c] = <<>>
    /\ Len(up[c]) = 1 => total[c] = Value(up[c][1])

SumsOK(c) ==
  kind # "pairs" =>
    /\ ~HungUp(c) => client[c] \in {"typing", "waiting", "gone"}
    /\ answer[c] # None => c \notin open /\ ~Waiting(c)
    /\ up[c] # <<>> /\ Zeros(Head(up[c])) => client[c] # "typing"
    /\ c \notin merged /\ Waiting(c) => Rest(c, 0)
    /\ c \notin merged =>
         \A i \in Slots : monitor_fd_set[i] = c => Rest(c, client_response[i])

Told(c) == answer[c] # None /\ c \notin merged => answer[c] = total[c]

ClientsOK == \A c \in Clients : StartOK(c) /\ PairsOK(c) /\ SumsOK(c) /\ Told(c)

EndOK == (pc = "ended" <=> ended # "no") /\ ServerEndHasACause

IInv == TypeOK /\ SlotsOK /\ BacklogOK /\ LoopOK /\ ClientsOK /\ EndOK
-----------------------------------------------------------------------------
\* What is read at the end of a stream asks for the sum, and a request adds nothing.
LEMMA MessageFacts ==
  ASSUME TypeOK
  PROVE  /\ \A m \in Messages : Value(m) \in Int /\ (Zeros(m) => Value(m) = 0)
         /\ EndOfStream \in Messages /\ Zeros(EndOfStream)
<1>1. CASE kind = "pairs"
  <2>1. ASSUME NEW m \in Numbers \X Numbers
        PROVE  m[1] + m[2] \in Int /\ (Zeros(m) => m[1] + m[2] = 0)
    <3>1. PICK a \in Numbers, b \in Numbers : m = <<a, b>>
      BY <2>1
    <3>2. a \in Int /\ b \in Int
      BY SumAssumption
    <3>3. QED BY <3>1, <3>2 DEF Zeros
  <2>2. <<0, 0>> \in Numbers \X Numbers /\ Zeros(<<0, 0>>)
    BY SumAssumption DEF Zeros
  <2>3. QED BY <1>1, <2>1, <2>2 DEF Messages, Value, EndOfStream
<1>2. CASE kind # "pairs"
  <2>1. ASSUME NEW n \in Numbers
        PROVE  <<n>>[1] \in Int /\ (Zeros(<<n>>) => <<n>>[1] = 0)
    BY SumAssumption DEF Zeros
  <2>2. <<0>> \in {<<n>> : n \in Numbers} /\ Zeros(<<0>>)
    BY SumAssumption DEF Zeros
  <2>3. QED BY <1>2, <2>1, <2>2 DEF Messages, Value, EndOfStream
<1>3. QED BY <1>1, <1>2

\* The loop is at a slot it has to visit.
LEMMA SlotToVisit ==
  ASSUME TypeOK, todo # {}
  PROVE  Slot \in todo
<1>1. todo \in SUBSET Nat
  BY SumAssumption DEF TypeOK, Slots
<1>2. \E n \in todo : \A m \in todo : n <= m
  BY <1>1, Least
<1>3. QED BY <1>2 DEF Slot, Min

\* A connection joins the backlog at its end and leaves it at its head.
LEMMA AppendWaits ==
  ASSUME NEW S, NEW s \in Seq(S), NEW c \in S
  PROVE  \A d : (d \in {Append(s, c)[i] : i \in DOMAIN Append(s, c)})
                  <=> (d = c \/ d \in {s[i] : i \in DOMAIN s})
<1>1. /\ DOMAIN Append(s, c) = 1..(Len(s) + 1) /\ DOMAIN s = 1..Len(s) /\ Len(s) \in Nat
      /\ Append(s, c)[Len(s) + 1] = c
      /\ \A i \in 1..Len(s) : Append(s, c)[i] = s[i]
  OBVIOUS
<1>2. ASSUME NEW d, d \in {Append(s, c)[i] : i \in DOMAIN Append(s, c)}
      PROVE  d = c \/ d \in {s[i] : i \in DOMAIN s}
  <2>1. PICK i \in 1..(Len(s) + 1) : d = Append(s, c)[i]
    BY <1>1, <1>2
  <2>2. CASE i = Len(s) + 1
    BY <1>1, <2>1, <2>2
  <2>3. CASE i \in 1..Len(s)
    BY <1>1, <2>1, <2>3
  <2>4. QED BY <1>1, <2>2, <2>3
<1>3. ASSUME NEW d, d = c \/ d \in {s[i] : i \in DOMAIN s}
      PROVE  d \in {Append(s, c)[i] : i \in DOMAIN Append(s, c)}
  <2>1. CASE d = c
    BY <1>1, <2>1
  <2>2. CASE d \in {s[i] : i \in DOMAIN s}
    BY <1>1, <2>2
  <2>3. QED BY <1>3, <2>1, <2>2
<1>4. QED BY <1>2, <1>3

LEMMA TailWaits ==
  ASSUME NEW S, NEW s \in Seq(S), s # <<>>,
         \A i, j \in 1..Len(s) : s[i] = s[j] => i = j
  PROVE  /\ Head(s) \in {s[i] : i \in DOMAIN s} /\ Head(s) \in S /\ Tail(s) \in Seq(S)
         /\ \A i, j \in 1..Len(Tail(s)) : Tail(s)[i] = Tail(s)[j] => i = j
         /\ \A d : (d \in {Tail(s)[i] : i \in DOMAIN Tail(s)})
                     <=> (d # Head(s) /\ d \in {s[i] : i \in DOMAIN s})
<1>1. /\ DOMAIN Tail(s) = 1..(Len(s) - 1) /\ Len(Tail(s)) = Len(s) - 1
      /\ DOMAIN s = 1..Len(s) /\ Len(s) \in Nat \ {0}
      /\ Head(s) = s[1] /\ Head(s) \in S /\ Tail(s) \in Seq(S)
      /\ \A i \in 1..(Len(s) - 1) : Tail(s)[i] = s[i + 1]
  OBVIOUS
<1>2. \A i, j \in 1..Len(Tail(s)) : Tail(s)[i] = Tail(s)[j] => i = j
  <2>1. \A i \in 1..Len(Tail(s)) : i + 1 \in 1..Len(s) /\ Tail(s)[i] = s[i + 1]
    BY <1>1
  <2>2. QED BY <1>1, <2>1
<1>3. ASSUME NEW d, d \in {Tail(s)[i] : i \in DOMAIN Tail(s)}
      PROVE  d # Head(s) /\ d \in {s[i] : i \in DOMAIN s}
  <2>1. PICK i \in 1..(Len(s) - 1) : d = Tail(s)[i]
    BY <1>1, <1>3
  <2>2. i + 1 \in 1..Len(s) /\ i + 1 # 1 /\ 1 \in 1..Len(s) /\ d = s[i + 1]
    BY <1>1, <2>1
  <2>3. QED BY <1>1, <2>2
<1>4. ASSUME NEW d, d # Head(s), d \in {s[i] : i \in DOMAIN s}
      PROVE  d \in {Tail(s)[i] : i \in DOMAIN Tail(s)}
  <2>1. PICK i \in 1..Len(s) : d = s[i]
    BY <1>1, <1>4
  <2>2. i - 1 \in 1..(Len(s) - 1) /\ Tail(s)[i - 1] = s[i]
    BY <1>1, <1>4, <2>1
  <2>3. QED BY <1>1, <2>1, <2>2
<1>5. 1 \in DOMAIN s
  BY <1>1
<1>6. QED BY <1>1, <1>2, <1>3, <1>4, <1>5

\* The value of the slot array after a connection is accepted or closed.
LEMMA SlotTypes ==
  ASSUME TypeOK, NEW c \in Clients
  PROVE  /\ Slots = 1..MAX_CLIENTS_SUPPORT /\ MAX_CLIENTS_SUPPORT \in Nat
         /\ AddTo(monitor_fd_set, Free, c) \in [Slots -> Clients \cup {Free, Console, Master}]
         /\ RemoveFrom(monitor_fd_set, Free, c)
              \in [Slots -> Clients \cup {Free, Console, Master}]
<1> DEFINE n == MAX_CLIENTS_SUPPORT
           T == Clients \cup {Free, Console, Master}
<1>1. n \in Nat /\ Slots = 1..n /\ monitor_fd_set \in [1..n -> T] /\ Free \in T /\ c \in T
  BY SumAssumption DEF TypeOK, Slots
<1> HIDE DEF n, T
<1>2. AddTo(monitor_fd_set, Free, c) \in [1..n -> T]
  BY <1>1, AddToIs
<1>3. RemoveFrom(monitor_fd_set, Free, c) \in [1..n -> T]
  BY <1>1, RemoveFromIs
<1>4. QED BY <1>1, <1>2, <1>3 DEF n, T

LEMMA InitTyped ==
  ASSUME Init
  PROVE  TypeOK
<1> DEFINE n == MAX_CLIENTS_SUPPORT
           T == Clients \cup {Free, Console, Master}
           none == AllFree(Slots, Free)
<1>1. n \in Nat /\ Slots = 1..n /\ Free \in T /\ Console \in T /\ Master \in T
      /\ none \in [1..n -> T]
  BY SumAssumption DEF Slots, AllFree
<1> HIDE DEF n, T, none
<1>2. AddTo(none, Free, Console) \in [1..n -> T] /\ AddTo(none, Free, Master) \in [1..n -> T]
  BY <1>1, AddToIs
<1>3. AddTo(AddTo(none, Free, Console), Free, Master) \in [1..n -> T]
  BY <1>1, <1>2, AddToIs
<1>4. monitor_fd_set \in [Slots -> T]
  BY <1>1, <1>2, <1>3, SumAssumption DEF Init, none
<1>5. QED BY <1>1, <1>4, SumAssumption DEF Init, TypeOK, T, Known

LEMMA TypeStep ==
  ASSUME TypeOK, LoopOK, [Next]_vars
  PROVE  TypeOK'
<1> USE DEF TypeOK
<1>1. ASSUME NEW c \in Clients, Connect(c) PROVE TypeOK'
  <2>1. Messages' = Messages
    BY <1>1 DEF Connect, Messages
  <2>2. client' \in [Clients -> Known]
    BY <1>1 DEF Connect, Known
  <2>3. backlog' \in Seq(Clients)
    BY <1>1 DEF Connect
  <2>4. QED BY <1>1, <2>1, <2>2, <2>3 DEF Connect, server, history
<1>2. ASSUME NEW c \in Clients, Receive(c) PROVE TypeOK'
  BY <1>2 DEF Receive, server, history, Known, Messages
<1>3. ASSUME NEW c \in Clients, Interrupt(c) PROVE TypeOK'
  BY <1>3 DEF Interrupt, server, history, Known, Messages
<1>4. ASSUME NEW c \in Clients, NEW m \in Messages, Send(c, m) PROVE TypeOK'
  <2>1. Value(m) \in Int
    BY MessageFacts
  <2>2. Messages' = Messages
    BY <1>4 DEF Send, Messages
  <2>3. client' \in [Clients -> Known]
    BY <1>4 DEF Send, Known
  <2>4. up' \in [Clients -> Seq(Messages)]
    <3>1. Append(up[c], m) \in Seq(Messages)
      <4> DEFINE s == up[c]
      <4>1. s \in Seq(Messages) /\ m \in Messages
        OBVIOUS
      <4> HIDE DEF s
      <4>2. Append(s, m) \in Seq(Messages)
        BY <4>1
      <4>3. QED BY <4>2 DEF s
    <3>2. up' = up \/ up' = [up EXCEPT ![c] = Append(up[c], m)]
      BY <1>4 DEF Send
    <3>3. QED BY <3>1, <3>2
  <2>5. total' \in [Clients -> Int] /\ typed' \in [Clients -> Nat]
    <3>1. \/ total' = total /\ typed' = typed
          \/ /\ \/ total' = [total EXCEPT ![c] = Value(m)]
                \/ total' = [total EXCEPT ![c] = @ + Value(m)]
             /\ typed' = typed \/ typed' = [typed EXCEPT ![c] = @ + 1]
      BY <1>4 DEF Send
    <3>2. QED BY <2>1, <3>1
  <2>6. QED BY <1>4, <2>2, <2>3, <2>4, <2>5 DEF Send, server, history
<1>5. ASSUME Accept PROVE TypeOK'
  <2>1. Head(backlog) \in Clients /\ Tail(backlog) \in Seq(Clients)
    BY <1>5 DEF Accept, AtAccept
  <2>2. AddTo(monitor_fd_set, Free, Head(backlog))
          \in [Slots -> Clients \cup {Free, Console, Master}]
    BY <2>1, SlotTypes
  <2>3. Messages' = Messages
    BY <1>5 DEF Accept, Die, Messages
  <2>4. QED BY <1>5, <2>1, <2>2, <2>3 DEF Accept, Die, history
<1>6. ASSUME Select PROVE TypeOK'
  BY <1>6 DEF Select, Ready, history, Messages
<1>7. ASSUME Read PROVE TypeOK'
  <2>1. Slot \in todo /\ Slot \in Slots /\ Peer \in Clients
    BY <1>7, SlotToVisit DEF Read, LoopOK, Peer
  <2>2. RemoveFrom(monitor_fd_set, Free, Peer)
          \in [Slots -> Clients \cup {Free, Console, Master}]
    BY <2>1, SlotTypes
  <2> DEFINE m == IF up[Peer] = <<>> THEN EndOfStream ELSE Head(up[Peer])
  <2>3. m \in Messages
    BY <2>1, MessageFacts
  <2>4. Value(m) \in Int
    BY <2>3, MessageFacts
  <2>5. Messages' = Messages
    BY <1>7 DEF Read, Messages
  <2>6. todo' \in SUBSET Slots /\ pc' \in {"select", "loop", "answer", "ended"}
    BY <1>7 DEF Read, GoOn
  <2>7. monitor_fd_set' \in [Slots -> Clients \cup {Free, Console, Master}]
        /\ open' \in SUBSET Clients
    BY <1>7, <2>2 DEF Read, Close
  <2>8. client_response' \in [Slots -> Int]
    BY <1>7, <2>1, <2>4 DEF Read, Added
  <2>9. answer' \in [Clients -> Int \cup {None}]
    BY <1>7, <2>1, <2>4 DEF Read
  <2>10. up' \in [Clients -> Seq(Messages)] /\ merged' \in SUBSET Clients
    BY <1>7, <2>1 DEF Read
  <2>11. QED BY <1>7, <2>5, <2>6, <2>7, <2>8, <2>9, <2>10 DEF Read
<1>8. ASSUME Answer PROVE TypeOK'
  <2>1. Slot \in todo /\ Slot \in Slots /\ Peer \in Clients
    BY <1>8, SlotToVisit DEF Answer, LoopOK, Peer
  <2>2. RemoveFrom(monitor_fd_set, Free, Peer)
          \in [Slots -> Clients \cup {Free, Console, Master}]
    BY <2>1, SlotTypes
  <2>3. Messages' = Messages
    BY <1>8 DEF Answer, Messages
  <2>4. /\ todo' \in SUBSET Slots /\ pc' \in {"select", "loop", "answer", "ended"}
        /\ monitor_fd_set' \in [Slots -> Clients \cup {Free, Console, Master}]
        /\ open' \in SUBSET Clients
    BY <1>8, <2>2 DEF Answer, GoOn, Close
  <2>5. client_response' \in [Slots -> Int] /\ answer' \in [Clients -> Int \cup {None}]
    BY <1>8, <2>1 DEF Answer
  <2>6. QED BY <1>8, <2>3, <2>4, <2>5 DEF Answer, history
<1>9. ASSUME AnswerKills PROVE TypeOK'
  BY <1>9 DEF AnswerKills, Die, history, Messages
<1>10. CASE UNCHANGED vars
  BY <1>10 DEF vars, server, history, Messages
<1>11. QED BY <1>1, <1>2, <1>3, <1>4, <1>5, <1>6, <1>7, <1>8, <1>9, <1>10 DEF Next
-----------------------------------------------------------------------------
\* The console and the master socket get the first two slots.
LEMMA InitSlots ==
  ASSUME Init
  PROVE  SlotsOK
<1> DEFINE n == MAX_CLIENTS_SUPPORT
           T == Clients \cup {Free, Console, Master}
           none == AllFree(Slots, Free)
           one(v) == AddTo(none, Free, v)
           two == AddTo(one(Console), Free, Master)
<1>1. /\ n \in Nat /\ n >= 2 /\ Slots = 1..n
      /\ Free \in T /\ Console \in T /\ Master \in T
      /\ none \in [1..n -> T] /\ \A i \in 1..n : none[i] = Free
      /\ Free # Console /\ Free # Master /\ Console # Master
      /\ \A c \in Clients : c # Free /\ c # Console /\ c # Master
  BY SumAssumption DEF Slots, AllFree
<1>2. /\ monitor_fd_set = CASE kind = "sums"   -> two
                            [] kind = "pairs"  -> one(Master)
                            [] kind = "single" -> none
      /\ kind \in {"sums", "single", "pairs"}
      /\ \A i \in 1..n : client_response[i] = 0
  BY <1>1, SumAssumption DEF Init
<1> HIDE DEF n, T, none
<1>3. /\ Distinct(none, Free) /\ Holds(none, Free)
      /\ ~ Holds(none, Console) /\ ~ Holds(none, Master)
  BY <1>1 DEF Distinct, Holds
<1>4. ASSUME NEW v \in {Console, Master}
      PROVE  /\ one(v) \in [1..n -> T] /\ Distinct(one(v), Free) /\ Holds(one(v), v)
             /\ \A i \in 1..n : one(v)[i] \in {Free, v}
             /\ Holds(one(v), Free)
  <2>1. v \in T /\ ~ Holds(none, v)
    BY <1>1, <1>3
  <2>2. one(v) \in [1..n -> T]
    BY <1>1, <2>1, AddToIs
  <2>3. Distinct(one(v), Free) /\ \A i \in 1..n : one(v)[i] \in {none[i], v}
    BY <1>1, <1>3, <2>1, AddToSound
  <2>4. Holds(one(v), v)
    BY <1>1, <1>3, <2>1, AddToHolds
  <2>5. 1 \in 1..n /\ 2 \in 1..n
    BY <1>1
  <2>6. FirstSlot(none, Free) \in 1..n
    BY <1>1, <1>3, FirstSlotIs
  <2>7. one(v) = [none EXCEPT ![FirstSlot(none, Free)] = v]
    BY <1>3 DEF AddTo
  <2> HIDE DEF one
  <2>8. Holds(one(v), Free)
    <3>1. one(v)[1] = Free \/ one(v)[2] = Free
      BY <1>1, <2>5, <2>6, <2>7
    <3>2. QED BY <2>2, <2>5, <3>1 DEF Holds
  <2>9. QED BY <1>1, <2>2, <2>3, <2>4, <2>8
<1>5. /\ two \in [1..n -> T] /\ Distinct(two, Free)
      /\ Holds(two, Console) /\ Holds(two, Master)
      /\ \A i \in 1..n : two[i] \in {Free, Console, Master}
  <2> DEFINE c == one(Console)
  <2>1. /\ c \in [1..n -> T] /\ Distinct(c, Free) /\ Holds(c, Console)
        /\ \A i \in 1..n : c[i] \in {Free, Console}
        /\ Holds(c, Free)
    BY <1>4
  <2> HIDE DEF c
  <2>2. ~ Holds(c, Master)
    BY <1>1, <2>1 DEF Holds
  <2>3. AddTo(c, Free, Master) \in [1..n -> T]
    BY <1>1, <2>1, AddToIs
  <2>4. /\ Distinct(AddTo(c, Free, Master), Free)
        /\ \A x : x # Free /\ Holds(c, x) => Holds(AddTo(c, Free, Master), x)
        /\ \A i \in 1..n : AddTo(c, Free, Master)[i] \in {c[i], Master}
    BY <1>1, <2>1, <2>2, AddToSound
  <2>5. Holds(AddTo(c, Free, Master), Master)
    BY <1>1, <2>1, AddToHolds
  <2>6. QED BY <1>1, <2>1, <2>3, <2>4, <2>5 DEF c
<1>6. /\ Distinct(monitor_fd_set, Free)
      /\ kind = "sums" => Holds(monitor_fd_set, Console)
      /\ kind # "single" => Holds(monitor_fd_set, Master)
      /\ \A i \in 1..n : monitor_fd_set[i] \in {Free, Console, Master}
  <2>1. CASE kind = "sums"
    <3>1. monitor_fd_set = two
      BY <1>2, <2>1
    <3>2. QED BY <1>5, <2>1, <3>1
  <2>2. CASE kind = "pairs"
    <3>1. monitor_fd_set = one(Master)
      BY <1>2, <2>2
    <3>2. QED BY <1>4, <2>2, <3>1
  <2>3. CASE kind = "single"
    <3>1. monitor_fd_set = none
      BY <1>2, <2>3
    <3>2. QED BY <1>1, <1>3, <2>3, <3>1
  <2>4. QED BY <1>2, <2>1, <2>2, <2>3
<1>7. \A i \in 1..n : monitor_fd_set[i] \notin Clients
  BY <1>1, <1>6
<1>8. QED BY <1>1, <1>2, <1>6, <1>7 DEF SlotsOK

LEMMA InitHolds ==
  ASSUME Init
  PROVE  IInv
<1>1. TypeOK /\ SlotsOK
  BY InitTyped, InitSlots
<1>2. BacklogOK /\ LoopOK
  BY DEF Init, BacklogOK, LoopOK
<1>3. ClientsOK
  <2> SUFFICES ASSUME NEW c \in Clients
               PROVE  StartOK(c) /\ PairsOK(c) /\ SumsOK(c) /\ Told(c)
    BY DEF ClientsOK
  <2>1. /\ up[c] = <<>> /\ answer[c] = None /\ total[c] = 0 /\ c \notin open
        /\ ~Waiting(c) /\ pc = "select"
    BY DEF Init, Waiting
  <2>2. HungUp(c) /\ \A i \in Slots : monitor_fd_set[i] # c
    BY <1>1, <2>1 DEF HungUp, SlotsOK
  <2>3. QED BY <2>1, <2>2 DEF StartOK, PairsOK, SumsOK, Told
<1>4. EndOK
  BY DEF Init, EndOK, ServerEndHasACause
<1>5. QED BY <1>1, <1>2, <1>3, <1>4 DEF IInv
-----------------------------------------------------------------------------
(* Steps of the clients.                                                   *)

\* A step of client c that leaves the server alone.
ClientStep(c) ==
  /\ UNCHANGED <<kind, server, open, merged>>
  /\ client' \in [Clients -> Known]
  /\ \A d \in Clients : d # c => up'[d] = up[d] /\ answer'[d] = answer[d]
                                 /\ client'[d] = client[d] /\ total'[d] = total[d]
  /\ up'[c] = up[c] \/ (client[c] = "typing" /\ up'[c] # <<>>)
  /\ client[c] \notin {"gone", "done", "cut"}
  /\ client'[c] # "start"
  /\ client'[c] = "typing" => client[c] \in {"start", "typing"} \/ kind = "pairs"

LEMMA ClientsStep ==
  ASSUME TypeOK, NEW c \in Clients,
         \/ Connect(c) \/ Receive(c) \/ Interrupt(c) \/ \E m \in Messages : Send(c, m)
  PROVE  ClientStep(c)
<1>1. CASE Connect(c)
  BY <1>1 DEF Connect, ClientStep, history, TypeOK, Known
<1>2. CASE Receive(c)
  BY <1>2 DEF Receive, ClientStep, history, TypeOK, Known
<1>3. CASE Interrupt(c)
  BY <1>3 DEF Interrupt, ClientStep, history, TypeOK, Known
<1>4. ASSUME NEW m \in Messages, Send(c, m) PROVE ClientStep(c)
  <2>1. up' = up \/ up' = [up EXCEPT ![c] = Append(up[c], m)]
    BY <1>4 DEF Send
  <2>2. up[c] \in Seq(Messages) /\ Append(up[c], m) # <<>>
    <3>1. \A s \in Seq(Messages) : Append(s, m) # <<>>
      OBVIOUS
    <3>2. QED BY <3>1 DEF TypeOK
  <2>3. up'[c] = up[c] \/ up'[c] # <<>>
    BY <2>1, <2>2 DEF TypeOK
  <2>4. \A d \in Clients : d # c => up'[d] = up[d] /\ total'[d] = total[d]
    BY <1>4, <2>1 DEF Send, TypeOK
  <2>5. /\ client' \in [Clients -> Known] /\ client'[c] # "start"
        /\ \A d \in Clients : d # c => client'[d] = client[d]
    BY <1>4 DEF Send, TypeOK, Known
  <2>6. QED BY <1>4, <2>3, <2>4, <2>5 DEF Send, ClientStep
<1>5. QED BY <1>1, <1>2, <1>3, <1>4

\* Such a step leaves what is known of the server.
LEMMA ClientsLeaveServer ==
  ASSUME IInv, NEW c \in Clients, ClientStep(c)
  PROVE  SlotsOK' /\ LoopOK' /\ EndOK'
<1>1. SlotsOK'
  BY DEF IInv, ClientStep, server, SlotsOK, Holds
<1>2. \A d \in Clients : Readable(d) => Readable(d)'
  BY DEF ClientStep, Readable, Ended
<1>3. LoopOK'
  <2>1. Slot' = Slot /\ Peer' = Peer
    BY DEF ClientStep, server, Slot, Peer
  <2>2. ASSUME pc = "answer"
        PROVE  up'[Peer] = <<>> /\ client'[Peer] # "typing"
    <3>1. kind # "pairs" /\ up[Peer] = <<>> /\ client[Peer] # "typing" /\ Peer \in Clients
      BY <2>2, SlotToVisit DEF IInv, LoopOK, Peer
    <3>2. Peer \in open
      BY <2>2, <3>1, SlotToVisit DEF IInv, LoopOK, SlotsOK, TypeOK, Peer
    <3>3. client[Peer] # "start"
      BY <3>1, <3>2 DEF IInv, ClientsOK, StartOK
    <3>4. ~HungUp(Peer)
      BY <2>2, <3>2 DEF HungUp
    <3>5. QED BY <3>1, <3>3, <3>4 DEF ClientStep
  <2>3. QED BY <1>2, <2>1, <2>2 DEF IInv, LoopOK, ClientStep, server
<1>4. EndOK'
  <2>1. \A d \in Clients : client[d] = "gone" => client'[d] = "gone"
    BY DEF ClientStep
  <2>2. QED BY <2>1 DEF IInv, EndOK, ServerEndHasACause, ClientStep, server, Holds
<1>5. QED BY <1>1, <1>3, <1>4

\* Nor does it change what is known of the other clients, unless they join the backlog.
LEMMA ClientsLeaveOthers ==
  ASSUME IInv, NEW c \in Clients, ClientStep(c), NEW d \in Clients, d # c,
         Waiting(d)' <=> Waiting(d)
  PROVE  StartOK(d)' /\ PairsOK(d)' /\ SumsOK(d)' /\ Told(d)'
<1>1. StartOK(d) /\ PairsOK(d) /\ SumsOK(d) /\ Told(d)
  BY DEF IInv, ClientsOK
<1>2. /\ up'[d] = up[d] /\ answer'[d] = answer[d] /\ client'[d] = client[d]
      /\ total'[d] = total[d] /\ UNCHANGED <<kind, server, open, merged>>
  BY DEF ClientStep
<1>3. HungUp(d)' <=> HungUp(d)
  BY <1>2 DEF HungUp, server
<1>4. \A s : Rest(d, s)' <=> Rest(d, s)
  BY <1>2 DEF Rest, Value
<1>5. StartOK(d)' /\ Told(d)'
  BY <1>1, <1>2 DEF StartOK, Told
<1>6. PairsOK(d)'
  BY <1>1, <1>2, <1>3 DEF PairsOK, Value
<1>7. SumsOK(d)'
  <2>1. Zeros(Head(up[d]))' <=> Zeros(Head(up[d]))
    BY <1>2 DEF Zeros
  <2>2. QED BY <1>1, <1>2, <1>3, <1>4, <2>1 DEF SumsOK, server
<1>8. QED BY <1>5, <1>6, <1>7

LEMMA ConnectKeeps ==
  ASSUME IInv, NEW c \in Clients, Connect(c)
  PROVE  BacklogOK' /\ ClientsOK'
<1> DEFINE Listed == {backlog[i] : i \in DOMAIN backlog}
<1>1. ClientStep(c)
  BY ClientsStep DEF IInv
<1>2. /\ client[c] = "start" /\ up[c] = <<>> /\ answer[c] = None /\ total[c] = 0
      /\ c \notin open /\ c \notin Listed /\ backlog \in Seq(Clients)
  BY DEF IInv, ClientsOK, StartOK, Connect, TypeOK, Waiting
<1>3. /\ backlog' = Append(backlog, c) /\ pc # "ended"
      /\ UNCHANGED <<kind, server, open, up, answer, total, merged>>
  BY DEF Connect, history
<1>4. \A d : Waiting(d)' <=> (d = c \/ Waiting(d))
  BY <1>2, <1>3, AppendWaits DEF Waiting
<1>5. BacklogOK'
  <2>1. /\ Len(backlog) \in Nat /\ Len(backlog') = Len(backlog) + 1
        /\ \A i \in 1..Len(backlog) : backlog'[i] = backlog[i] /\ backlog[i] # c
        /\ backlog'[Len(backlog) + 1] = c
    BY <1>2, <1>3
  <2>2. QED BY <1>2, <1>3, <2>1 DEF IInv, BacklogOK
<1>6. ASSUME NEW d \in Clients, d # c
      PROVE  StartOK(d)' /\ PairsOK(d)' /\ SumsOK(d)' /\ Told(d)'
  BY <1>1, <1>4, <1>6, ClientsLeaveOthers
<1>7. StartOK(c)' /\ PairsOK(c)' /\ SumsOK(c)' /\ Told(c)'
  <2>1. up'[c] = <<>> /\ answer'[c] = None /\ total'[c] = 0 /\ client'[c] = "typing"
    BY <1>2, <1>3 DEF Connect, IInv, TypeOK
  <2>2. \A i \in Slots : monitor_fd_set'[i] # c
    BY <1>2, <1>3 DEF IInv, SlotsOK, server
  <2>3. QED BY <2>1, <2>2 DEF StartOK, PairsOK, SumsOK, Told, Rest
<1>8. QED BY <1>5, <1>6, <1>7 DEF ClientsOK

LEMMA ReceiveKeeps ==
  ASSUME IInv, NEW c \in Clients, Receive(c)
  PROVE  BacklogOK' /\ ClientsOK'
<1>1. ClientStep(c)
  BY ClientsStep DEF IInv
<1>2. /\ client[c] = "waiting"
      /\ UNCHANGED <<kind, server, backlog, open, up, total, merged>>
      /\ answer'[c] = None
      /\ client'[c] = IF kind = "pairs" THEN "typing"
                      ELSE IF answer[c] # None THEN "done" ELSE "cut"
      /\ answer[c] # None \/ HungUp(c)
  BY DEF Receive, history, IInv, TypeOK
<1>3. (\A d : Waiting(d)' <=> Waiting(d)) /\ (HungUp(c)' <=> HungUp(c))
  BY <1>2 DEF Waiting, HungUp, server
<1>4. BacklogOK'
  BY <1>2 DEF IInv, BacklogOK
<1>5. ASSUME NEW d \in Clients, d # c
      PROVE  StartOK(d)' /\ PairsOK(d)' /\ SumsOK(d)' /\ Told(d)'
  BY <1>1, <1>3, <1>5, ClientsLeaveOthers
<1>6. StartOK(c) /\ PairsOK(c) /\ SumsOK(c)
  BY DEF IInv, ClientsOK
<1>7. \A s : Rest(c, s)' <=> Rest(c, s)
  BY <1>2 DEF Rest, Value
<1>8. StartOK(c)' /\ Told(c)'
  BY <1>2 DEF StartOK, Told
<1>9. PairsOK(c)'
  BY <1>2, <1>3, <1>6 DEF PairsOK, Value
<1>10. SumsOK(c)'
  BY <1>2, <1>3, <1>6, <1>7 DEF SumsOK, server, HungUp, Waiting
<1>11. QED BY <1>4, <1>5, <1>8, <1>9, <1>10 DEF ClientsOK

LEMMA InterruptKeeps ==
  ASSUME IInv, NEW c \in Clients, Interrupt(c)
  PROVE  BacklogOK' /\ ClientsOK'
<1>1. ClientStep(c)
  BY ClientsStep DEF IInv
<1>2. /\ UNCHANGED <<kind, server, backlog, open, up, answer, total, merged>>
      /\ client'[c] = "gone"
  BY DEF Interrupt, history, IInv, TypeOK
<1>3. (\A d : Waiting(d)' <=> Waiting(d)) /\ (HungUp(c)' <=> HungUp(c))
  BY <1>2 DEF Waiting, HungUp, server
<1>4. BacklogOK'
  BY <1>2 DEF IInv, BacklogOK
<1>5. ASSUME NEW d \in Clients, d # c
      PROVE  StartOK(d)' /\ PairsOK(d)' /\ SumsOK(d)' /\ Told(d)'
  BY <1>1, <1>3, <1>5, ClientsLeaveOthers
<1>6. PairsOK(c) /\ SumsOK(c) /\ Told(c)
  BY DEF IInv, ClientsOK
<1>7. \A s : Rest(c, s)' <=> Rest(c, s)
  BY <1>2 DEF Rest, Value
<1>8. StartOK(c)' /\ Told(c)'
  BY <1>2, <1>6 DEF StartOK, Told
<1>9. PairsOK(c)'
  BY <1>2, <1>3, <1>6 DEF PairsOK, Value
<1>10. SumsOK(c)'
  BY <1>2, <1>3, <1>6, <1>7 DEF SumsOK, server
<1>11. QED BY <1>4, <1>5, <1>8, <1>9, <1>10 DEF ClientsOK

LEMMA SendKeeps ==
  ASSUME IInv, NEW c \in Clients, NEW m \in Messages, Send(c, m)
  PROVE  BacklogOK' /\ ClientsOK'
<1>1. ClientStep(c)
  BY ClientsStep DEF IInv
<1>2. /\ client[c] = "typing"
      /\ UNCHANGED <<kind, server, backlog, open, answer, merged>>
  BY DEF Send
<1>3. (\A d : Waiting(d)' <=> Waiting(d)) /\ (HungUp(c)' <=> HungUp(c))
  BY <1>2 DEF Waiting, HungUp, server
<1>4. BacklogOK'
  BY <1>2 DEF IInv, BacklogOK
<1>5. ASSUME NEW d \in Clients, d # c
      PROVE  StartOK(d)' /\ PairsOK(d)' /\ SumsOK(d)' /\ Told(d)'
  BY <1>1, <1>3, <1>5, ClientsLeaveOthers
<1>6. StartOK(c) /\ PairsOK(c) /\ SumsOK(c) /\ Told(c)
  BY DEF IInv, ClientsOK
<1>7. ASSUME HungUp(c)
      PROVE  StartOK(c)' /\ PairsOK(c)' /\ SumsOK(c)' /\ Told(c)'
  <2>1. UNCHANGED <<up, total>> /\ client'[c] \in {"cut", "done", "waiting"}
        /\ (client'[c] \in {"done", "waiting"} => kind = "pairs")
    BY <1>7 DEF Send, IInv, TypeOK
  <2>2. \A s : Rest(c, s)' <=> Rest(c, s)
    BY <1>2, <2>1 DEF Rest, Value
  <2>3. StartOK(c)' /\ Told(c)'
    BY <1>2, <1>6, <2>1 DEF StartOK, Told
  <2>4. PairsOK(c)'
    BY <1>2, <1>3, <1>6, <2>1 DEF PairsOK, Value
  <2>5. SumsOK(c)'
    BY <1>2, <1>3, <1>6, <1>7, <2>1, <2>2 DEF SumsOK, server
  <2>6. QED BY <2>3, <2>4, <2>5
<1>8. ASSUME ~HungUp(c)
      PROVE  StartOK(c)' /\ PairsOK(c)' /\ SumsOK(c)' /\ Told(c)'
  <2>1. /\ up'[c] = Append(up[c], m)
        /\ total'[c] = IF kind = "pairs" THEN Value(m) ELSE total[c] + Value(m)
        /\ client'[c] = IF kind = "pairs" THEN IF Zeros(m) THEN "done" ELSE "waiting"
                        ELSE IF Zeros(m) THEN "waiting" ELSE "typing"
    BY <1>8 DEF Send, IInv, TypeOK
  <2>2. up[c] \in Seq(Messages)
    BY DEF IInv, TypeOK
  <2>3. /\ Len(up'[c]) = Len(up[c]) + 1 /\ Len(up[c]) \in Nat /\ up'[c] # <<>>
        /\ Len(up[c]) = 0 => up'[c][1] = m /\ Head(up'[c]) = m /\ up[c] = <<>>
        /\ Len(up[c]) # 0 => Head(up'[c]) = Head(up[c]) /\ up[c] # <<>>
    BY <2>1, <2>2
  <2>4. StartOK(c)'
    BY <2>1 DEF StartOK
  <2>5. answer[c] = None
    BY <1>2, <1>6, <1>8 DEF PairsOK, SumsOK, HungUp, IInv, EndOK
  <2>6. Told(c)'
    BY <1>2, <2>5 DEF Told
  <2>7. PairsOK(c)'
    BY <1>2, <1>3, <1>6, <1>8, <2>1, <2>3, <2>5 DEF PairsOK, Value
  <2>8. ASSUME kind # "pairs" PROVE SumsOK(c)'
    <3>1. \A s \in Int : Rest(c, s) => Rest(c, s)'
      <4>1. Value(m) \in Int /\ total[c] \in Int
        BY MessageFacts DEF IInv, TypeOK
      <4>2. \A x : Value(x)' = Value(x)
        BY <1>2 DEF Value
      <4>3. QED BY <2>1, <2>3, <2>8, <4>1, <4>2 DEF Rest
    <3>2. Zeros(Head(up'[c])) => client'[c] # "typing"
      BY <1>2, <1>6, <2>1, <2>3, <2>8 DEF SumsOK
    <3>3. \A i \in Slots : client_response[i] \in Int
      BY DEF IInv, TypeOK
    <3>4. /\ HungUp(c)' <=> HungUp(c)
          /\ Waiting(c)' <=> Waiting(c)
          /\ UNCHANGED <<monitor_fd_set, client_response, merged, open, answer, kind>>
      BY <1>2, <1>3 DEF server
    <3>5. client'[c] \in {"typing", "waiting", "gone"}
      BY <2>1, <2>8
    <3>6. (Zeros(Head(up[c])))' => client'[c] # "typing"
      BY <3>2 DEF Zeros
    <3>7. QED BY <1>6, <2>5, <2>8, <3>1, <3>3, <3>4, <3>5, <3>6 DEF SumsOK
  <2>9. kind = "pairs" => SumsOK(c)'
    BY <1>2 DEF SumsOK
  <2>10. QED BY <2>4, <2>6, <2>7, <2>8, <2>9
<1>9. QED BY <1>4, <1>5, <1>7, <1>8 DEF ClientsOK
-----------------------------------------------------------------------------
(* Steps of the server.                                                    *)

\* The end of the server leaves what is known of slots, connections and clients.
LEMMA DieKeeps ==
  ASSUME IInv, NEW cause, cause # "no", Die(cause)
  PROVE  SlotsOK' /\ BacklogOK' /\ LoopOK' /\ ClientsOK' /\ pc' = "ended" /\ ended' = cause
<1>1. /\ UNCHANGED <<kind, monitor_fd_set, client_response, todo, backlog, open, up, answer,
                     client, total, merged>>
      /\ pc' = "ended" /\ ended' = cause
  BY DEF Die, history
<1>2. SlotsOK' /\ BacklogOK'
  BY <1>1 DEF IInv, SlotsOK, BacklogOK, Holds
<1>3. LoopOK'
  BY <1>1 DEF IInv, LoopOK
<1>4. ASSUME NEW c \in Clients
      PROVE  StartOK(c)' /\ PairsOK(c)' /\ SumsOK(c)' /\ Told(c)'
  <2>1. StartOK(c) /\ PairsOK(c) /\ SumsOK(c) /\ Told(c)
    BY DEF IInv, ClientsOK
  <2>2. HungUp(c)' /\ (Waiting(c)' <=> Waiting(c)) /\ (\A s : Rest(c, s)' <=> Rest(c, s))
    BY <1>1 DEF HungUp, Waiting, Rest, Value
  <2>3. StartOK(c)' /\ Told(c)'
    BY <1>1, <2>1, <2>2 DEF StartOK, Told
  <2>4. PairsOK(c)'
    BY <1>1, <2>1, <2>2 DEF PairsOK, Value
  <2>5. SumsOK(c)'
    BY <1>1, <2>1, <2>2 DEF SumsOK, Zeros
  <2>6. QED BY <2>3, <2>4, <2>5
<1>5. QED BY <1>1, <1>2, <1>3, <1>4 DEF ClientsOK

\* If every open connection is in the array, accept does not run out of descriptors.
LEMMA AcceptSucceeds ==
  ASSUME IInv, AtAccept, \A c \in open : Holds(monitor_fd_set, c)
  PROVE  Cardinality(open) + Fixed < FdLimit
<1> DEFINE n == MAX_CLIENTS_SUPPORT
           Others == IF kind = "sums" THEN {Console, Master}
                     ELSE IF kind = "pairs" THEN {Master} ELSE {}
           Used == {monitor_fd_set[i] : i \in 1..n}
<1>1. /\ n \in Nat /\ n > 1 /\ Slots = 1..n /\ DOMAIN monitor_fd_set = 1..n
      /\ FdLimit \in Nat /\ FdLimit > n /\ open \subseteq Clients
      /\ {Free, Console, Master} \cap Clients = {} /\ Console # Master
      /\ kind \in {"sums", "single", "pairs"}
  BY SumAssumption DEF IInv, TypeOK, Slots
<1>2. IsFiniteSet(1..n) /\ Cardinality(1..n) = n
  BY <1>1, FS_Interval
<1>3. IsFiniteSet(Used) /\ Cardinality(Used) <= n
  <2>1. /\ monitor_fd_set \in [1..n -> Used]
        /\ \A v \in Used : \E i \in 1..n : monitor_fd_set[i] = v
    BY <1>1 DEF IInv, TypeOK
  <2>2. monitor_fd_set \in Surjection(1..n, Used)
    BY <2>1 DEF Surjection
  <2>3. QED BY <1>2, <2>2, FS_Surjection
<1>4. open \cup Others \subseteq Used
  BY <1>1 DEF IInv, SlotsOK, Holds
<1>5. /\ IsFiniteSet(open \cup Others) /\ Cardinality(open \cup Others) <= n
      /\ IsFiniteSet(open) /\ Cardinality(open) \in Nat
  <2>1. IsFiniteSet(open \cup Others) /\ Cardinality(open \cup Others) <= Cardinality(Used)
    BY <1>3, <1>4, FS_Subset
  <2>2. IsFiniteSet(open)
    BY <2>1, FS_Subset
  <2>3. Cardinality(open \cup Others) \in Nat /\ Cardinality(Used) \in Nat
        /\ Cardinality(open) \in Nat
    BY <1>3, <2>1, <2>2, FS_CardinalityType
  <2>4. QED BY <1>1, <1>3, <2>1, <2>2, <2>3
<1>6. Console \notin open /\ Master \notin open /\ Master \notin open \cup {Console}
  BY <1>1
<1>7. Cardinality(open \cup {Master}) = Cardinality(open) + 1
  BY <1>5, <1>6, FS_AddElement
<1>8. CASE kind = "sums"
  <2>1. /\ IsFiniteSet(open \cup {Console})
        /\ Cardinality(open \cup {Console}) = Cardinality(open) + 1
    BY <1>5, <1>6, FS_AddElement
  <2>2. Cardinality((open \cup {Console}) \cup {Master}) = Cardinality(open) + 2
    <3> DEFINE S == open \cup {Console}
    <3>1. IsFiniteSet(S) /\ Master \notin S /\ Cardinality(S) = Cardinality(open) + 1
      BY <1>6, <2>1
    <3> HIDE DEF S
    <3>2. Cardinality(S \cup {Master}) = Cardinality(S) + 1
      BY <3>1, FS_AddElement
    <3>3. Cardinality(S \cup {Master}) = Cardinality(open) + 2
      BY <1>5, <3>1, <3>2
    <3>4. QED BY <3>3 DEF S
  <2>3. (open \cup {Console}) \cup {Master} = open \cup Others
    BY <1>8
  <2>4. Fixed = 2
    BY <1>8 DEF Fixed
  <2> HIDE DEF Others
  <2>5. Cardinality(open) + 2 <= n
    BY <1>5, <2>2, <2>3
  <2>6. QED BY <1>1, <1>5, <2>4, <2>5
<1>9. CASE kind = "pairs"
  <2>1. open \cup {Master} = open \cup Others /\ Fixed = 1
    BY <1>9 DEF Fixed
  <2> HIDE DEF Others
  <2>2. Cardinality(open) + 1 <= n
    BY <1>5, <1>7, <2>1
  <2>3. QED BY <1>1, <1>5, <2>1, <2>2
<1>10. CASE kind = "single"
  <2>1. open = {} /\ Fixed = 1
    BY <1>10 DEF AtAccept, Fixed
  <2>2. Cardinality(open) = 0
    BY <2>1, FS_EmptySet
  <2>3. QED BY <1>1, <2>1, <2>2
<1>11. QED BY <1>1, <1>8, <1>9, <1>10

LEMMA AcceptKeeps ==
  ASSUME IInv, Accept
  PROVE  SlotsOK' /\ BacklogOK' /\ LoopOK' /\ ClientsOK' /\ EndOK'
<1>1. CASE Cardinality(open) + Fixed < FdLimit
  <2> DEFINE h == Head(backlog)
             n == MAX_CLIENTS_SUPPORT
             T == Clients \cup {Free, Console, Master}
             Listed == {backlog[i] : i \in DOMAIN backlog}
  <2>1. /\ pc = "select" /\ backlog # <<>>
        /\ open' = open \cup {h} /\ backlog' = Tail(backlog)
        /\ monitor_fd_set' = AddTo(monitor_fd_set, Free, h)
        /\ UNCHANGED <<kind, pc, ended, client_response, todo, up, answer, client, total, merged>>
    BY <1>1 DEF Accept, AtAccept, history
  <2>2. backlog \in Seq(Clients) /\ \A i, j \in 1..Len(backlog) : backlog[i] = backlog[j] => i = j
    BY DEF IInv, TypeOK, BacklogOK
  <2>3. h \in Clients /\ h \in Listed /\ Tail(backlog) \in Seq(Clients)
    BY <2>1, <2>2, TailWaits
  <2>4. h \notin open
    BY <2>2, <2>3 DEF IInv, BacklogOK
  <2>5. ~ Holds(monitor_fd_set, h)
    BY <2>3, <2>4 DEF IInv, SlotsOK, Holds, TypeOK
  <2>6. /\ n \in Nat /\ Slots = 1..n /\ monitor_fd_set \in [1..n -> T] /\ h \in T
        /\ h # Free /\ Console # Free /\ Master # Free
    BY <2>3, SumAssumption DEF IInv, TypeOK, Slots
  <2>7. \A d : Waiting(d)' <=> (d # h /\ Waiting(d))
    <3>1. \A d : (d \in {Tail(backlog)[i] : i \in DOMAIN Tail(backlog)})
                   <=> (d # Head(backlog) /\ d \in {backlog[i] : i \in DOMAIN backlog})
      BY <2>1, <2>2, TailWaits
    <3>2. QED BY <2>1, <3>1 DEF Waiting
  <2>8. /\ Distinct(monitor_fd_set', Free)
        /\ \A x : x # Free /\ Holds(monitor_fd_set, x) => Holds(monitor_fd_set', x)
        /\ \A i \in Slots : monitor_fd_set'[i] \in {monitor_fd_set[i], h}
    <3> HIDE DEF n, T, h
    <3>1. Distinct(monitor_fd_set, Free)
      BY DEF IInv, SlotsOK
    <3>2. /\ Distinct(AddTo(monitor_fd_set, Free, h), Free)
          /\ \A x : x # Free /\ Holds(monitor_fd_set, x)
                    => Holds(AddTo(monitor_fd_set, Free, h), x)
          /\ \A i \in 1..n : AddTo(monitor_fd_set, Free, h)[i] \in {monitor_fd_set[i], h}
      BY <2>5, <2>6, <3>1, AddToSound
    <3>3. QED BY <2>1, <2>6, <3>2
  <2>9. \A i \in Slots : monitor_fd_set'[i] = h => monitor_fd_set[i] = Free
    <3> HIDE DEF n, T, h
    <3> DEFINE k == FirstSlot(monitor_fd_set, Free)
    <3>1. \/ monitor_fd_set' = monitor_fd_set
          \/ /\ k \in 1..n /\ monitor_fd_set[k] = Free
             /\ monitor_fd_set' = [monitor_fd_set EXCEPT ![k] = h]
      <4>1. Holds(monitor_fd_set, Free) => k \in 1..n /\ monitor_fd_set[k] = Free
        BY <2>6, FirstSlotIs
      <4>2. QED BY <2>1, <4>1 DEF AddTo
    <3> HIDE DEF k
    <3>2. \A i \in Slots : monitor_fd_set[i] # h
      BY <2>5, <2>6 DEF Holds
    <3>3. QED BY <2>1, <2>6, <3>1, <3>2
  <2> HIDE DEF h, n, T
  <2>10. SlotsOK'
    BY <2>1, <2>6, <2>8 DEF IInv, SlotsOK
  <2>11. BacklogOK'
    <3>1. \A i, j \in 1..Len(backlog') : backlog'[i] = backlog'[j] => i = j
      <4>1. \A i, j \in 1..Len(Tail(backlog)) : Tail(backlog)[i] = Tail(backlog)[j] => i = j
        BY <2>1, <2>2, TailWaits
      <4>2. QED BY <2>1, <4>1
    <3>2. \A d : Waiting(d) => d \notin open
      BY <2>2 DEF IInv, BacklogOK, Waiting
    <3>3. \A d : Waiting(d)' => d \notin open'
      BY <2>1, <2>7, <3>2
    <3>4. \A i \in 1..Len(backlog') : backlog'[i] \notin open'
      <4>1. DOMAIN backlog' = 1..Len(backlog')
        BY <2>1, <2>3
      <4>2. QED BY <3>3, <4>1 DEF Waiting
    <3>5. QED BY <3>1, <3>4 DEF BacklogOK
  <2>12. LoopOK'
    BY <2>1 DEF IInv, LoopOK
  <2>13. EndOK'
    BY <2>1 DEF IInv, EndOK, ServerEndHasACause
  <2>14. ASSUME NEW d \in Clients
         PROVE  StartOK(d)' /\ PairsOK(d)' /\ SumsOK(d)' /\ Told(d)'
    <3>1. StartOK(d) /\ PairsOK(d) /\ SumsOK(d) /\ Told(d)
      BY DEF IInv, ClientsOK
    <3>2. Waiting(h)
      BY <2>3 DEF Waiting, h
    <3>3. (d \in open' \/ Waiting(d)') <=> (d \in open \/ Waiting(d))
      BY <2>1, <2>7, <3>2
    <3>4. HungUp(d)' <=> HungUp(d)
      BY <2>1, <3>3 DEF HungUp
    <3>5. \A s : Rest(d, s)' <=> Rest(d, s)
      BY <2>1 DEF Rest, Value
    <3>6. StartOK(d)' /\ Told(d)'
      BY <2>1, <3>1, <3>3 DEF StartOK, Told
    <3>7. PairsOK(d)'
      BY <2>1, <3>1, <3>4 DEF PairsOK, Value
    <3>8. SumsOK(d)'
      <4>1. ASSUME kind # "pairs", d \notin merged, NEW i \in Slots, monitor_fd_set'[i] = d
            PROVE  Rest(d, client_response[i])
        <5>1. CASE d = h
          BY <2>9, <3>1, <3>2, <4>1, <5>1 DEF SumsOK, IInv, SlotsOK
        <5>2. CASE d # h
          BY <2>8, <3>1, <4>1, <5>2 DEF SumsOK
        <5>3. QED BY <5>1, <5>2
      <4>2. Zeros(Head(up[d]))' <=> Zeros(Head(up[d]))
        BY <2>1 DEF Zeros
      <4>3. QED BY <2>1, <2>7, <3>1, <3>3, <3>4, <3>5, <4>1, <4>2 DEF SumsOK
    <3>9. QED BY <3>6, <3>7, <3>8
  <2>15. QED BY <2>10, <2>11, <2>12, <2>13, <2>14 DEF ClientsOK
<1>2. CASE ~(Cardinality(open) + Fixed < FdLimit)
  <2>1. Die("accept") /\ AtAccept
    BY <1>2 DEF Accept
  <2>2. SlotsOK' /\ BacklogOK' /\ LoopOK' /\ ClientsOK' /\ pc' = "ended" /\ ended' = "accept"
    BY <2>1, DieKeeps
  <2>3. \E c \in open : ~Holds(monitor_fd_set, c)
    BY <1>2, <2>1, AcceptSucceeds
  <2>4. EndOK'
    BY <2>1, <2>2, <2>3 DEF EndOK, ServerEndHasACause, Die
  <2>5. QED BY <2>2, <2>4
<1>3. QED BY <1>1, <1>2

LEMMA SelectKeeps ==
  ASSUME IInv, Select
  PROVE  SlotsOK' /\ BacklogOK' /\ LoopOK' /\ ClientsOK' /\ EndOK'
<1>1. /\ UNCHANGED <<kind, ended, monitor_fd_set, client_response, backlog, open, up, answer,
                     client, total, merged>>
      /\ pc = "select" /\ pc' = "loop" /\ todo' = Ready /\ Ready # {}
  BY DEF Select, history
<1>2. SlotsOK' /\ BacklogOK'
  BY <1>1 DEF IInv, SlotsOK, BacklogOK, Holds
<1>3. LoopOK'
  BY <1>1 DEF LoopOK, Ready, Readable, Ended
<1>4. ASSUME NEW c \in Clients
      PROVE  StartOK(c)' /\ PairsOK(c)' /\ SumsOK(c)' /\ Told(c)'
  <2>1. StartOK(c) /\ PairsOK(c) /\ SumsOK(c) /\ Told(c)
    BY DEF IInv, ClientsOK
  <2>2. /\ HungUp(c)' <=> HungUp(c)
        /\ Waiting(c)' <=> Waiting(c)
        /\ \A s : Rest(c, s)' <=> Rest(c, s)
    BY <1>1 DEF HungUp, Waiting, Rest, Value
  <2>3. StartOK(c)' /\ Told(c)'
    BY <1>1, <2>1, <2>2 DEF StartOK, Told
  <2>4. PairsOK(c)'
    BY <1>1, <2>1, <2>2 DEF PairsOK, Value
  <2>5. SumsOK(c)'
    BY <1>1, <2>1, <2>2 DEF SumsOK, Zeros
  <2>6. QED BY <2>3, <2>4, <2>5
<1>5. EndOK'
  BY <1>1 DEF IInv, EndOK, ServerEndHasACause
<1>6. QED BY <1>2, <1>3, <1>4, <1>5 DEF ClientsOK

\* In the loop the server is at the only slot of a client that is connected.
LEMMA AtSlot ==
  ASSUME IInv, pc \in {"loop", "answer"}
  PROVE  /\ Slot \in todo /\ Slot \in Slots /\ Peer \in Clients /\ Peer \in open
         /\ monitor_fd_set[Slot] = Peer /\ Peer # Free /\ Peer # Console /\ Peer # Master
         /\ ~Waiting(Peer) /\ ~HungUp(Peer) /\ client[Peer] # "start"
         /\ \A i \in Slots : monitor_fd_set[i] = Peer => i = Slot
<1>1. Slot \in todo /\ Slot \in Slots /\ Peer \in Clients /\ monitor_fd_set[Slot] = Peer
  BY SlotToVisit DEF IInv, LoopOK, TypeOK, Peer
<1>2. Peer \in open /\ Peer # Free /\ Peer # Console /\ Peer # Master
  BY <1>1, SumAssumption DEF IInv, SlotsOK
<1>3. ~Waiting(Peer)
  BY <1>2 DEF IInv, BacklogOK, TypeOK, Waiting
<1>4. ~HungUp(Peer)
  BY <1>2 DEF HungUp
<1>5. client[Peer] # "start"
  BY <1>1, <1>2 DEF IInv, ClientsOK, StartOK
<1>6. \A i \in Slots : monitor_fd_set[i] = Peer => i = Slot
  BY <1>1, <1>2 DEF IInv, SlotsOK, TypeOK, Distinct
<1>7. QED BY <1>1, <1>2, <1>3, <1>4, <1>5, <1>6

\* Its slot becomes free when the connection is closed, and no other one.
LEMMA CloseIs ==
  ASSUME IInv, pc \in {"loop", "answer"}, Close(Peer)
  PROVE  /\ Distinct(monitor_fd_set', Free)
         /\ \A x : x # Peer /\ Holds(monitor_fd_set, x) => Holds(monitor_fd_set', x)
         /\ \A i \in Slots :
              monitor_fd_set'[i] = IF i = Slot THEN Free ELSE monitor_fd_set[i]
         /\ open' = open \ {Peer}
<1> DEFINE n == MAX_CLIENTS_SUPPORT
           T == Clients \cup {Free, Console, Master}
           v == Peer
           closed == RemoveFrom(monitor_fd_set, Free, v)
<1>1. /\ n \in Nat /\ Slots = 1..n /\ monitor_fd_set \in [1..n -> T] /\ Free \in T
      /\ Distinct(monitor_fd_set, Free)
  BY SumAssumption DEF IInv, TypeOK, SlotsOK, Slots
<1>2. v # Free /\ \A i \in Slots : monitor_fd_set[i] = v <=> i = Slot
  BY AtSlot
<1>3. monitor_fd_set' = closed /\ open' = open \ {v}
  BY DEF Close
<1> HIDE DEF n, T, v
<1>4. \A i \in 1..n : closed[i] = IF monitor_fd_set[i] = v THEN Free ELSE monitor_fd_set[i]
  <2>1. Holds(monitor_fd_set, v)
    BY <1>1, <1>2, AtSlot DEF Holds
  <2>2. FirstSlot(monitor_fd_set, v) = Slot
    BY <1>1, <1>2, <2>1, FirstSlotIs
  <2>3. closed = [monitor_fd_set EXCEPT ![Slot] = Free]
    BY <2>1, <2>2 DEF RemoveFrom
  <2>4. QED BY <1>1, <1>2, <2>3
<1>5. /\ Distinct(closed, Free)
      /\ \A x : x # v /\ Holds(monitor_fd_set, x) => Holds(closed, x)
  BY <1>1, <1>2, RemoveFromSound
<1>6. QED BY <1>1, <1>2, <1>3, <1>4, <1>5 DEF v

\* A visit of one client changes nothing of the others.
LEMMA VisitLeavesOthers ==
  ASSUME IInv, pc \in {"loop", "answer"}, pc' # "ended", NEW d \in Clients, d # Peer,
         UNCHANGED <<kind, backlog, client, total>>,
         up'[d] = up[d], answer'[d] = answer[d],
         d \in merged' <=> d \in merged, d \in open' <=> d \in open,
         \A i \in Slots : i # Slot => monitor_fd_set'[i] = monitor_fd_set[i]
                                      /\ client_response'[i] = client_response[i],
         monitor_fd_set'[Slot] \in {Peer, Free}
  PROVE  StartOK(d)' /\ PairsOK(d)' /\ SumsOK(d)' /\ Told(d)'
<1>1. StartOK(d) /\ PairsOK(d) /\ SumsOK(d) /\ Told(d)
  BY DEF IInv, ClientsOK
<1>2. /\ Waiting(d)' <=> Waiting(d)
      /\ HungUp(d)' <=> HungUp(d)
      /\ \A s : Rest(d, s)' <=> Rest(d, s)
  BY DEF Waiting, HungUp, Rest, Value
<1>3. StartOK(d)' /\ Told(d)'
  BY <1>1, <1>2 DEF StartOK, Told
<1>4. PairsOK(d)'
  BY <1>1, <1>2 DEF PairsOK, Value
<1>5. SumsOK(d)'
  <2>1. d # Free
    BY SumAssumption
  <2>2. \A i \in Slots : monitor_fd_set'[i] = d
          => monitor_fd_set[i] = d /\ client_response'[i] = client_response[i]
    BY <2>1
  <2>3. Zeros(Head(up[d]))' <=> Zeros(Head(up[d]))
    BY DEF Zeros
  <2>4. QED BY <1>1, <1>2, <2>2, <2>3 DEF SumsOK
<1>6. QED BY <1>3, <1>4, <1>5

\* The loop goes on with the slots that are left.
LEMMA GoOnKeeps ==
  ASSUME IInv, pc \in {"loop", "answer"}, GoOn(todo \ {Slot}), client' = client,
         \A d \in Clients : d # Peer => up'[d] = up[d],
         \A i \in Slots : i # Slot => monitor_fd_set'[i] = monitor_fd_set[i]
  PROVE  LoopOK'
<1>1. /\ todo' = todo \ {Slot}
      /\ todo' # {} => pc' = "loop"
      /\ todo' = {} => pc' = "select"
  BY DEF GoOn
<1>2. ASSUME NEW i \in todo'
      PROVE  monitor_fd_set'[i] \in Clients /\ Readable(monitor_fd_set[i])'
             /\ monitor_fd_set'[i] = monitor_fd_set[i]
  <2>1. i \in todo /\ i # Slot /\ i \in Slots
    BY <1>1, <1>2 DEF IInv, TypeOK
  <2>2. monitor_fd_set[i] \in Clients /\ Readable(monitor_fd_set[i])
    BY <2>1 DEF IInv, LoopOK
  <2>3. monitor_fd_set[i] # Peer
    BY <2>1, AtSlot
  <2>4. QED BY <2>1, <2>2, <2>3 DEF Readable, Ended
<1>3. ASSUME NEW i \in todo'
      PROVE  Readable(monitor_fd_set[i])'
  BY <1>2 DEF Readable, Ended
<1>4. QED BY <1>1, <1>2, <1>3 DEF LoopOK

LEMMA ReadKeeps ==
  ASSUME IInv, Read
  PROVE  SlotsOK' /\ BacklogOK' /\ LoopOK' /\ ClientsOK' /\ EndOK'
<1>p. PICK p \in Clients : p = Peer
  BY AtSlot DEF Read
<1> USE <1>p
<1> DEFINE m == IF up[p] = <<>> THEN EndOfStream ELSE Head(up[p])
<1>1. /\ pc = "loop" /\ up' = [up EXCEPT ![p] = <<>>]
      /\ merged' = IF Len(up[p]) > 1 THEN merged \cup {p} ELSE merged
      /\ UNCHANGED <<kind, ended, backlog, client, total>>
  BY DEF Read
<1>2. /\ Slot \in todo /\ Slot \in Slots /\ p \in Clients /\ p \in open
      /\ monitor_fd_set[Slot] = p /\ p # Free
      /\ ~Waiting(p) /\ ~HungUp(p) /\ client[p] # "start"
      /\ \A i \in Slots : monitor_fd_set[i] = p => i = Slot
  BY <1>1, AtSlot
<1>3. /\ up'[p] = <<>> /\ \A d \in Clients : d # p => up'[d] = up[d]
      /\ \A d \in Clients : d # p => (d \in merged' <=> d \in merged)
      /\ p \notin merged' => Len(up[p]) \in {0, 1} /\ p \notin merged
      /\ up[p] \in Seq(Messages) /\ Len(up[p]) \in Nat
      /\ up[p] # <<>> => Len(up[p]) # 0 /\ m = up[p][1] /\ m = Head(up[p])
      /\ up[p] = <<>> => Len(up[p]) = 0 /\ m = EndOfStream
      /\ m \in Messages /\ Value(m) \in Int /\ (Zeros(m) => Value(m) = 0)
  <2>1. up[p] \in Seq(Messages) /\ Len(up[p]) \in Nat
    BY <1>2 DEF IInv, TypeOK
  <2>2. up[p] # <<>> => Len(up[p]) # 0 /\ Head(up[p]) = up[p][1] /\ Head(up[p]) \in Messages
    BY <2>1
  <2>3. m \in Messages
    BY <2>2, MessageFacts DEF IInv
  <2>4. Value(m) \in Int /\ (Zeros(m) => Value(m) = 0)
    BY <2>3, MessageFacts DEF IInv
  <2>5. up'[p] = <<>> /\ \A d \in Clients : d # p => up'[d] = up[d]
    BY <1>1, <1>2 DEF IInv, TypeOK
  <2>6. p \notin merged' => Len(up[p]) \in {0, 1} /\ p \notin merged
    <3>1. p \notin merged' => ~(Len(up[p]) > 1) /\ p \notin merged
      BY <1>1
    <3>2. \A n \in Nat : ~(n > 1) => n \in {0, 1}
      OBVIOUS
    <3>3. QED BY <2>1, <3>1, <3>2
  <2>7. QED BY <1>1, <2>1, <2>2, <2>3, <2>4, <2>5, <2>6
<1>4. StartOK(p) /\ PairsOK(p) /\ SumsOK(p) /\ Told(p) /\ (kind # "pairs" /\ p \notin merged
         => Rest(p, client_response[Slot]))
  BY <1>2 DEF IInv, ClientsOK, SumsOK
<1>5. Readable(p)
  BY <1>1, <1>2 DEF IInv, LoopOK
<1>6. Zeros(m) => client[p] # "typing"
  <2>1. CASE up[p] = <<>>
    BY <1>5, <2>1 DEF Readable, Ended
  <2>2. CASE up[p] # <<>> /\ kind = "pairs"
    BY <1>2, <1>4, <2>2 DEF PairsOK
  <2>3. CASE up[p] # <<>> /\ kind # "pairs"
    BY <1>4, <2>3 DEF SumsOK
  <2>4. QED BY <2>1, <2>2, <2>3
<1>7. pc' \in {"select", "loop", "answer"}
  BY <1>1 DEF Read, GoOn
<1>8. EndOK'
  <2>1. ended = "no"
    BY <1>1 DEF IInv, EndOK
  <2>2. QED BY <1>1, <1>7, <2>1 DEF EndOK, ServerEndHasACause
<1>9. ASSUME /\ \A i \in Slots : i # Slot => monitor_fd_set'[i] = monitor_fd_set[i]
                                             /\ client_response'[i] = client_response[i]
             /\ monitor_fd_set'[Slot] \in {p, Free}
             /\ \A d \in Clients : d # p => (d \in open' <=> d \in open)
                                            /\ answer'[d] = answer[d]
             /\ StartOK(p)' /\ PairsOK(p)' /\ SumsOK(p)' /\ Told(p)'
      PROVE  ClientsOK'
  <2>1. ASSUME NEW d \in Clients, d # p
        PROVE  StartOK(d)' /\ PairsOK(d)' /\ SumsOK(d)' /\ Told(d)'
    BY <1>1, <1>3, <1>7, <1>9, <2>1, VisitLeavesOthers
  <2>2. QED BY <1>9, <2>1 DEF ClientsOK
<1>10. Waiting(p)' <=> Waiting(p)
  BY <1>1 DEF Waiting
\* The end of a TCP connection.
<1>11. CASE kind = "pairs" /\ Asks(m)
  <2>1. /\ Close(p) /\ GoOn({})
        /\ UNCHANGED <<client_response, answer>>
    BY <1>11 DEF Read
  <2>2. /\ Distinct(monitor_fd_set', Free)
        /\ \A x : x # p /\ Holds(monitor_fd_set, x) => Holds(monitor_fd_set', x)
        /\ \A i \in Slots : monitor_fd_set'[i] = IF i = Slot THEN Free ELSE monitor_fd_set[i]
        /\ open' = open \ {p}
    BY <1>1, <2>1, CloseIs
  <2>3. p # Console /\ p # Master
    BY <1>2, SumAssumption
  <2>4. SlotsOK'
    BY <1>1, <1>2, <1>11, <2>1, <2>2, <2>3, SumAssumption DEF IInv, SlotsOK
  <2>5. BacklogOK'
    BY <1>1, <2>2 DEF IInv, BacklogOK
  <2>6. LoopOK'
    BY <2>1 DEF GoOn, LoopOK
  <2>7. StartOK(p)' /\ PairsOK(p)' /\ SumsOK(p)' /\ Told(p)'
    <3>1. StartOK(p)'
      BY <1>1, <1>2 DEF StartOK
    <3>2. Told(p)'
      BY <1>1, <1>3, <1>4, <2>1 DEF Told
    <3>3. PairsOK(p)'
      BY <1>3 , <1>2, <1>10, <2>2, <2>1 DEF PairsOK, HungUp, GoOn
    <3>4. SumsOK(p)'
      BY <1>1, <1>11 DEF SumsOK
    <3>5. QED BY <3>1, <3>2, <3>3, <3>4
  <2>8. ClientsOK'
    BY <1>2, <1>9, <2>1, <2>2, <2>7
  <2>9. QED BY <1>8, <2>4, <2>5, <2>6, <2>8
\* A pair is answered.
<1>12. CASE kind = "pairs" /\ ~Asks(m)
  <2>1. /\ answer' = [answer EXCEPT ![p] = Value(m)]
        /\ GoOn(todo \ {Slot})
        /\ UNCHANGED <<client_response, monitor_fd_set, open>>
    BY <1>12 DEF Read
  <2>2. up[p] # <<>>
    BY <1>3, <1>12, MessageFacts DEF IInv, Asks
  <2>3. client[p] # "typing"
    BY <1>2, <1>4, <1>12, <2>2 DEF PairsOK
  <2>4. SlotsOK' /\ BacklogOK'
    BY <1>1, <2>1 DEF IInv, SlotsOK, BacklogOK, Holds
  <2>5. LoopOK'
    BY <1>1, <1>3, <2>1, GoOnKeeps
  <2>6. answer'[p] = Value(m) /\ \A d \in Clients : d # p => answer'[d] = answer[d]
    BY <1>2, <2>1 DEF IInv, TypeOK
  <2>7. StartOK(p)' /\ PairsOK(p)' /\ SumsOK(p)' /\ Told(p)'
    <3>1. StartOK(p)'
      BY <1>1, <1>2 DEF StartOK
    <3>2. Told(p)'
      <4>1. p \notin merged' => Len(up[p]) = 1
        BY <1>3, <2>2
      <4>2. Len(up[p]) = 1 => total[p] = Value(up[p][1])
        BY <1>4, <1>12 DEF PairsOK
      <4>3. m = up[p][1]
        BY <1>3, <2>2
      <4>4. p \notin merged' => total'[p] = answer'[p]
        BY <1>1, <2>6, <4>1, <4>2, <4>3
      <4>5. QED BY <4>4 DEF Told
    <3>3. PairsOK(p)'
      BY <1>1, <1>3, <2>3 DEF PairsOK
    <3>4. SumsOK(p)'
      BY <1>1, <1>12 DEF SumsOK
    <3>5. QED BY <3>1, <3>2, <3>3, <3>4
  <2>8. ClientsOK'
    BY <1>2, <1>9, <2>1, <2>6, <2>7
  <2>9. QED BY <1>8, <2>4, <2>5, <2>8
\* A request for the sum, which the next step answers.
<1>13. CASE kind # "pairs" /\ Asks(m)
  <2>1. pc' = "answer"
        /\ UNCHANGED <<client_response, todo, monitor_fd_set, open, answer>>
    BY <1>13 DEF Read
  <2>2. SlotsOK' /\ BacklogOK'
    BY <1>1, <2>1 DEF IInv, SlotsOK, BacklogOK, Holds
  <2>3. LoopOK'
    <3>1. Slot' = Slot /\ Peer' = p
      BY <2>1 DEF Slot, Peer
    <3>2. ASSUME NEW i \in todo, i # Slot
          PROVE  Readable(monitor_fd_set[i])'
      <4>1. i \in Slots /\ monitor_fd_set[i] \in Clients /\ Readable(monitor_fd_set[i])
        BY <1>1, <3>2 DEF IInv, LoopOK, TypeOK
      <4>2. monitor_fd_set[i] # p
        BY <1>2, <3>2, <4>1
      <4>3. QED BY <1>1, <1>3, <2>1, <4>1, <4>2 DEF Readable, Ended
    <3>3. up'[p] = <<>> /\ client'[p] # "typing"
      BY <1>1, <1>3, <1>6, <1>13 DEF Asks
    <3>4. QED BY <1>1, <1>13, <2>1, <3>1, <3>2, <3>3 DEF IInv, LoopOK
  <2>4. StartOK(p)' /\ PairsOK(p)' /\ SumsOK(p)' /\ Told(p)'
    <3>1. StartOK(p)'
      BY <1>1, <1>2 DEF StartOK
    <3>2. Told(p)'
      BY <1>1, <1>3, <1>4, <2>1 DEF Told
    <3>3. PairsOK(p)'
      BY <1>1, <1>13 DEF PairsOK
    <3>4. p \notin merged' => total[p] = client_response[Slot]
      <4>1. client_response[Slot] \in Int
        BY <1>2 DEF IInv, TypeOK
      <4>2. Value(m) = 0
        BY <1>3, <1>13 DEF Asks
      <4>3. p \notin merged' => Rest(p, client_response[Slot])
        BY <1>3, <1>4, <1>13
      <4>4. p \notin merged' =>
              \/ Len(up[p]) = 0
              \/ Len(up[p]) = 1 /\ Value(up[p][1]) = 0
        <5>1. up[p] # <<>> => Value(up[p][1]) = 0
          BY <1>3, <4>2
        <5>2. p \notin merged' => Len(up[p]) = 0 \/ (Len(up[p]) = 1 /\ up[p] # <<>>)
          BY <1>3
        <5>3. QED BY <5>1, <5>2
      <4>5. QED BY <4>1, <4>3, <4>4 DEF Rest
    <3>5. SumsOK(p)'
      <4>1. ~HungUp(p)' /\ ~Waiting(p)'
        BY <1>2, <1>10, <2>1 DEF HungUp
      <4>2. \A i \in Slots : monitor_fd_set'[i] = p => i = Slot
        BY <1>2, <2>1
      <4>3. p \notin merged' =>
              \A i \in Slots : monitor_fd_set'[i] = p => Rest(p, client_response[i])'
        BY <1>1, <1>3, <2>1, <3>4, <4>2 DEF Rest
      <4>4. QED BY <1>1, <1>2, <1>3, <1>4, <1>13, <2>1, <4>1, <4>3 DEF SumsOK
    <3>6. QED BY <3>1, <3>2, <3>3, <3>5
  <2>5. ClientsOK'
    BY <1>2, <1>9, <2>1, <2>4
  <2>6. QED BY <1>8, <2>2, <2>3, <2>5
\* An addend.
<1>14. CASE kind # "pairs" /\ ~Asks(m)
  <2>1. /\ client_response' = [client_response EXCEPT ![Slot] = @ + Value(m)]
        /\ GoOn(todo \ {Slot})
        /\ UNCHANGED <<monitor_fd_set, open, answer>>
    BY <1>14 DEF Read, Added
  <2>2. up[p] # <<>>
    BY <1>3, <1>14, MessageFacts DEF IInv, Asks
  <2>3. /\ client_response'[Slot] = client_response[Slot] + Value(m)
        /\ \A i \in Slots : i # Slot => client_response'[i] = client_response[i]
    BY <1>2, <2>1 DEF IInv, TypeOK
  <2>4. SlotsOK' /\ BacklogOK'
    BY <1>1, <1>2, <1>14, <2>1, <2>3 DEF IInv, SlotsOK, BacklogOK, Holds
  <2>5. LoopOK'
    BY <1>1, <1>3, <2>1, GoOnKeeps
  <2>6. StartOK(p)' /\ PairsOK(p)' /\ SumsOK(p)' /\ Told(p)'
    <3>1. StartOK(p)'
      BY <1>1, <1>2 DEF StartOK
    <3>2. Told(p)'
      BY <1>1, <1>3, <1>4, <2>1 DEF Told
    <3>3. PairsOK(p)'
      BY <1>1, <1>14 DEF PairsOK
    <3>4. p \notin merged' => total[p] = client_response'[Slot]
      <4>1. p \notin merged' => Rest(p, client_response[Slot]) /\ Len(up[p]) = 1
        BY <1>3, <1>4, <1>14, <2>2
      <4>2. m = up[p][1]
        BY <1>3, <2>2
      <4>3. p \notin merged' => total[p] = client_response[Slot] + Value(m)
        BY <4>1, <4>2 DEF Rest
      <4>4. QED BY <2>3, <4>3
    <3>5. SumsOK(p)'
      <4>1. ~HungUp(p)' /\ ~Waiting(p)'
        BY <1>2, <1>7, <1>10, <2>1 DEF HungUp
      <4>2. p \notin merged' =>
              \A i \in Slots : monitor_fd_set'[i] = p => Rest(p, client_response[i])'
        BY <1>1, <1>2, <1>3, <2>1, <3>4 DEF Rest
      <4>3. QED BY <1>1, <1>2, <1>3, <1>4, <1>14, <2>1, <4>1, <4>2 DEF SumsOK
    <3>6. QED BY <3>1, <3>2, <3>3, <3>5
  <2>7. ClientsOK'
    BY <1>2, <1>9, <2>1, <2>3, <2>6
  <2>8. QED BY <1>8, <2>4, <2>5, <2>7
<1>15. QED BY <1>11, <1>12, <1>13, <1>14

LEMMA AnswerKeeps ==
  ASSUME IInv, Answer
  PROVE  SlotsOK' /\ BacklogOK' /\ LoopOK' /\ ClientsOK' /\ EndOK'
<1>1. PICK p \in Clients : p = Peer
  BY AtSlot DEF Answer
<1> USE <1>1
<1>2. /\ pc = "answer" /\ ~Ended(p) /\ Close(p) /\ GoOn(todo \ {Slot})
      /\ answer' = [answer EXCEPT ![p] = client_response[Slot]]
      /\ client_response' = [client_response EXCEPT ![Slot] = 0]
      /\ UNCHANGED <<kind, ended, backlog, up, client, total, merged>>
  BY DEF Answer, history
<1>3. /\ Slot \in Slots /\ p \in open /\ monitor_fd_set[Slot] = p
      /\ p # Free /\ p # Console /\ p # Master
      /\ ~Waiting(p) /\ client[p] # "start"
      /\ \A i \in Slots : monitor_fd_set[i] = p => i = Slot
  BY <1>2, AtSlot
<1>4. kind # "pairs" /\ up[p] = <<>>
  BY <1>2 DEF IInv, LoopOK
<1>5. /\ Distinct(monitor_fd_set', Free)
      /\ \A x : x # p /\ Holds(monitor_fd_set, x) => Holds(monitor_fd_set', x)
      /\ \A i \in Slots : monitor_fd_set'[i] = IF i = Slot THEN Free ELSE monitor_fd_set[i]
      /\ open' = open \ {p}
  BY <1>2, CloseIs
<1>6. /\ client_response'[Slot] = 0 /\ answer'[p] = client_response[Slot]
      /\ \A i \in Slots : i # Slot => client_response'[i] = client_response[i]
      /\ \A d \in Clients : d # p => answer'[d] = answer[d]
  BY <1>2, <1>3 DEF IInv, TypeOK
<1>7. pc' \in {"select", "loop"}
  BY <1>2 DEF GoOn
<1>8. SlotsOK'
  BY <1>2, <1>3, <1>4, <1>5, <1>6, SumAssumption DEF IInv, SlotsOK
<1>9. BacklogOK'
  BY <1>2, <1>5 DEF IInv, BacklogOK
<1>10. LoopOK'
  BY <1>2, <1>5, GoOnKeeps
<1>11. EndOK'
  BY <1>2, <1>7 DEF IInv, EndOK, ServerEndHasACause
<1>12. StartOK(p)' /\ PairsOK(p)' /\ SumsOK(p)' /\ Told(p)'
  <2>1. StartOK(p)' /\ PairsOK(p)'
    BY <1>2, <1>3, <1>4 DEF StartOK, PairsOK
  <2>2. Told(p)'
    <3>1. p \notin merged => total[p] = client_response[Slot]
      <4>1. p \notin merged => Rest(p, client_response[Slot])
        BY <1>3, <1>4 DEF IInv, ClientsOK, SumsOK
      <4>2. QED BY <1>4, <4>1 DEF Rest
    <3>2. QED BY <1>2, <1>6, <3>1 DEF Told
  <2>3. SumsOK(p)'
    <3>1. ~Waiting(p)'
      BY <1>2, <1>3 DEF Waiting
    <3>2. HungUp(p)' /\ p \notin open'
      BY <1>5, <3>1 DEF HungUp
    <3>3. \A i \in Slots : monitor_fd_set'[i] # p
      BY <1>3, <1>5
    <3>4. QED BY <1>2, <1>4, <3>1, <3>2, <3>3 DEF SumsOK
  <2>4. QED BY <2>1, <2>2, <2>3
<1>13. ClientsOK'
  <2>1. ASSUME NEW d \in Clients, d # p
        PROVE  StartOK(d)' /\ PairsOK(d)' /\ SumsOK(d)' /\ Told(d)'
    BY <1>2, <1>3, <1>5, <1>6, <1>7, <2>1, VisitLeavesOthers
  <2>2. QED BY <1>12, <2>1 DEF ClientsOK
<1>14. QED BY <1>8, <1>9, <1>10, <1>11, <1>13

\* SIGPIPE strikes at a client that was interrupted: one that has ended otherwise was
\* answered and its connection closed.
LEMMA AnswerKillsKeeps ==
  ASSUME IInv, AnswerKills
  PROVE  SlotsOK' /\ BacklogOK' /\ LoopOK' /\ ClientsOK' /\ EndOK'
<1>1. CASE Ended(Peer) /\ Die("pipe")
  <2>1. SlotsOK' /\ BacklogOK' /\ LoopOK' /\ ClientsOK' /\ pc' = "ended" /\ ended' = "pipe"
    BY <1>1, DieKeeps
  <2>2. /\ Peer \in Clients /\ ~HungUp(Peer) /\ kind # "pairs"
    BY AtSlot DEF AnswerKills, IInv, LoopOK
  <2>3. client[Peer] = "gone"
    BY <1>1, <2>2 DEF IInv, ClientsOK, SumsOK, Ended
  <2>4. QED BY <1>1, <2>1, <2>2, <2>3 DEF EndOK, ServerEndHasACause, Die
<1>2. CASE Die("format")
  BY <1>2, DieKeeps DEF EndOK, ServerEndHasACause
<1>3. QED BY <1>1, <1>2 DEF AnswerKills

\* Nothing at all happens.
LEMMA StutterKeeps ==
  ASSUME IInv, UNCHANGED vars
  PROVE  SlotsOK' /\ BacklogOK' /\ LoopOK' /\ ClientsOK' /\ EndOK'
<1> USE DEF vars, server, history
<1>1. SlotsOK' /\ BacklogOK'
  BY DEF IInv, SlotsOK, BacklogOK, Holds
<1>2. LoopOK'
  BY DEF IInv, LoopOK, Readable, Ended, Slot, Peer
<1>3. ClientsOK'
  BY DEF IInv, ClientsOK, StartOK, PairsOK, SumsOK, Told, Waiting, HungUp, Rest, Value, Zeros
<1>4. EndOK'
  BY DEF IInv, EndOK, ServerEndHasACause, Holds
<1>5. QED BY <1>1, <1>2, <1>3, <1>4

\* The strengthened invariant is inductive.
THEOREM Invariance == Spec => []IInv
<1>1. Init => IInv
  BY InitHolds
<1>2. IInv /\ [Next]_vars => IInv'
  <2> SUFFICES ASSUME IInv, [Next]_vars PROVE IInv'
    OBVIOUS
  <2>1. TypeOK'
    BY TypeStep DEF IInv
  <2>2. ASSUME NEW c \in Clients,
               \/ Connect(c) \/ Receive(c) \/ Interrupt(c) \/ \E m \in Messages : Send(c, m)
        PROVE  SlotsOK' /\ BacklogOK' /\ LoopOK' /\ ClientsOK' /\ EndOK'
    <3>1. SlotsOK' /\ LoopOK' /\ EndOK'
      BY <2>2, ClientsStep, ClientsLeaveServer DEF IInv
    <3>2. BacklogOK' /\ ClientsOK'
      BY <2>2, ConnectKeeps, ReceiveKeeps, InterruptKeeps, SendKeeps
    <3>3. QED BY <3>1, <3>2
  <2>3. CASE Accept
    BY <2>1, <2>3, AcceptKeeps DEF IInv
  <2>4. CASE Select
    BY <2>1, <2>4, SelectKeeps DEF IInv
  <2>5. CASE Read
    BY <2>1, <2>5, ReadKeeps DEF IInv
  <2>6. CASE Answer
    BY <2>1, <2>6, AnswerKeeps DEF IInv
  <2>7. CASE AnswerKills
    BY <2>1, <2>7, AnswerKillsKeeps DEF IInv
  <2>8. CASE UNCHANGED vars
    BY <2>1, <2>8, StutterKeeps DEF IInv
  <2>9. QED BY <2>1, <2>2, <2>3, <2>4, <2>5, <2>6, <2>7, <2>8 DEF IInv, Next
<1>3. QED BY <1>1, <1>2, PTL DEF Spec

\* Every variable keeps its type (common.c's arrays and the streams of the sum servers).
THEOREM TypeCorrect == Spec => []TypeOK
<1>1. IInv => TypeOK
  BY DEF IInv
<1>2. QED BY <1>1, Invariance, PTL

\* A client is told the sum of its own numbers unless two of its messages were read as one
\* (server_mplexing.c:171-188, server.c, TCP_server.c), for any clients, slots and numbers.
THEOREM AnswersAreSums == Spec => []AnswerIsSum
<1>1. IInv => AnswerIsSum
  BY DEF IInv, ClientsOK, Told, AnswerIsSum
<1>2. QED BY <1>1, Invariance, PTL

\* A server dies of SIGPIPE only after an interrupt and of accept only when a client was
\* turned away from a full array, which never gives its descriptor back.
THEOREM EndsHaveACause == Spec => []ServerEndHasACause
<1>1. IInv => ServerEndHasACause
  BY DEF IInv, EndOK
<1>2. QED BY <1>1, Invariance, PTL
=============================================================================
