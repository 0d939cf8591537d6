---------------------------- MODULE RtSync_proofs ----------------------------
(***************************************************************************)
(* Safety of RtSync for any clients, slots, requests and bounds.           *)
(***************************************************************************)
EXTENDS RtSync, SequenceTheorems, FiniteSetTheorems, WellFoundedInduction, TLAPS

-----------------------------------------------------------------------------
(* Slot arrays (FdSet): what the loops over one do to its type, its slots  *)
(* and the absence of duplicates, for arrays of any length.                *)
\* Every non-empty set of natural numbers has a least element.
LEMMA Least ==
  ASSUME NEW S \in SUBSET Nat, S # {}
  PROVE  \E n \in S : \A m \in S : n <= m
<1> DEFINE Less == OpToRel(<, Nat)
<1>1. \A x, y \in Nat : y < x => <<y, x>> \in Less
  BY DEF OpToRel
<1>2. IsWellFoundedOn(Less, Nat)
  BY NatLessThanWellFounded, Zenon
<1> HIDE DEF Less
<1>3. PICK x \in S : \A y \in S : ~ (<<y, x>> \in Less)
  BY <1>2, WFMin
<1>4. \A y \in S : ~ (y < x)
  BY <1>1, <1>3
<1>5. QED BY <1>4

\* The loop that looks for v stops at a slot that holds it.
LEMMA FirstSlotIs ==
  ASSUME NEW n \in Nat, NEW set, DOMAIN set = 1..n, NEW v, Holds(set, v)
  PROVE  FirstSlot(set, v) \in 1..n /\ set[FirstSlot(set, v)] = v
<1> DEFINE I == {i \in 1..n : set[i] = v}
<1>1. I \in SUBSET Nat /\ I # {}
  BY DEF Holds
<1>2. PICK i \in I : \A j \in I : i <= j
  BY <1>1, Least
<1>3. i \in 1..n /\ set[i] = v /\ \A j \in 1..n : j < i => set[j] # v
  BY <1>2
<1>4. QED BY <1>3 DEF FirstSlot

\* One slot that was free takes v, if one was free.
LEMMA AddToIs ==
  ASSUME NEW n \in Nat, NEW T, NEW set \in [1..n -> T], NEW free, NEW v \in T
  PROVE  /\ AddTo(set, free, v) \in [1..n -> T]
         /\ \/ AddTo(set, free, v) = set
            \/ \E k \in 1..n : set[k] = free /\ AddTo(set, free, v) = [set EXCEPT ![k] = v]
<1> DEFINE k == FirstSlot(set, free)
<1>1. CASE Holds(set, free)
  <2>1. k \in 1..n /\ set[k] = free
    BY <1>1, FirstSlotIs
  <2> HIDE DEF k
  <2>2. AddTo(set, free, v) = [set EXCEPT ![k] = v]
    BY <1>1 DEF AddTo, k
  <2>3. QED BY <2>1, <2>2
<1>2. CASE ~ Holds(set, free)
  BY <1>2 DEF AddTo
<1>3. QED BY <1>1, <1>2

\* If a slot was free, v is in the array.
LEMMA AddToHolds ==
  ASSUME NEW n \in Nat, NEW T, NEW set \in [1..n -> T], NEW free, NEW v \in T,
         Holds(set, free)
  PROVE  Holds(AddTo(set, free, v), v)
<1> DEFINE k == FirstSlot(set, free)
<1>1. k \in 1..n
  BY FirstSlotIs
<1> HIDE DEF k
<1>2. AddTo(set, free, v) = [set EXCEPT ![k] = v]
  BY DEF AddTo, k
<1>3. QED BY <1>1, <1>2 DEF Holds

\* The array stays without duplicates when v is not in it, and loses nothing.
LEMMA AddToSound ==
  ASSUME NEW n \in Nat, NEW T, NEW set \in [1..n -> T], NEW free, NEW v \in T,
         Distinct(set, free), ~ Holds(set, v)
  PROVE  /\ Distinct(AddTo(set, free, v), free)
         /\ \A x : x # free /\ Holds(set, x) => Holds(AddTo(set, free, v), x)
         /\ \A i \in 1..n : AddTo(set, free, v)[i] \in {set[i], v}
<1>1. CASE AddTo(set, free, v) = set
  BY <1>1
<1>2. ASSUME NEW k \in 1..n, set[k] = free, AddTo(set, free, v) = [set EXCEPT ![k] = v]
      PROVE  /\ Distinct(AddTo(set, free, v), free)
             /\ \A x : x # free /\ Holds(set, x) => Holds(AddTo(set, free, v), x)
             /\ \A i \in 1..n : AddTo(set, free, v)[i] \in {set[i], v}
  <2> DEFINE r == [set EXCEPT ![k] = v]
  <2>1. \A i \in 1..n : r[i] = IF i = k THEN v ELSE set[i]
    OBVIOUS
  <2>2. DOMAIN r = 1..n /\ DOMAIN set = 1..n
    OBVIOUS
  <2> HIDE DEF r
  <2>3. Distinct(r, free)
    BY <2>1, <2>2 DEF Distinct, Holds
  <2>4. ASSUME NEW x, x # free, Holds(set, x) PROVE Holds(r, x)
    BY <2>1, <2>2, <2>4, <1>2 DEF Holds
  <2>5. QED BY <1>2, <2>1, <2>3, <2>4 DEF r
<1>3. \/ AddTo(set, free, v) = set
      \/ \E k \in 1..n : set[k] = free /\ AddTo(set, free, v) = [set EXCEPT ![k] = v]
  BY AddToIs
<1>4. QED BY <1>1, <1>2, <1>3

\* Without duplicates, the slot that held v becomes free and no other changes.
LEMMA RemoveFromIs ==
  ASSUME NEW n \in Nat, NEW T, NEW set \in [1..n -> T], NEW free \in T, NEW v
  PROVE  /\ RemoveFrom(set, free, v) \in [1..n -> T]
         /\ Distinct(set, free) /\ v # free =>
              \A i \in 1..n :
                RemoveFrom(set, free, v)[i] = IF set[i] = v THEN free ELSE set[i]
<1> DEFINE k == FirstSlot(set, v)
<1>1. CASE Holds(set, v)
  <2>1. k \in 1..n /\ set[k] = v
    BY <1>1, FirstSlotIs
  <2> HIDE DEF k
  <2>2. RemoveFrom(set, free, v) = [set EXCEPT ![k] = free]
    BY <1>1 DEF RemoveFrom, k
  <2>3. QED BY <2>1, <2>2 DEF Distinct
<1>2. CASE ~ Holds(set, v)
  BY <1>2 DEF RemoveFrom, Holds
<1>3. QED BY <1>1, <1>2

LEMMA RemoveFromSound ==
  ASSUME NEW n \in Nat, NEW T, NEW set \in [1..n -> T], NEW free \in T, NEW v,
         Distinct(set, free), v # free
  PROVE  /\ Distinct(RemoveFrom(set, free, v), free)
         /\ \A x : x # v /\ Holds(set, x) => Holds(RemoveFrom(set, free, v), x)
<1> DEFINE r == RemoveFrom(set, free, v)
<1>1. /\ DOMAIN r = 1..n /\ DOMAIN set = 1..n
      /\ \A i \in 1..n : r[i] = IF set[i] = v THEN free ELSE set[i]
  BY RemoveFromIs
<1> HIDE DEF r
<1>2. Distinct(r, free)
  BY <1>1 DEF Distinct
<1>3. \A x : x # v /\ Holds(set, x) => Holds(r, x)
  BY <1>1 DEF Holds
<1>4. QED BY <1>2, <1>3 DEF r

\* The value is in no slot after it: it was in one at most.
LEMMA RemoveFromGone ==
  ASSUME NEW n \in Nat, NEW T, NEW set \in [1..n -> T], NEW free \in T, NEW v,
         Distinct(set, free), v # free
  PROVE  ~ Holds(RemoveFrom(set, free, v), v)
<1> DEFINE r == RemoveFrom(set, free, v)
<1>1. /\ DOMAIN r = 1..n
      /\ \A i \in 1..n : r[i] = IF set[i] = v THEN free ELSE set[i]
  BY RemoveFromIs
<1> HIDE DEF r
<1>2. ~ Holds(r, v)
  BY <1>1 DEF Holds
<1>3. QED BY <1>2 DEF r

LEMMA RemoveFromFrees ==
  ASSUME NEW n \in Nat, NEW T, NEW set \in [1..n -> T], NEW free \in T, NEW v,
         Distinct(set, free), v # free
  PROVE  \A i \in 1..n : RemoveFrom(set, free, v)[i] \in {set[i], free}
<1> DEFINE r == RemoveFrom(set, free, v)
<1>1. /\ DOMAIN r = 1..n /\ DOMAIN set = 1..n
      /\ \A i \in 1..n : r[i] = IF set[i] = v THEN free ELSE set[i]
  BY RemoveFromIs
<1> HIDE DEF r
<1>2. \A i \in 1..n : r[i] \in {set[i], free}
  BY <1>1
<1>3. QED BY <1>2 DEF r

LEMMA RemoveFromKeeps ==
  ASSUME NEW n \in Nat, NEW set, DOMAIN set = 1..n, NEW free, NEW v,
         NEW j \in 1..n, set[j] # v
  PROVE  RemoveFrom(set, free, v)[j] = set[j]
<1>1. CASE Holds(set, v)
  <2> DEFINE k == FirstSlot(set, v)
  <2>1. k \in 1..n /\ set[k] = v
    BY <1>1, FirstSlotIs
  <2> HIDE DEF k
  <2>2. RemoveFrom(set, free, v) = [set EXCEPT ![k] = free]
    BY <1>1 DEF RemoveFrom, k
  <2>3. QED BY <2>1, <2>2
<1>2. CASE ~ Holds(set, v)
  BY <1>2 DEF RemoveFrom
<1>3. QED BY <1>1, <1>2
-----------------------------------------------------------------------------
(* The list operations of common.c and common_mac.c and the types of the   *)
(* tables.                                                                 *)
\* The index SelectInSeq finds is one of an element that passes the test.
LEMMA MinOf ==
  ASSUME NEW S \in SUBSET Nat, S # {}
  PROVE  Min(S) \in S
<1>1. PICK n \in S : \A m \in S : n <= m
  BY Least
<1>2. QED BY <1>1 DEF Min

LEMMA RemoveAtType ==
  ASSUME NEW T, NEW s \in Seq(T), NEW i \in 1..Len(s)
  PROVE  /\ RemoveAt(s, i) \in Seq(T)
         /\ \A j \in 1..Len(RemoveAt(s, i)) :
              \E k \in 1..Len(s) : RemoveAt(s, i)[j] = s[k]
<1> DEFINE a == SubSeq(s, 1, i - 1)
           b == SubSeq(s, i + 1, Len(s))
<1>1. /\ a \in Seq(T) /\ Len(a) = i - 1
      /\ \A j \in 1..(i - 1) : a[j] = s[j]
  BY SubSeqProperties
<1>2. /\ b \in Seq(T) /\ Len(b) = Len(s) - i
      /\ \A j \in 1..(Len(s) - i) : b[j] = s[i + j]
  BY SubSeqProperties
<1>3. RemoveAt(s, i) = a \o b
  BY DEF RemoveAt
<1> HIDE DEF a, b
<1>4. Len(s) \in Nat
  BY LenProperties
<1>5. /\ a \o b \in Seq(T) /\ Len(a \o b) = Len(a) + Len(b)
      /\ \A j \in 1..(Len(a) + Len(b)) :
           (a \o b)[j] = IF j <= Len(a) THEN a[j] ELSE b[j - Len(a)]
  BY <1>1, <1>2, ConcatProperties
<1>6. ASSUME NEW j \in 1..(Len(s) - 1)
      PROVE  (a \o b)[j] = IF j <= i - 1 THEN s[j] ELSE s[j + 1]
  BY <1>1, <1>2, <1>4, <1>5
<1>7. ASSUME NEW j \in 1..(Len(s) - 1)
      PROVE  \E k \in 1..Len(s) : (a \o b)[j] = s[k]
  <2>1. CASE j <= i - 1
    <3>1. j \in 1..Len(s)
      BY <1>4
    <3>2. (a \o b)[j] = s[j]
      BY <1>6, <2>1
    <3>3. QED BY <3>1, <3>2
  <2>2. CASE ~ (j <= i - 1)
    <3>1. j + 1 \in 1..Len(s)
      BY <1>4
    <3>2. (a \o b)[j] = s[j + 1]
      BY <1>6, <2>2
    <3>3. QED BY <3>1, <3>2
  <2>3. QED BY <2>1, <2>2
<1>8. Len(a \o b) = Len(s) - 1
  BY <1>1, <1>2, <1>4, <1>5
<1>9. QED BY <1>3, <1>5, <1>7, <1>8

\* remove_node_list and remove_node_list_mac keep a list a list, of elements it had.
LEMMA RemoveRouteType ==
  ASSUME NEW s \in Seq(Routes), NEW e \in Routes
  PROVE  remove_node_list(s, e) \in Seq(Routes)
<1> DEFINE I == {i \in 1..Len(s) : s[i].key = e.key}
<1>1. Len(s) \in Nat
  BY LenProperties
<1>2. I # {} => Min(I) \in 1..Len(s)
  <2>1. I \in SUBSET Nat /\ I \subseteq 1..Len(s)
    BY <1>1
  <2> HIDE DEF I
  <2>2. QED BY <2>1, MinOf
<1>3. I # {} => RemoveAt(s, Min(I)) \in Seq(Routes)
  BY <1>2, RemoveAtType
<1>4. QED BY <1>3 DEF remove_node_list, RemoveFirstMatch, SelectInSeq

LEMMA RemoveMacType ==
  ASSUME NEW s \in Seq(Macs), NEW m \in Macs
  PROVE  /\ remove_node_list_mac(s, m) \in Seq(Macs)
         /\ \A j \in 1..Len(remove_node_list_mac(s, m)) :
              \E k \in 1..Len(s) : remove_node_list_mac(s, m)[j] = s[k]
<1> DEFINE I == {i \in 1..Len(s) : s[i] = m}
<1>1. Len(s) \in Nat
  BY LenProperties
<1>2. I # {} => Min(I) \in 1..Len(s)
  <2>1. I \in SUBSET Nat /\ I \subseteq 1..Len(s)
    BY <1>1
  <2> HIDE DEF I
  <2>2. QED BY <2>1, MinOf
<1>3. remove_node_list_mac(s, m) = IF I # {} THEN RemoveAt(s, Min(I)) ELSE s
  BY DEF remove_node_list_mac, RemoveFirstMatch, SelectInSeq
<1>4. CASE I # {}
  <2> DEFINE n == Min(I)
             r == RemoveAt(s, n)
  <2>1. n \in 1..Len(s)
    BY <1>2, <1>4
  <2> HIDE DEF n, I
  <2>2. r \in Seq(Macs) /\ \A j \in 1..Len(r) : \E k \in 1..Len(s) : r[j] = s[k]
    BY <2>1, RemoveAtType
  <2>3. r = remove_node_list_mac(s, m)
    BY <1>3, <1>4 DEF n
  <2> HIDE DEF r
  <2>4. QED BY <2>2, <2>3
<1>5. CASE I = {}
  BY <1>3, <1>5
<1>6. QED BY <1>4, <1>5

\* Every request the opcode switch takes leaves tables of routes and addresses.
LEMMA EditRoutesType ==
  ASSUME NEW s \in Seq(Routes), NEW e \in Routes, NEW op \in TableOps
  PROVE  EditRoutes(s, e, op) \in Seq(Routes)
<1>1. CASE op = "CREATE"
  BY <1>1, AppendProperties DEF EditRoutes, add_last_entry_list
<1>2. CASE op = "UPDATE"
  BY <1>2, LenProperties DEF EditRoutes, update_entry_table
<1>3. CASE op = "DELETE"
  BY <1>3, RemoveRouteType DEF EditRoutes
<1>4. QED BY <1>1, <1>2, <1>3 DEF TableOps

LEMMA EditMacsType ==
  ASSUME NEW s \in Seq(Macs), NEW m \in Macs, NEW op \in TableOps
  PROVE  /\ EditMacs(s, m, op) \in Seq(Macs)
         /\ \A j \in 1..Len(EditMacs(s, m, op)) :
              \/ \E k \in 1..Len(s) : EditMacs(s, m, op)[j] = s[k]
              \/ op = "CREATE" /\ EditMacs(s, m, op)[j] = m
<1>1. CASE op = "CREATE"
  <2>1. EditMacs(s, m, op) = Append(s, m)
    BY <1>1 DEF EditMacs, add_last_entry_list_mac
  <2>2. QED BY <1>1, <2>1, AppendProperties, LenProperties
<1>2. CASE op = "UPDATE"
  <2>1. EditMacs(s, m, op) = s
    BY <1>2, LenProperties DEF EditMacs, update_entry_table_mac
  <2>2. QED BY <2>1
<1>3. CASE op = "DELETE"
  BY <1>3, RemoveMacType DEF EditMacs
<1>4. QED BY <1>1, <1>2, <1>3 DEF TableOps

-----------------------------------------------------------------------------
(* Replica.                                                                *)
LEMMA RequestTypes ==
  /\ Invalid \in Requests /\ EmptyCreate \in Requests
  /\ \A op \in FUNCTION : Plain(op) \in Requests
  /\ \A e \in Routes : WireRoute(e) \in Requests
  /\ \A m \in Macs : WireMac(m) \in Requests
BY RouteAssumption, MacAssumption
   DEF Invalid, EmptyCreate, Plain, RouteReq, MacReq, WireRoute, WireMac, Requests,
       Routes, NoRoute, FUNCTION, TableOps

LEMMA EmptyTablesType == EmptyTables \in Tables
BY DEF EmptyTables, Tables, flush_routing_table_info, flush_mac_info

LEMMA ChangeType ==
  ASSUME NEW t \in Tables, NEW r \in Requests, r.op \in TableOps
  PROVE  Change(t, r) \in Tables
<1>1. t.rt \in Seq(Routes) /\ t.mac \in Seq(Macs) /\ r.route \in Routes /\ r.mac \in Macs
  BY DEF Tables, Requests
<1>2. EditRoutes(t.rt, r.route, r.op) \in Seq(Routes)
  BY <1>1, EditRoutesType
<1>3. EditMacs(t.mac, r.mac, r.op) \in Seq(Macs)
  BY <1>1, EditMacsType
<1>4. QED BY <1>2, <1>3 DEF Change, Tables

LEMMA ApplyType ==
  ASSUME NEW t \in Tables, NEW r \in Requests
  PROVE  Apply(t, r) \in Tables
BY ChangeType, EmptyTablesType DEF Apply, Requests

\* The requests a newly accepted client is sent are requests.
LEMMA SnapshotType ==
  ASSUME NEW t \in Tables
  PROVE  Snapshot(t) \in Seq(Requests)
<1>1. t.rt \in Seq(Routes) /\ t.mac \in Seq(Macs)
  BY DEF Tables
<1>2. [i \in 1..Len(t.rt) |-> WireRoute(t.rt[i])] \in Seq(Requests)
  BY <1>1, RequestTypes, LenProperties
<1>3. [i \in 1..Len(t.mac) |-> WireMac(t.mac[i])] \in Seq(Requests)
  BY <1>1, RequestTypes, LenProperties
<1>4. QED BY <1>2, <1>3, ConcatProperties DEF Snapshot

\* A loop starts at one of the slots it has to visit.
LEMMA LowestIs ==
  ASSUME NEW S \in SUBSET Slots, S # {}
  PROVE  Lowest(S) \in S
<1>1. PICK i \in S : \A j \in S : i <= j
  BY Least, S \in SUBSET Nat DEF Slots
<1>2. QED BY <1>1 DEF Lowest

-----------------------------------------------------------------------------
(* RtSync.                                                                 *)
\* A loop over the slots has a slot to visit; one over the monitored clients has
\* only such slots, and one that reads has only those select found readable.
LoopOK ==
  /\ pc \in {"bcast", "kill", "clients", "quit"} => todo # {}
  /\ pc \in {"bcast", "clients", "quit"} => todo \subseteq ClientSlots
  /\ pc = "clients" => \A i \in todo : Readable(monitor_fd_set[i])

\* A client that is being sent the tables has something left to get.
SendingOK == pc = "sendtab" => outbox # <<>> /\ data_socket \in Clients

\* Only a request for a MAC address waits for an IP.
PromptOK == pc \in {"prompt", "store"} => NeedsIp(req)

\* Only a change of a table has two steps.
ApplyingOK == \A c \in Clients : cpc[c] = "applying" => creq[c].op \in TableOps

\* A process connects once: the backlog has no client twice and none accepted.
BacklogOK ==
  /\ \A i, j \in 1..Len(backlog) : backlog[i] = backlog[j] => i = j
  /\ \A i \in 1..Len(backlog) : backlog[i] \notin open_fds /\ cpc[backlog[i]] # "off"
  /\ \A c \in open_fds : cpc[c] # "off"

AnyGone == \E c \in Clients : cpc[c] = "gone"

\* A read of 0 bytes, which alone puts a 0 into client_pid_set, is of a client
\* that has ended.
ZeroOK == Holds(client_pid_set, ZeroPid) => AnyGone

\* While the server serves, the object of every listed MAC address holds an IP or
\* is about to.
ShmOK ==
  pc \notin Stopped \cup {"quit"} =>
    \A i \in 1..Len(tables.mac) :
      \/ ip_shm[tables.mac[i]] = "ip"
      \/ pc = "store" /\ tables.mac[i] = req.mac

IInv ==
  /\ TypeOK /\ LoopOK /\ SendingOK /\ PromptOK /\ ApplyingOK /\ BacklogOK
  /\ SlotArraysSound /\ ZeroOK /\ ShmOK /\ ServerEndHasACause

-----------------------------------------------------------------------------
(* Types: first of the operators that several actions share.               *)
LEMMA SlotsFacts == MAX_CLIENTS_SUPPORT \in Nat /\ Slots = 1..MAX_CLIENTS_SUPPORT
BY BoundAssumption DEF Slots

LEMMA LoopTypes ==
  ASSUME NEW p \in ServerPcs, NEW done \in ServerPcs, NEW S \in SUBSET Slots,
         Loop(p, S, done)
  PROVE  pc' \in ServerPcs /\ todo' \in SUBSET Slots
BY DEF Loop

LEMMA BroadcastTypes ==
  ASSUME NEW S \in SUBSET Slots, NEW r \in Requests, BroadcastTo(S, r)
  PROVE  pc' \in ServerPcs /\ todo' \in SUBSET Slots /\ req' \in Requests
BY LoopTypes, RequestTypes DEF BroadcastTo, ServerPcs

LEMMA EndTypes ==
  ASSUME TypeOK, NEW c \in Clients, End(c)
  PROVE  /\ cpc' \in [Clients -> ClientPcs] /\ copy' \in [Clients -> Tables]
         /\ creq' \in [Clients -> Requests] /\ dangling' \in [Clients -> BOOLEAN]
BY RequestTypes, EmptyTablesType DEF TypeOK, End, ClientPcs

LEMMA DoneTypes ==
  ASSUME TypeOK, NEW c \in Clients, Done(c)
  PROVE  cpc' \in [Clients -> ClientPcs] /\ creq' \in [Clients -> Requests]
BY RequestTypes DEF TypeOK, Done, ClientPcs

LEMMA DeliverTypes ==
  ASSUME TypeOK, NEW c \in Clients, NEW r \in Requests, Deliver(c, r)
  PROVE  down' \in [Clients -> Seq(Requests)]
<1>1. Append(down[c], r) \in Seq(Requests)
  BY AppendProperties DEF TypeOK
<1>2. QED BY <1>1 DEF TypeOK, Deliver

LEMMA ShowTypes ==
  ASSUME TypeOK, NEW t
  PROVE  ShowOpens(t) \in [Macs -> {"absent", "empty", "ip"}]
BY DEF TypeOK, ShowOpens

LEMMA ClientSlotsType == ClientSlots \in SUBSET Slots /\ ClientSlots = {i \in Slots : monitor_fd_set[i] \in Clients}
BY DEF ClientSlots

LEMMA TypePreserved == IInv /\ [Next]_vars => TypeOK'
<1> SUFFICES ASSUME IInv, [Next]_vars PROVE TypeOK'
  OBVIOUS
<1>0. TypeOK
  BY DEF IInv
<1> USE <1>0 DEF TypeOK, server, streams, clients
<1>1. ASSUME Accept PROVE TypeOK'
  <2> DEFINE c == Head(backlog)
  <2>1. c \in Clients /\ Tail(backlog) \in Seq(Clients)
    BY <1>1, HeadTailProperties DEF Accept
  <2>2. AddTo(monitor_fd_set, NoFd, c) \in [Slots -> Clients \cup {Stdin, Master, NoFd}]
    BY <2>1, SlotsFacts, AddToIs
  <2>3. Snapshot(tables) \in Seq(Requests)
    BY SnapshotType
  <2>4. pc' \in ServerPcs
    BY <1>1 DEF Accept, ServerPcs, Stopped
  <2> HIDE DEF c
  <2>5. QED BY <1>1, <2>1, <2>2, <2>3, <2>4 DEF Accept, c
<1>2. ASSUME SendTable PROVE TypeOK'
  <2>1. data_socket \in Clients /\ Head(outbox) \in Requests /\ Tail(outbox) \in Seq(Requests)
    BY <1>2, HeadTailProperties DEF SendTable, IInv, SendingOK
  <2>2. down' \in [Clients -> Seq(Requests)]
    BY <1>2, <2>1, DeliverTypes DEF SendTable, WriteTo
  <2>3. pc' \in ServerPcs /\ todo' \in SUBSET Slots /\ req' \in Requests
    BY <1>2 DEF SendTable, WriteTo, ServerPcs, Stopped
  <2>4. QED BY <1>2, <2>1, <2>2, <2>3 DEF SendTable
<1>3. ASSUME NEW r \in Inputs, ConsoleEdit(r) PROVE TypeOK'
  <2>1. r \in Requests /\ Change(tables, r) \in Tables
    BY <1>3, InputAssumption, ChangeType DEF ConsoleEdit
  <2>2. pc' \in ServerPcs /\ todo' \in SUBSET Slots /\ req' \in Requests /\ tables' \in Tables
    BY <1>3, <2>1, BroadcastTypes, ClientSlotsType DEF ConsoleEdit, Commit
  <2>3. QED BY <1>3, <2>2, BoundAssumption DEF ConsoleEdit, ConsoleReads
<1>4. ASSUME NEW r \in Inputs, ConsoleMac(r) PROVE TypeOK'
  <2>1. pc' \in ServerPcs /\ req' \in Requests
    BY <1>4, InputAssumption DEF ConsoleMac, ServerPcs
  <2>2. QED BY <1>4, <2>1, BoundAssumption DEF ConsoleMac, ConsoleReads
<1>5. ASSUME NEW r \in Inputs, ConsoleShow(r) PROVE TypeOK'
  <2>1. pc' \in ServerPcs /\ todo' \in SUBSET Slots /\ req' \in Requests
    BY <1>5, InputAssumption, BroadcastTypes, ClientSlotsType
       DEF ConsoleShow, ServerPcs, Stopped
  <2>2. ip_shm' \in [Macs -> {"absent", "empty", "ip"}]
    BY <1>5, ShowTypes DEF ConsoleShow
  <2>3. QED BY <1>5, <2>1, <2>2, BoundAssumption DEF ConsoleShow, ConsoleReads
<1>6. ASSUME NEW r \in Inputs, ConsoleFlush(r) PROVE TypeOK'
  <2>1. pc' \in ServerPcs /\ todo' \in SUBSET Slots
    <3> DEFINE S == {i \in Slots : client_pid_set[i] # NoPid}
    <3>1. S \in SUBSET Slots /\ Loop("kill", S, "select")
      BY <1>6 DEF ConsoleFlush
    <3> HIDE DEF S
    <3>2. QED BY <3>1, LoopTypes DEF ServerPcs
  <2>2. tables' \in Tables /\ outOfStep' \in SUBSET Clients
    BY <1>6, EmptyTablesType DEF ConsoleFlush
  <2>3. QED BY <1>6, <2>1, <2>2, BoundAssumption DEF ConsoleFlush, ConsoleReads
<1>7. ASSUME NEW r \in Inputs, ConsoleNothing(r) PROVE TypeOK'
  BY <1>7, BoundAssumption DEF ConsoleNothing, ConsoleReads
<1>8. ASSUME AnswerStored PROVE TypeOK'
  BY <1>8 DEF AnswerStored, ServerPcs
<1>9. ASSUME AnswerRejected PROVE TypeOK'
  BY <1>9, RequestTypes DEF AnswerRejected, ServerPcs
<1>10. ASSUME AnswerBlank PROVE TypeOK'
  <2>1. pc' \in ServerPcs /\ todo' \in SUBSET Slots /\ req' \in Requests
    BY <1>10, BroadcastTypes, ClientSlotsType DEF AnswerBlank
  <2>2. outOfStep' \in SUBSET Clients
    BY <1>10 DEF AnswerBlank
  <2>3. QED BY <1>10, <2>1, <2>2 DEF AnswerBlank
<1>11. ASSUME Store PROVE TypeOK'
  <2>1. req.op \in TableOps
    BY <1>11 DEF Store, IInv, PromptOK, NeedsIp, TableOps
  <2>2. Change(tables, req) \in Tables
    BY <2>1, ChangeType
  <2>3. pc' \in ServerPcs /\ todo' \in SUBSET Slots /\ req' \in Requests /\ tables' \in Tables
    BY <1>11, <2>2, BroadcastTypes, ClientSlotsType DEF Store, Commit
  <2>4. QED BY <1>11, <2>3 DEF Store
<1>12. ASSUME Broadcast PROVE TypeOK'
  <2> DEFINE i == Lowest(todo)
             c == monitor_fd_set[i]
  <2>1. c \in Clients
    BY <1>12, LowestIs DEF Broadcast, IInv, LoopOK, ClientSlots
  <2>2. todo \ {i} \in SUBSET Slots
    OBVIOUS
  <2> HIDE DEF c, i
  <2>3. WriteTo(c, req, BroadcastTo(todo \ {i}, req))
    BY <1>12 DEF Broadcast, c, i
  <2>4. down' \in [Clients -> Seq(Requests)]
    BY <2>1, <2>3, DeliverTypes DEF WriteTo
  <2>5. pc' \in ServerPcs /\ todo' \in SUBSET Slots /\ req' \in Requests
    BY <2>2, <2>3, BroadcastTypes DEF WriteTo, ServerPcs, Stopped
  <2>6. QED BY <1>12, <2>4, <2>5 DEF Broadcast
<1>13. ASSUME Kill PROVE TypeOK'
  <2> DEFINE i == Lowest(todo)
  <2>1. pc' \in ServerPcs /\ todo' \in SUBSET Slots
    <3>1. todo \ {i} \in SUBSET Slots
      OBVIOUS
    <3> HIDE DEF i
    <3>2. Loop("kill", todo \ {i}, "select") \/ (pc' = "sigusr1" /\ todo' = {})
      BY <1>13 DEF Kill, i
    <3>3. QED BY <3>1, <3>2, LoopTypes DEF ServerPcs, Stopped
  <2>2. \/ UNCHANGED <<sig, cpc, copy, creq, dangling>>
        \/ \E c \in Clients : sig' = [sig EXCEPT ![c] = TRUE] /\ UNCHANGED clients
        \/ \E c \in Clients : End(c) /\ UNCHANGED sig
    BY <1>13 DEF Kill
  <2>3. sig' \in [Clients -> BOOLEAN]
    BY <2>2
  <2>4. /\ cpc' \in [Clients -> ClientPcs] /\ copy' \in [Clients -> Tables]
        /\ creq' \in [Clients -> Requests] /\ dangling' \in [Clients -> BOOLEAN]
    BY <2>2, EndTypes
  <2>5. QED BY <1>13, <2>1, <2>3, <2>4 DEF Kill
<1>14. ASSUME SelectClients PROVE TypeOK'
  <2> DEFINE S == {i \in ClientSlots : Readable(monitor_fd_set[i])}
  <2>1. S \in SUBSET Slots /\ Loop("clients", S, "select")
    BY <1>14, ClientSlotsType DEF SelectClients
  <2> HIDE DEF S
  <2>2. pc' \in ServerPcs /\ todo' \in SUBSET Slots
    BY <2>1, LoopTypes DEF ServerPcs
  <2>3. QED BY <1>14, <2>2 DEF SelectClients
<1>15. ASSUME ReadClient PROVE TypeOK'
  <2> DEFINE i == Lowest(todo)
             c == monitor_fd_set[i]
             p == IF up[c] # <<>> THEN Head(up[c]) ELSE ZeroPid
  <2>1. c \in Clients
    BY <1>15, LowestIs DEF ReadClient, IInv, LoopOK, ClientSlots
  <2>2. p \in Pids \cup {ZeroPid}
    BY <2>1, HeadTailProperties
  <2>3. pc' \in ServerPcs /\ todo' \in SUBSET Slots
    <3>1. Loop("clients", todo \ {i}, "select") \/ (pc' = "econnreset" /\ todo' = {})
      BY <1>15 DEF ReadClient
    <3> HIDE DEF i
    <3>2. QED BY <3>1, LoopTypes DEF ServerPcs, Stopped
  <2>4. up' \in [Clients -> Seq(Pids)]
    <3> DEFINE newup == [up EXCEPT ![c] = <<>>]
    <3> HIDE DEF c
    <3>1. newup \in [Clients -> Seq(Pids)]
      BY EmptySeq
    <3> HIDE DEF newup
    <3>2. up' = up \/ up' = newup
      BY <1>15 DEF ReadClient, newup, c
    <3>3. QED BY <3>1, <3>2
  <2>5. client_pid_set' \in [Slots -> Pids \cup {NoPid, ZeroPid}]
    <3>1. \/ UNCHANGED client_pid_set
          \/ client_pid_set' = AddTo(client_pid_set, NoPid, p)
          \/ client_pid_set' = RemoveFrom(client_pid_set, NoPid, p)
      BY <1>15 DEF ReadClient, add_to_pid_set
    <3> HIDE DEF p
    <3>2. /\ AddTo(client_pid_set, NoPid, p) \in [Slots -> Pids \cup {NoPid, ZeroPid}]
          /\ RemoveFrom(client_pid_set, NoPid, p) \in [Slots -> Pids \cup {NoPid, ZeroPid}]
      BY <2>2, SlotsFacts, AddToIs, RemoveFromIs
    <3>3. QED BY <3>1, <3>2
  <2>6. monitor_fd_set' \in [Slots -> Clients \cup {Stdin, Master, NoFd}]
    <3>1. \/ UNCHANGED monitor_fd_set
          \/ monitor_fd_set' = RemoveFrom(monitor_fd_set, NoFd, c)
      BY <1>15 DEF ReadClient
    <3> HIDE DEF c
    <3>2. RemoveFrom(monitor_fd_set, NoFd, c) \in [Slots -> Clients \cup {Stdin, Master, NoFd}]
      BY SlotsFacts, RemoveFromIs
    <3>3. QED BY <3>1, <3>2
  <2>7. QED BY <1>15, <2>3, <2>4, <2>5, <2>6 DEF ReadClient
<1>16. ASSUME SigInt PROVE TypeOK'
  <2>1. pc' \in ServerPcs /\ todo' \in SUBSET Slots
    BY <1>16, LoopTypes, ClientSlotsType DEF SigInt, ServerPcs, Stopped
  <2>2. QED BY <1>16, <2>1 DEF SigInt
<1>17. ASSUME QuitWrite PROVE TypeOK'
  <2> DEFINE i == Lowest(todo)
             c == monitor_fd_set[i]
             next == Loop("quit", todo \ {i}, "exited") /\ UNCHANGED req
  <2>1. c \in Clients
    BY <1>17, LowestIs DEF QuitWrite, IInv, LoopOK, ClientSlots
  <2>2. todo \ {i} \in SUBSET Slots
    OBVIOUS
  <2> HIDE DEF c, i
  <2>3. WriteTo(c, Plain("QUIT"), next)
    BY <1>17 DEF QuitWrite, c, i
  <2>4. Plain("QUIT") \in Requests
    BY RequestTypes DEF FUNCTION
  <2>5. down' \in [Clients -> Seq(Requests)]
    BY <2>1, <2>3, <2>4, DeliverTypes DEF WriteTo
  <2>6. pc' \in ServerPcs /\ todo' \in SUBSET Slots /\ req' \in Requests
    BY <2>2, <2>3, LoopTypes DEF WriteTo, ServerPcs, Stopped
  <2>7. QED BY <1>17, <2>5, <2>6 DEF QuitWrite
<1>18. ASSUME NEW c \in Clients, Start(c) PROVE TypeOK'
  <2>1. Append(backlog, c) \in Seq(Clients)
    BY AppendProperties
  <2>2. QED BY <1>18, <2>1 DEF Start, ClientPcs
<1>19. ASSUME NEW c \in Clients, SendPid(c) PROVE TypeOK'
  <2>1. Append(up[c], PidOf[c]) \in Seq(Pids)
    BY AppendProperties, ClientAssumption
  <2>2. up' \in [Clients -> Seq(Pids)]
    BY <1>19, <2>1 DEF SendPid
  <2>3. /\ cpc' \in [Clients -> ClientPcs] /\ copy' \in [Clients -> Tables]
        /\ creq' \in [Clients -> Requests] /\ dangling' \in [Clients -> BOOLEAN]
    <3>1. CASE Up
      BY <1>19, <3>1 DEF SendPid, ClientPcs
    <3>2. CASE ~Up
      BY <1>19, <3>2, EndTypes DEF SendPid
    <3>3. QED BY <3>1, <3>2
  <2>4. QED BY <1>19, <2>2, <2>3 DEF SendPid
<1>20. ASSUME NEW c \in Clients, InstallHandlers(c) PROVE TypeOK'
  BY <1>20 DEF InstallHandlers, ClientPcs
<1>21. ASSUME NEW c \in Clients, Read(c) PROVE TypeOK'
  <2>1. down[c] # <<>> => Head(down[c]) \in Requests /\ Tail(down[c]) \in Seq(Requests)
    BY HeadTailProperties
  <2>2. creq' \in [Clients -> Requests] /\ down' \in [Clients -> Seq(Requests)]
    <3>1. CASE down[c] # <<>>
      <4>1. creq' = [creq EXCEPT ![c] = Head(down[c])] /\ down' = [down EXCEPT ![c] = Tail(@)]
        BY <1>21, <3>1 DEF Read
      <4>2. PICK x \in Requests, q \in Seq(Requests) : x = Head(down[c]) /\ q = Tail(down[c])
        BY <2>1, <3>1, Zenon
      <4>3. creq' = [creq EXCEPT ![c] = x] /\ down' = [down EXCEPT ![c] = q]
        BY <4>1, <4>2, Zenon
      <4>4. QED BY <4>3
    <3>2. CASE down[c] = <<>>
      BY <1>21, <3>2, RequestTypes DEF Read
    <3>3. QED BY <3>1, <3>2
  <2>3. QED BY <1>21, <2>2 DEF Read, ClientPcs
<1>22. ASSUME NEW c \in Clients, Begin(c) PROVE TypeOK'
  <2>1. CASE End(c)
    BY <1>22, <2>1, EndTypes DEF Begin
  <2>2. CASE cpc' = [cpc EXCEPT ![c] = "applying"] /\ UNCHANGED <<copy, creq, dangling>>
    BY <1>22, <2>2 DEF Begin, ClientPcs
  <2>3. ASSUME Done(c), UNCHANGED dangling,
               copy' = [copy EXCEPT ![c] =
                 IF creq[c].op \in TableOps THEN @ ELSE Apply(@, creq[c])]
        PROVE  TypeOK'
    <3>1. Apply(copy[c], creq[c]) \in Tables
      BY ApplyType
    <3>2. copy' \in [Clients -> Tables]
      BY <2>3, <3>1
    <3>3. cpc' \in [Clients -> ClientPcs] /\ creq' \in [Clients -> Requests]
      BY <2>3, DoneTypes
    <3>4. QED BY <1>22, <2>3, <3>2, <3>3 DEF Begin
  <2>4. QED BY <1>22, <2>1, <2>2, <2>3 DEF Begin
<1>23. ASSUME NEW c \in Clients, Show(c) PROVE TypeOK'
  <2>1. ip_shm' \in [Macs -> {"absent", "empty", "ip"}]
    BY <1>23, ShowTypes DEF Show
  <2>2. /\ cpc' \in [Clients -> ClientPcs] /\ copy' \in [Clients -> Tables]
        /\ creq' \in [Clients -> Requests] /\ dangling' \in [Clients -> BOOLEAN]
    BY <1>23, EndTypes, DoneTypes DEF Show
  <2>3. QED BY <1>23, <2>1, <2>2 DEF Show
<1>24. ASSUME NEW c \in Clients, Finish(c) PROVE TypeOK'
  <2>1. Change(copy[c], creq[c]) \in Tables
    BY <1>24, ChangeType DEF Finish, IInv, ApplyingOK
  <2>2. copy' \in [Clients -> Tables]
    BY <1>24, <2>1 DEF Finish
  <2>3. cpc' \in [Clients -> ClientPcs] /\ creq' \in [Clients -> Requests]
    BY <1>24, DoneTypes DEF Finish
  <2>4. QED BY <1>24, <2>2, <2>3 DEF Finish
<1>25. ASSUME NEW c \in Clients, Quit(c) PROVE TypeOK'
  BY <1>25, EndTypes DEF Quit
<1>26. ASSUME NEW c \in Clients, FlushHandler(c) PROVE TypeOK'
  <2>1. dangling' \in [Clients -> BOOLEAN]
    BY <1>26 DEF FlushHandler
  <2>2. copy' \in [Clients -> Tables] /\ sig' \in [Clients -> BOOLEAN]
    BY <1>26, EmptyTablesType DEF FlushHandler
  <2>3. QED BY <1>26, <2>1, <2>2 DEF FlushHandler
<1>27. ASSUME NEW c \in Clients, Interrupt(c) PROVE TypeOK'
  <2>1. Append(up[c], PidOf[c]) \in Seq(Pids)
    BY AppendProperties, ClientAssumption
  <2>2. up' \in [Clients -> Seq(Pids)]
    BY <1>27, <2>1 DEF Interrupt
  <2>3. QED BY <1>27, <2>2, EndTypes DEF Interrupt
<1>28. ASSUME NEW c \in Clients, Crash(c) PROVE TypeOK'
  BY <1>28, EndTypes DEF Crash
<1>29. CASE UNCHANGED vars
  BY <1>29 DEF vars
<1>30. QED
  BY <1>1, <1>2, <1>3, <1>4, <1>5, <1>6, <1>7, <1>8, <1>9, <1>10, <1>11,
     <1>12, <1>13, <1>14, <1>15, <1>16, <1>17, <1>18, <1>19, <1>20, <1>21,
     <1>22, <1>23, <1>24, <1>25, <1>26, <1>27, <1>28, <1>29
     DEF Next, ServerStep, Console, Answer, ClientStep

-----------------------------------------------------------------------------
(* What the steps of each side leave alone.                                *)
\* The client's own steps after connect.
Client(c) == ClientStep(c) \/ Interrupt(c) \/ Crash(c)

\* The steps of the server that neither accept nor read from a client.
Serving ==
  \/ SendTable \/ Store \/ Broadcast \/ SelectClients \/ QuitWrite
  \/ Console \/ Answer \/ SigInt

LEMMA Steps ==
  [Next]_vars => \/ Serving \/ Kill \/ Accept \/ ReadClient
                 \/ \E c \in Clients : Client(c) \/ Start(c)
                 \/ UNCHANGED vars
BY DEF Next, ServerStep, Serving, Client

LEMMA ClientFrame ==
  ASSUME TypeOK, NEW c \in Clients, Client(c)
  PROVE  /\ UNCHANGED <<pc, tables, monitor_fd_set, client_pid_set, todo, req,
                        data_socket, outbox, open_fds, backlog>>
         /\ \A d \in Clients : up[d] # <<>> => up'[d] # <<>>
         /\ \A m \in Macs : ip_shm[m] = "ip" => ip_shm'[m] = "ip"
<1> USE DEF server, streams, clients
<1>1. UNCHANGED <<pc, tables, monitor_fd_set, client_pid_set, todo, req,
                  data_socket, outbox, open_fds, backlog>>
  BY DEF Client, ClientStep, SendPid, InstallHandlers, Read, Begin, Show, Finish, Quit,
         FlushHandler, Interrupt, Crash
<1>2. ip_shm' = ip_shm \/ ip_shm' = ShowOpens(copy[c])
  BY DEF Client, ClientStep, SendPid, InstallHandlers, Read, Begin, Show, Finish, Quit,
         FlushHandler, Interrupt, Crash
<1>3. \A m \in Macs : ip_shm[m] = "ip" => ip_shm'[m] = "ip"
  BY <1>2 DEF ShowOpens
<1>4. up' = up \/ up' = [up EXCEPT ![c] = Append(@, PidOf[c])]
  BY DEF Client, ClientStep, SendPid, InstallHandlers, Read, Begin, Show, Finish, Quit,
         FlushHandler, Interrupt, Crash
<1>5. up[c] \in Seq(Pids) /\ PidOf[c] \in Pids
  BY ClientAssumption DEF TypeOK
<1>6. Append(up[c], PidOf[c]) # <<>>
  BY <1>5, AppendProperties
<1>7. \A d \in Clients : up[d] # <<>> => up'[d] # <<>>
  BY <1>4, <1>6 DEF TypeOK
<1>8. QED BY <1>1, <1>3, <1>7

LEMMA ServingFrame ==
  ASSUME Serving
  PROVE  UNCHANGED <<monitor_fd_set, client_pid_set, open_fds, backlog, up, sig, clients>>
<1> USE DEF streams, clients
<1>1. CASE Console
  BY <1>1 DEF Console, ConsoleEdit, ConsoleMac, ConsoleShow, ConsoleFlush,
              ConsoleNothing, ConsoleReads
<1>2. CASE Answer \/ SigInt \/ Store
  BY <1>2 DEF Answer, AnswerStored, AnswerRejected, AnswerBlank, SigInt, Store
<1>3. CASE SendTable \/ Broadcast \/ SelectClients \/ QuitWrite
  BY <1>3 DEF SendTable, Broadcast, SelectClients, QuitWrite
<1>4. QED BY <1>1, <1>2, <1>3 DEF Serving

LEMMA KillFrame ==
  ASSUME Kill
  PROVE  /\ UNCHANGED <<monitor_fd_set, client_pid_set, open_fds, backlog, tables, req, up,
                        ip_shm, data_socket, outbox>>
         /\ UNCHANGED cpc \/ \E c \in Clients : cpc' = [cpc EXCEPT ![c] = "gone"]
         /\ UNCHANGED creq \/ \E c \in Clients : End(c)
BY DEF Kill, clients, End

\* A process that has ended stays so, and one that has started never is unstarted.
Onward ==
  \A c \in Clients : /\ cpc[c] = "gone" => cpc'[c] = "gone"
                     /\ cpc[c] # "off" => cpc'[c] # "off"

LEMMA CpcGoesOn ==
  ASSUME TypeOK, [Next]_vars
  PROVE  Onward
<1> USE DEF server, streams, clients
<1>1. ASSUME NEW c \in Clients, Client(c)
      PROVE  cpc' = cpc \/ \E p \in ClientPcs \ {"off"} :
                             cpc[c] # "gone" /\ cpc' = [cpc EXCEPT ![c] = p]
  BY <1>1 DEF Client, ClientStep, SendPid, InstallHandlers, Read, Begin, Show, Finish,
              Quit, FlushHandler, Interrupt, Crash, End, Done, Alive, Handlers, ClientPcs
<1>2. ASSUME NEW c \in Clients, Client(c) PROVE Onward
  BY <1>1, <1>2 DEF Onward, TypeOK
<1>3. ASSUME NEW c \in Clients, Start(c) PROVE Onward
  BY <1>3 DEF Onward, Start, TypeOK
<1>4. CASE Kill
  BY <1>4, KillFrame DEF Onward, TypeOK
<1>5. CASE Serving
  BY <1>5, ServingFrame DEF Onward
<1>6. CASE Accept \/ ReadClient \/ UNCHANGED vars
  BY <1>6 DEF Accept, ReadClient, vars, Onward
<1>7. QED BY <1>2, <1>3, <1>4, <1>5, <1>6, Steps

-----------------------------------------------------------------------------
(* The parts of the invariant that TypeOK and each other need.             *)
LEMMA BacklogPreserved == IInv /\ [Next]_vars => BacklogOK'
<1> SUFFICES ASSUME IInv, [Next]_vars PROVE BacklogOK'
  OBVIOUS
<1>1. TypeOK /\ BacklogOK /\ Onward
  BY CpcGoesOn DEF IInv
<1>2. backlog \in Seq(Clients) /\ Len(backlog) \in Nat /\ open_fds \in SUBSET Clients
      /\ \A i \in 1..Len(backlog) : backlog[i] \in Clients
  BY <1>1, LenProperties, ElementOfSeq DEF TypeOK
<1>3. CASE UNCHANGED <<backlog, open_fds>>
  BY <1>1, <1>2, <1>3 DEF BacklogOK, Onward
<1>4. ASSUME NEW c \in Clients, Start(c) PROVE BacklogOK'
  <2>1. /\ Len(backlog') = Len(backlog) + 1
        /\ \A i \in 1..Len(backlog) : backlog'[i] = backlog[i]
        /\ backlog'[Len(backlog) + 1] = c
    BY <1>2, <1>4, AppendProperties DEF Start
  <2>2. cpc[c] = "off" /\ cpc'[c] # "off" /\ UNCHANGED open_fds
    BY <1>1, <1>4 DEF Start, TypeOK
  <2>3. c \notin open_fds /\ \A i \in 1..Len(backlog) : backlog[i] # c
    BY <1>1, <2>2 DEF BacklogOK
  <2>4. \A i, j \in 1..Len(backlog') : backlog'[i] = backlog'[j] => i = j
    <3>1. ASSUME NEW i \in 1..Len(backlog'), NEW j \in 1..Len(backlog'),
                 backlog'[i] = backlog'[j]
          PROVE  i = j
      <4>1. CASE i \in 1..Len(backlog) /\ j \in 1..Len(backlog)
        BY <1>1, <2>1, <3>1, <4>1 DEF BacklogOK
      <4>2. CASE i = Len(backlog) + 1 /\ j \in 1..Len(backlog)
        BY <2>1, <2>3, <3>1, <4>2
      <4>3. CASE j = Len(backlog) + 1 /\ i \in 1..Len(backlog)
        BY <2>1, <2>3, <3>1, <4>3
      <4>4. QED BY <1>2, <2>1, <4>1, <4>2, <4>3
    <3>2. QED BY <3>1
  <2>5. ASSUME NEW i \in 1..Len(backlog')
        PROVE  backlog'[i] \notin open_fds' /\ cpc'[backlog'[i]] # "off"
    <3>1. CASE i \in 1..Len(backlog)
      BY <1>1, <1>2, <2>1, <2>2, <3>1 DEF BacklogOK, Onward
    <3>2. CASE i = Len(backlog) + 1
      BY <2>1, <2>2, <2>3, <3>2
    <3>3. QED BY <1>2, <2>1, <3>1, <3>2
  <2>6. \A d \in open_fds' : cpc'[d] # "off"
    BY <1>1, <1>2, <2>2 DEF BacklogOK, Onward
  <2>7. QED BY <2>4, <2>5, <2>6 DEF BacklogOK
<1>5. CASE Accept /\ pc' # "emfile"
  <2> DEFINE c == Head(backlog)
             t == Tail(backlog)
  <2>1. backlog # <<>> /\ backlog' = t /\ open_fds' = open_fds \cup {c}
    BY <1>5 DEF Accept
  <2>2. /\ Len(t) = Len(backlog) - 1 /\ Len(backlog) >= 1 /\ c = backlog[1]
        /\ \A i \in 1..Len(t) : t[i] = backlog[i + 1]
    BY <1>2, <2>1, HeadTailProperties, EmptySeq
  <2> HIDE DEF c, t
  <2>3. ASSUME NEW i \in 1..Len(t)
        PROVE  i + 1 \in 1..Len(backlog) /\ i + 1 # 1 /\ 1 \in 1..Len(backlog)
    BY <1>2, <2>2
  <2>4. \A i, j \in 1..Len(t) : t[i] = t[j] => i = j
    <3>1. ASSUME NEW i \in 1..Len(t), NEW j \in 1..Len(t), t[i] = t[j] PROVE i = j
      <4>1. i + 1 = j + 1
        BY <1>1, <2>2, <2>3, <3>1 DEF BacklogOK
      <4>2. QED BY <1>2, <2>2, <4>1
    <3>2. QED BY <3>1
  <2>5. ASSUME NEW i \in 1..Len(t)
        PROVE  t[i] \notin open_fds \cup {c} /\ cpc'[t[i]] # "off"
    <3>1. t[i] = backlog[i + 1] /\ c = backlog[1] /\ backlog[i + 1] # backlog[1]
      BY <1>1, <2>2, <2>3 DEF BacklogOK
    <3>2. backlog[i + 1] \notin open_fds /\ cpc'[backlog[i + 1]] # "off"
      BY <1>1, <1>2, <2>3 DEF BacklogOK, Onward
    <3>3. QED BY <3>1, <3>2
  <2>6. \A d \in open_fds \cup {c} : cpc'[d] # "off"
    BY <1>1, <1>2, <2>2 DEF BacklogOK, Onward
  <2>7. QED BY <2>1, <2>4, <2>5, <2>6 DEF BacklogOK
<1>6. CASE Accept /\ pc' = "emfile"
  <2>1. UNCHANGED <<backlog, open_fds>>
    BY <1>6 DEF Accept
  <2>2. QED BY <1>3, <2>1
<1>7. CASE Serving \/ Kill \/ ReadClient \/ UNCHANGED vars \/ \E c \in Clients : Client(c)
  <2>1. UNCHANGED <<backlog, open_fds>>
    BY <1>1, <1>7, ServingFrame, KillFrame, ClientFrame DEF ReadClient, vars, server
  <2>2. QED BY <1>3, <2>1
<1>8. QED BY <1>4, <1>5, <1>6, <1>7, Steps

LEMMA SlotsPreserved == IInv /\ [Next]_vars => SlotArraysSound'
<1> SUFFICES ASSUME IInv, [Next]_vars PROVE SlotArraysSound'
  OBVIOUS
<1>1. TypeOK /\ SlotArraysSound /\ LoopOK
  BY DEF IInv
<1> DEFINE Fds == Clients \cup {Stdin, Master, NoFd}
           PidMarks == Pids \cup {NoPid, ZeroPid}
<1>2. /\ monitor_fd_set \in [Slots -> Fds] /\ client_pid_set \in [Slots -> PidMarks]
      /\ MAX_CLIENTS_SUPPORT \in Nat /\ Slots = 1..MAX_CLIENTS_SUPPORT
      /\ NoFd \in Fds /\ NoPid \in PidMarks
  BY <1>1, SlotsFacts DEF TypeOK
<1>3. Stdin # NoFd /\ Master # NoFd
  BY ClientAssumption
<1>4. CASE UNCHANGED <<monitor_fd_set, client_pid_set, open_fds>>
  BY <1>1, <1>4 DEF SlotArraysSound, ClientSlots, Holds, Distinct
<1>5. CASE Accept /\ pc' # "emfile"
  <2> DEFINE c == Head(backlog)
             r == AddTo(monitor_fd_set, NoFd, c)
  <2>1. backlog # <<>> /\ backlog \in Seq(Clients)
    BY <1>1, <1>5 DEF Accept, TypeOK
  <2>2. c \in Clients /\ c = backlog[1] /\ 1 \in 1..Len(backlog)
    BY <2>1, HeadTailProperties, EmptySeq, LenProperties
  <2>3. c \notin open_fds
    BY <2>2 DEF IInv, BacklogOK
  <2>4. monitor_fd_set' = r /\ UNCHANGED client_pid_set /\ open_fds' = open_fds \cup {c}
    BY <1>5 DEF Accept
  <2>5. c \in Fds
    BY <2>2
  <2> HIDE DEF c, Fds
  <2>6. ~ Holds(monitor_fd_set, c)
    BY <1>1, <1>2, <2>2, <2>3 DEF SlotArraysSound, ClientSlots, Holds
  <2>7. /\ r \in [Slots -> Fds]
        /\ Distinct(r, NoFd)
        /\ \A x : x # NoFd /\ Holds(monitor_fd_set, x) => Holds(r, x)
        /\ \A i \in Slots : r[i] \in {monitor_fd_set[i], c}
    BY <1>1, <1>2, <2>5, <2>6, AddToIs, AddToSound DEF SlotArraysSound
  <2> HIDE DEF r
  <2>8. Holds(r, Stdin) /\ Holds(r, Master)
    BY <1>1, <1>3, <2>7 DEF SlotArraysSound
  <2>9. \A i \in Slots : r[i] \in Clients => r[i] \in open_fds \cup {c}
    BY <1>1, <2>7 DEF SlotArraysSound, ClientSlots
  <2>10. QED BY <1>1, <2>4, <2>7, <2>8, <2>9 DEF SlotArraysSound, ClientSlots
<1>6. CASE Accept /\ pc' = "emfile"
  BY <1>4, <1>6 DEF Accept
<1>7. CASE ReadClient
  <2> DEFINE i == Lowest(todo)
             c == monitor_fd_set[i]
             p == IF up[c] # <<>> THEN Head(up[c]) ELSE ZeroPid
             a == AddTo(client_pid_set, NoPid, p)
             b == RemoveFrom(client_pid_set, NoPid, p)
             m == RemoveFrom(monitor_fd_set, NoFd, c)
  <2>1. c \in Clients
    BY <1>1, <1>7, LowestIs DEF ReadClient, LoopOK, ClientSlots, TypeOK
  <2>2. p \in Pids \cup {ZeroPid}
    BY <1>1, <2>1, HeadTailProperties DEF TypeOK
  <2>3. UNCHANGED open_fds
    BY <1>7 DEF ReadClient
  <2>4. \/ UNCHANGED <<monitor_fd_set, client_pid_set>>
        \/ ~ Holds(client_pid_set, p) /\ client_pid_set' = a /\ UNCHANGED monitor_fd_set
        \/ client_pid_set' = b /\ monitor_fd_set' = m
    BY <1>7 DEF ReadClient, check_available_pid, add_to_pid_set
  <2>5. p \in PidMarks /\ p # NoPid /\ c # NoFd /\ c # Stdin /\ c # Master
    BY <2>1, <2>2, ClientAssumption
  <2> HIDE DEF i, c, p, PidMarks, Fds
  <2>6. CASE ~ Holds(client_pid_set, p) /\ client_pid_set' = a /\ UNCHANGED monitor_fd_set
    <3>1. Distinct(a, NoPid)
      BY <1>1, <1>2, <2>5, <2>6, AddToSound DEF SlotArraysSound
    <3> HIDE DEF a
    <3>2. QED BY <1>1, <2>3, <2>6, <3>1 DEF SlotArraysSound, ClientSlots
  <2>7. CASE client_pid_set' = b /\ monitor_fd_set' = m
    <3>1. Distinct(b, NoPid)
      BY <1>1, <1>2, <2>5, RemoveFromSound DEF SlotArraysSound
    <3>2. /\ Distinct(m, NoFd)
          /\ \A x : x # c /\ Holds(monitor_fd_set, x) => Holds(m, x)
      BY <1>1, <1>2, <2>5, RemoveFromSound DEF SlotArraysSound
    <3>3. \A j \in Slots : m[j] \in {monitor_fd_set[j], NoFd}
      <4>1. Distinct(monitor_fd_set, NoFd) /\ monitor_fd_set \in [1..MAX_CLIENTS_SUPPORT -> Fds]
        BY <1>1, <1>2 DEF SlotArraysSound
      <4>2. \A j \in 1..MAX_CLIENTS_SUPPORT : m[j] \in {monitor_fd_set[j], NoFd}
        BY <1>2, <2>5, <4>1, RemoveFromFrees
      <4>3. QED BY <1>2, <4>2
    <3> HIDE DEF b, m
    <3>4. Holds(m, Stdin) /\ Holds(m, Master)
      BY <1>1, <2>5, <3>2 DEF SlotArraysSound
    <3>5. \A j \in Slots : m[j] \in Clients => m[j] \in open_fds
      BY <1>1, <3>3, ClientAssumption DEF SlotArraysSound, ClientSlots
    <3>6. QED BY <2>3, <2>7, <3>1, <3>2, <3>4, <3>5 DEF SlotArraysSound, ClientSlots
  <2>8. QED BY <1>4, <2>3, <2>4, <2>6, <2>7
<1>8. CASE Serving \/ Kill \/ UNCHANGED vars \/ \E c \in Clients : Client(c) \/ Start(c)
  <2>1. UNCHANGED <<monitor_fd_set, client_pid_set, open_fds>>
    BY <1>1, <1>8, ServingFrame, KillFrame, ClientFrame DEF Start, vars, server
  <2>2. QED BY <1>4, <2>1
<1>9. QED BY <1>5, <1>6, <1>7, <1>8, Steps

LEMMA ApplyingPreserved == IInv /\ [Next]_vars => ApplyingOK'
<1> SUFFICES ASSUME IInv, [Next]_vars PROVE ApplyingOK'
  OBVIOUS
<1>1. TypeOK /\ ApplyingOK
  BY DEF IInv
<1> USE DEF streams, clients
<1>2. CASE UNCHANGED <<cpc, creq>>
  BY <1>1, <1>2 DEF ApplyingOK
<1>3. ASSUME NEW c \in Clients, End(c) PROVE ApplyingOK'
  BY <1>1, <1>3 DEF ApplyingOK, End, TypeOK
<1>4. ASSUME NEW c \in Clients, Done(c) PROVE ApplyingOK'
  BY <1>1, <1>4 DEF ApplyingOK, Done, TypeOK
<1>5. ASSUME NEW c \in Clients, Start(c) \/ SendPid(c) PROVE ApplyingOK'
  BY <1>1, <1>3, <1>5 DEF ApplyingOK, Start, SendPid, TypeOK
<1>6. ASSUME NEW c \in Clients, InstallHandlers(c) \/ Read(c) PROVE ApplyingOK'
  BY <1>1, <1>6 DEF ApplyingOK, InstallHandlers, Read, TypeOK
<1>7. ASSUME NEW c \in Clients, Begin(c) PROVE ApplyingOK'
  <2>1. CASE /\ creq[c].op \in TableOps
             /\ cpc' = [cpc EXCEPT ![c] = "applying"] /\ UNCHANGED creq
    BY <1>1, <2>1 DEF ApplyingOK, TypeOK
  <2>2. QED BY <1>3, <1>4, <1>7, <2>1 DEF Begin
<1>8. ASSUME NEW c \in Clients,
             Show(c) \/ Finish(c) \/ Quit(c) \/ Interrupt(c) \/ Crash(c) \/ FlushHandler(c)
      PROVE  ApplyingOK'
  BY <1>2, <1>3, <1>4, <1>8 DEF Show, Finish, Quit, Interrupt, Crash, FlushHandler
<1>9. CASE Kill
  BY <1>2, <1>3, <1>9 DEF Kill
<1>10. CASE Serving \/ Accept \/ ReadClient \/ UNCHANGED vars
  <2>1. UNCHANGED <<cpc, creq>>
    BY <1>10, ServingFrame DEF Accept, ReadClient, vars
  <2>2. QED BY <1>2, <2>1
<1>11. QED
  BY <1>5, <1>6, <1>7, <1>8, <1>9, <1>10, Steps DEF Client, ClientStep

LEMMA SendingPreserved == IInv /\ [Next]_vars => SendingOK'
<1> SUFFICES ASSUME IInv, [Next]_vars PROVE SendingOK'
  OBVIOUS
<1>1. TypeOK /\ SendingOK
  BY DEF IInv
<1> USE DEF SendingOK
<1>2. CASE Accept
  <2>1. backlog # <<>> /\ backlog \in Seq(Clients)
    BY <1>1, <1>2 DEF Accept, TypeOK
  <2>2. Head(backlog) \in Clients
    BY <2>1, HeadTailProperties
  <2>3. QED BY <1>2, <2>2 DEF Accept
<1>3. CASE SendTable
  BY <1>1, <1>3 DEF SendTable, WriteTo
<1>4. CASE Store \/ Broadcast \/ SelectClients \/ QuitWrite \/ Kill \/ ReadClient \/ SigInt
  BY <1>4 DEF Store, Commit, BroadcastTo, Broadcast, SelectClients, QuitWrite, Kill,
              ReadClient, SigInt, Loop, WriteTo
<1>5. CASE Console
  BY <1>5 DEF Console, ConsoleEdit, ConsoleMac, ConsoleShow, ConsoleFlush,
              ConsoleNothing, ConsoleReads, Commit, BroadcastTo, Loop
<1>6. CASE Answer
  BY <1>6 DEF Answer, AnswerStored, AnswerRejected, AnswerBlank, BroadcastTo, Loop
<1>7. CASE UNCHANGED <<pc, outbox, data_socket>>
  BY <1>1, <1>7
<1>8. ASSUME NEW c \in Clients, Client(c) \/ Start(c) PROVE SendingOK'
  BY <1>1, <1>7, <1>8, ClientFrame DEF Start
<1>9. QED
  BY <1>2, <1>3, <1>4, <1>5, <1>6, <1>7, <1>8, Steps DEF Serving, vars, server

LEMMA PromptPreserved == IInv /\ [Next]_vars => PromptOK'
<1> SUFFICES ASSUME IInv, [Next]_vars PROVE PromptOK'
  OBVIOUS
<1>1. TypeOK /\ PromptOK
  BY DEF IInv
<1> USE DEF PromptOK
<1>2. CASE Accept \/ SendTable
  BY <1>2 DEF Accept, SendTable, WriteTo
<1>3. CASE Store \/ Broadcast \/ SelectClients \/ QuitWrite \/ Kill \/ ReadClient \/ SigInt
  BY <1>3 DEF Store, Commit, BroadcastTo, Broadcast, SelectClients, QuitWrite, Kill,
              ReadClient, SigInt, Loop, WriteTo
<1>4. CASE Console
  BY <1>4 DEF Console, ConsoleEdit, ConsoleMac, ConsoleShow, ConsoleFlush,
              ConsoleNothing, ConsoleReads, Commit, BroadcastTo, Loop
<1>5. CASE Answer
  BY <1>1, <1>5 DEF Answer, AnswerStored, AnswerRejected, AnswerBlank, BroadcastTo, Loop
<1>6. CASE UNCHANGED <<pc, req>>
  BY <1>1, <1>6 DEF NeedsIp
<1>7. ASSUME NEW c \in Clients, Client(c) \/ Start(c) PROVE PromptOK'
  BY <1>1, <1>6, <1>7, ClientFrame DEF Start
<1>8. QED
  BY <1>2, <1>3, <1>4, <1>5, <1>6, <1>7, Steps DEF Serving, vars, server

\* A client in a slot the server is about to read.
LEMMA ReadsReadable ==
  ASSUME IInv, ReadClient
  PROVE  /\ Lowest(todo) \in todo /\ monitor_fd_set[Lowest(todo)] \in Clients
         /\ Readable(monitor_fd_set[Lowest(todo)])
BY LowestIs DEF ReadClient, IInv, LoopOK, ClientSlots, TypeOK

LEMMA ZeroPreserved == IInv /\ [Next]_vars => ZeroOK'
<1> SUFFICES ASSUME IInv, [Next]_vars PROVE ZeroOK'
  OBVIOUS
<1>1. TypeOK /\ ZeroOK /\ SlotArraysSound /\ Onward
  BY CpcGoesOn DEF IInv
<1>2. AnyGone => AnyGone'
  BY <1>1 DEF AnyGone, Onward
<1>3. CASE UNCHANGED client_pid_set
  BY <1>1, <1>2, <1>3 DEF ZeroOK, Holds
<1>4. CASE ReadClient
  <2> DEFINE c == monitor_fd_set[Lowest(todo)]
             p == IF up[c] # <<>> THEN Head(up[c]) ELSE ZeroPid
             a == AddTo(client_pid_set, NoPid, p)
             b == RemoveFrom(client_pid_set, NoPid, p)
             PidMarks == Pids \cup {NoPid, ZeroPid}
  <2>1. c \in Clients /\ Readable(c)
    BY <1>4, ReadsReadable
  <2>2. \/ UNCHANGED client_pid_set
        \/ ~ Holds(client_pid_set, p) /\ client_pid_set' = a
        \/ client_pid_set' = b
    BY <1>4 DEF ReadClient, check_available_pid, add_to_pid_set
  <2>3. /\ client_pid_set \in [1..MAX_CLIENTS_SUPPORT -> PidMarks]
        /\ MAX_CLIENTS_SUPPORT \in Nat /\ NoPid \in PidMarks
    BY <1>1, SlotsFacts DEF TypeOK
  <2>4. p \in PidMarks /\ p # NoPid /\ (p = ZeroPid => up[c] = <<>>)
    BY <1>1, <2>1, HeadTailProperties, ClientAssumption DEF TypeOK
  <2>5. p = ZeroPid => AnyGone
    BY <2>1, <2>4 DEF Readable, AnyGone
  <2> HIDE DEF c, p, PidMarks
  <2>6. CASE ~ Holds(client_pid_set, p) /\ client_pid_set' = a
    <3>1. a \in [1..MAX_CLIENTS_SUPPORT -> PidMarks]
      BY <2>3, <2>4, AddToIs
    <3>2. \A i \in 1..MAX_CLIENTS_SUPPORT : a[i] \in {client_pid_set[i], p}
      BY <1>1, <2>3, <2>4, <2>6, AddToSound DEF SlotArraysSound
    <3> HIDE DEF a
    <3>3. Holds(a, ZeroPid) => Holds(client_pid_set, ZeroPid) \/ p = ZeroPid
      BY <2>3, <3>1, <3>2 DEF Holds
    <3>4. QED BY <1>1, <1>2, <2>5, <2>6, <3>3 DEF ZeroOK
  <2>7. CASE client_pid_set' = b
    <3>1. b \in [1..MAX_CLIENTS_SUPPORT -> PidMarks]
      BY <2>3, RemoveFromIs
    <3>2. \A i \in 1..MAX_CLIENTS_SUPPORT : b[i] \in {client_pid_set[i], NoPid}
      BY <1>1, <2>3, <2>4, RemoveFromFrees DEF SlotArraysSound
    <3> HIDE DEF b
    <3>3. Holds(b, ZeroPid) => Holds(client_pid_set, ZeroPid)
      BY <2>3, <3>1, <3>2, ClientAssumption DEF Holds
    <3>4. QED BY <1>1, <1>2, <2>7, <3>3 DEF ZeroOK
  <2>8. QED BY <1>3, <2>2, <2>6, <2>7
<1>5. CASE Accept \/ Serving \/ Kill \/ UNCHANGED vars \/ \E c \in Clients : Client(c) \/ Start(c)
  <2>1. UNCHANGED client_pid_set
    BY <1>1, <1>5, ServingFrame, KillFrame, ClientFrame DEF Accept, Start, vars, server
  <2>2. QED BY <1>3, <2>1
<1>6. QED BY <1>4, <1>5, Steps

LEMMA CausePreserved == IInv /\ [Next]_vars => ServerEndHasACause'
<1> SUFFICES ASSUME IInv, [Next]_vars PROVE ServerEndHasACause'
  OBVIOUS
<1>1. TypeOK /\ ServerEndHasACause /\ Onward
  BY CpcGoesOn DEF IInv
<1>2. AnyGone => AnyGone'
  BY <1>1 DEF AnyGone, Onward
<1> DEFINE C == (pc \in {"sigpipe", "econnreset", "sigusr1"} => AnyGone) /\ pc # "sigbus"
<1>3. C /\ (ServerEndHasACause' <=> C')
  BY <1>1 DEF ServerEndHasACause, AnyGone
<1>4. SUFFICES C'
  BY <1>3
<1>5. CASE UNCHANGED pc
  BY <1>2, <1>3, <1>5
<1>7. CASE Accept
  BY <1>3, <1>7 DEF Accept
<1>8. CASE SendTable
  BY <1>2, <1>8 DEF SendTable, WriteTo, AnyGone, IInv, SendingOK
<1>9. CASE Broadcast \/ QuitWrite
  <2> DEFINE c == monitor_fd_set[Lowest(todo)]
  <2>1. c \in Clients
    BY <1>1, <1>9, LowestIs DEF Broadcast, QuitWrite, IInv, LoopOK, ClientSlots, TypeOK
  <2>2. \/ cpc[c] = "gone" /\ pc' = "sigpipe"
        \/ pc' \in {"bcast", "select", "quit", "exited"}
    BY <1>9 DEF Broadcast, QuitWrite, WriteTo, BroadcastTo, Loop
  <2> HIDE DEF c
  <2>3. QED BY <1>2, <2>1, <2>2 DEF AnyGone
<1>10. CASE Kill
  <2> DEFINE i == Lowest(todo)
  <2>1. i \in DOMAIN client_pid_set
    BY <1>1, <1>10, LowestIs DEF Kill, IInv, LoopOK, TypeOK
  <2>2. (client_pid_set[i] = ZeroPid /\ pc' = "sigusr1") \/ pc' \in {"kill", "select"}
    BY <1>10 DEF Kill, Loop
  <2> HIDE DEF i
  <2>3. QED BY <1>2, <2>1, <2>2 DEF IInv, ZeroOK, Holds
<1>11. CASE ReadClient
  <2> DEFINE c == monitor_fd_set[Lowest(todo)]
  <2>1. c \in Clients /\ Readable(c)
    BY <1>11, ReadsReadable
  <2>2. (up[c] = <<>> /\ pc' = "econnreset") \/ pc' \in {"clients", "select"}
    BY <1>11 DEF ReadClient, Loop
  <2> HIDE DEF c
  <2>3. QED BY <1>2, <2>1, <2>2 DEF Readable, AnyGone
<1>12. ASSUME NEW r \in Inputs, ConsoleShow(r) PROVE C'
  <2>1. \A i \in 1..Len(tables.mac) : ip_shm[tables.mac[i]] = "ip"
    BY <1>12 DEF ConsoleShow, ConsoleReads, IInv, ShmOK, Stopped
  <2>2. ShowOk(tables)
    BY <2>1 DEF ShowOk
  <2>3. QED BY <1>12, <2>2 DEF ConsoleShow, BroadcastTo, Loop
<1>13. CASE \E r \in Inputs : ConsoleEdit(r) \/ ConsoleMac(r) \/ ConsoleFlush(r) \/ ConsoleNothing(r)
  BY <1>2, <1>3, <1>13 DEF ConsoleEdit, ConsoleMac, ConsoleFlush, ConsoleNothing, Commit,
                    BroadcastTo, Loop
<1>14. CASE Store \/ Answer \/ SelectClients \/ SigInt
  BY <1>14 DEF Store, Answer, AnswerStored, AnswerRejected, AnswerBlank, Commit,
               BroadcastTo, SelectClients, SigInt, Loop
<1>15. ASSUME NEW c \in Clients, Client(c) \/ Start(c) PROVE C'
  BY <1>1, <1>5, <1>15, ClientFrame DEF Start
<1>16. QED
  BY <1>5, <1>7, <1>8, <1>9, <1>10, <1>11, <1>12, <1>13, <1>14, <1>15, Steps
     DEF Serving, Console, vars, server

\* A loop over some of the monitored clients' slots is one.
LEMMA LoopStarts ==
  ASSUME NEW p, NEW S, NEW done, Loop(p, S, done), S \subseteq ClientSlots,
         done \notin {"bcast", "kill", "clients", "quit"}, p # "clients",
         UNCHANGED monitor_fd_set
  PROVE  LoopOK'
BY DEF Loop, LoopOK, ClientSlots

LEMMA LoopPreserved == IInv /\ [Next]_vars => LoopOK'
<1> SUFFICES ASSUME IInv, [Next]_vars PROVE LoopOK'
  OBVIOUS
<1>1. TypeOK /\ LoopOK /\ SlotArraysSound /\ Onward
  BY CpcGoesOn DEF IInv
<1>2. CASE pc' \notin {"bcast", "kill", "clients", "quit"}
  BY <1>2 DEF LoopOK
<1>3. CASE UNCHANGED <<pc, todo, monitor_fd_set>> /\ \A d \in Clients : up[d] # <<>> => up'[d] # <<>>
  BY <1>1, <1>3 DEF LoopOK, ClientSlots, Readable, Onward
<1>4. CASE Accept \/ SendTable
  BY <1>2, <1>4 DEF Accept, SendTable, WriteTo
<1>5. CASE Store \/ AnswerBlank
  BY <1>5, LoopStarts DEF Store, AnswerBlank, Commit, BroadcastTo
<1>6. CASE AnswerStored \/ AnswerRejected
  BY <1>2, <1>6 DEF AnswerStored, AnswerRejected
<1>7. CASE SigInt
  BY <1>7, LoopStarts DEF SigInt
<1>8. CASE Broadcast
  <2> DEFINE i == Lowest(todo)
  <2>1. todo \ {i} \subseteq ClientSlots /\ UNCHANGED monitor_fd_set
    BY <1>1, <1>8 DEF Broadcast, LoopOK
  <2>2. pc' = "sigpipe" \/ Loop("bcast", todo \ {i}, "select")
    BY <1>8 DEF Broadcast, WriteTo, BroadcastTo
  <2> HIDE DEF i
  <2>3. QED BY <1>2, <2>1, <2>2, LoopStarts
<1>9. CASE QuitWrite
  <2> DEFINE i == Lowest(todo)
  <2>1. todo \ {i} \subseteq ClientSlots /\ UNCHANGED monitor_fd_set
    BY <1>1, <1>9 DEF QuitWrite, LoopOK
  <2>2. pc' = "sigpipe" \/ Loop("quit", todo \ {i}, "exited")
    BY <1>9 DEF QuitWrite, WriteTo
  <2> HIDE DEF i
  <2>3. QED BY <1>2, <2>1, <2>2, LoopStarts
<1>10. CASE Kill
  <2> DEFINE i == Lowest(todo)
  <2>1. pc' = "sigusr1" \/ Loop("kill", todo \ {i}, "select")
    BY <1>10 DEF Kill
  <2> HIDE DEF i
  <2>2. QED BY <2>1 DEF LoopOK, Loop
<1>11. CASE SelectClients
  BY <1>11 DEF SelectClients, LoopOK, Loop, Readable, streams, clients, ClientSlots
<1>12. CASE ReadClient
  <2> DEFINE i == Lowest(todo)
             c == monitor_fd_set[i]
             m == RemoveFrom(monitor_fd_set, NoFd, c)
             Fds == Clients \cup {Stdin, Master, NoFd}
  <2>1. i \in todo /\ c \in Clients /\ todo \subseteq ClientSlots
        /\ \A j \in todo : Readable(monitor_fd_set[j])
    BY <1>1, <1>12, ReadsReadable DEF ReadClient, LoopOK
  <2>2. /\ monitor_fd_set \in [1..MAX_CLIENTS_SUPPORT -> Fds]
        /\ MAX_CLIENTS_SUPPORT \in Nat /\ NoFd \in Fds /\ Slots = 1..MAX_CLIENTS_SUPPORT
        /\ up \in [Clients -> Seq(Pids)]
        /\ Distinct(monitor_fd_set, NoFd)
    BY <1>1, SlotsFacts DEF TypeOK, SlotArraysSound
  <2>3. c # NoFd
    BY <2>1, ClientAssumption
  <2>4. /\ monitor_fd_set' = monitor_fd_set \/ monitor_fd_set' = m
        /\ \/ pc' = "econnreset"
           \/ Loop("clients", todo \ {i}, "select") /\ up' = [up EXCEPT ![c] = <<>>]
        /\ UNCHANGED cpc
    BY <1>12 DEF ReadClient, clients
  <2>5. ASSUME NEW j \in todo \ {i}
        PROVE  /\ monitor_fd_set[j] \in Clients /\ monitor_fd_set[j] # c
               /\ monitor_fd_set'[j] = monitor_fd_set[j]
    <3>1. /\ j \in 1..MAX_CLIENTS_SUPPORT /\ i \in 1..MAX_CLIENTS_SUPPORT /\ j # i
          /\ monitor_fd_set[j] \in Clients
      BY <2>1, <2>2 DEF ClientSlots
    <3>2. monitor_fd_set[j] # c
      BY <2>2, <2>3, <3>1 DEF Distinct
    <3> HIDE DEF c, Fds
    <3>3. m[j] = monitor_fd_set[j]
      <4>1. DOMAIN monitor_fd_set = 1..MAX_CLIENTS_SUPPORT /\ MAX_CLIENTS_SUPPORT \in Nat
        BY <2>2
      <4>2. QED BY <3>1, <3>2, <4>1, RemoveFromKeeps
    <3> HIDE DEF m
    <3>4. QED BY <2>4, <3>1, <3>2, <3>3
  <2>6. CASE pc' = "econnreset"
    BY <1>2, <2>6
  <2>7. CASE Loop("clients", todo \ {i}, "select") /\ up' = [up EXCEPT ![c] = <<>>]
    <3> HIDE DEF i, c, m
    <3>1. todo' = todo \ {i} /\ pc' \in {"clients", "select"}
          /\ (pc' = "clients" => todo' # {})
      BY <2>7 DEF Loop
    <3>2. todo' \subseteq ClientSlots'
      BY <2>1, <2>5, <3>1 DEF ClientSlots
    <3>3. \A j \in todo' : Readable(monitor_fd_set[j])'
      BY <2>1, <2>2, <2>4, <2>5, <2>7, <3>1 DEF Readable
    <3>4. QED BY <3>1, <3>2, <3>3 DEF LoopOK
  <2>8. QED BY <2>4, <2>6, <2>7
<1>13. CASE \E r \in Inputs : ConsoleEdit(r) \/ ConsoleShow(r)
  <2>1. /\ UNCHANGED monitor_fd_set
        /\ pc = "select"
        /\ pc' \in {"select", "sigbus"} \/ Loop("bcast", ClientSlots, "select")
    BY <1>13 DEF ConsoleEdit, ConsoleShow, ConsoleReads, Commit, BroadcastTo
  <2>2. QED BY <1>2, <2>1, LoopStarts
<1>14. CASE \E r \in Inputs : ConsoleMac(r) \/ ConsoleNothing(r)
  BY <1>2, <1>14 DEF ConsoleMac, ConsoleNothing, ConsoleReads
<1>15. CASE \E r \in Inputs : ConsoleFlush(r)
  BY <1>15 DEF ConsoleFlush, Loop, LoopOK
<1>16. ASSUME NEW c \in Clients, Client(c) \/ Start(c) PROVE LoopOK'
  BY <1>1, <1>3, <1>16, ClientFrame DEF Start, streams
<1>17. CASE UNCHANGED vars
  BY <1>3, <1>17 DEF vars, server, streams
<1>18. QED
  BY <1>4, <1>5, <1>6, <1>7, <1>8, <1>9, <1>10, <1>11, <1>12, <1>13, <1>14, <1>15,
     <1>16, <1>17, Steps DEF Serving, Console, Answer

\* A change of the tables lists no MAC address but the one of a CREATE request.
LEMMA ChangeMacs ==
  ASSUME NEW t \in Tables, NEW r \in Requests, r.op \in TableOps,
         NEW i \in 1..Len(Change(t, r).mac)
  PROVE  \/ \E k \in 1..Len(t.mac) : Change(t, r).mac[i] = t.mac[k]
         \/ NeedsIp(r) /\ Change(t, r).mac[i] = r.mac
<1>1. t.mac \in Seq(Macs) /\ r.mac \in Macs
  BY DEF Tables, Requests
<1>2. CASE r.tbl = "MAC"
  <2> DEFINE s == EditMacs(t.mac, r.mac, r.op)
  <2>1. Change(t, r).mac = s
    BY <1>2 DEF Change, Tables
  <2>2. \A j \in 1..Len(s) : \/ \E k \in 1..Len(t.mac) : s[j] = t.mac[k]
                             \/ r.op = "CREATE" /\ s[j] = r.mac
    BY <1>1, EditMacsType
  <2> HIDE DEF s
  <2>3. QED BY <1>2, <2>1, <2>2 DEF NeedsIp
<1>3. CASE r.tbl # "MAC"
  <2>1. Change(t, r).mac = t.mac
    BY <1>3 DEF Change, Tables
  <2>2. QED BY <2>1
<1>4. QED BY <1>2, <1>3

LEMMA ShmPreserved == IInv /\ [Next]_vars => ShmOK'
<1> SUFFICES ASSUME IInv, [Next]_vars PROVE ShmOK'
  OBVIOUS
<1>1. TypeOK /\ ShmOK /\ PromptOK
  BY DEF IInv
<1>2. /\ tables.mac \in Seq(Macs) /\ Len(tables.mac) \in Nat
      /\ \A i \in 1..Len(tables.mac) : tables.mac[i] \in Macs
  BY <1>1, LenProperties, ElementOfSeq DEF TypeOK, Tables
<1>3. CASE pc' \in Stopped \cup {"quit"}
  BY <1>3 DEF ShmOK
<1> DEFINE Kept == \A m \in Macs : ip_shm[m] = "ip" => ip_shm'[m] = "ip"
\* The server was not in the middle of storing an IP, the list is the same.
<1>4. CASE /\ pc \notin Stopped \cup {"quit", "store"}
           /\ UNCHANGED tables /\ Kept
  BY <1>1, <1>2, <1>4 DEF ShmOK
<1>5. CASE UNCHANGED <<pc, tables, req>> /\ Kept
  BY <1>1, <1>2, <1>5 DEF ShmOK
<1>6. ASSUME NEW r \in Inputs, ConsoleShow(r) PROVE ShmOK'
  <2>1. Kept
    BY <1>6 DEF ConsoleShow, ShowOpens
  <2>2. QED BY <1>4, <1>6, <2>1 DEF ConsoleShow, ConsoleReads, Stopped
<1>7. CASE AnswerStored
  <2>1. pc = "prompt" /\ pc' = "store" /\ UNCHANGED <<tables, req>>
        /\ ip_shm' = [ip_shm EXCEPT ![req.mac] = "empty"]
    BY <1>7 DEF AnswerStored
  <2>2. ASSUME NEW i \in 1..Len(tables.mac), tables.mac[i] # req.mac
        PROVE  ip_shm'[tables.mac[i]] = "ip"
    BY <1>1, <1>2, <2>1, <2>2 DEF ShmOK, Stopped, TypeOK
  <2>3. QED BY <2>1, <2>2 DEF ShmOK
<1>8. CASE Store
  <2>1. /\ pc = "store" /\ tables' = Change(tables, req) /\ NeedsIp(req)
        /\ ip_shm' = [ip_shm EXCEPT ![req.mac] = "ip"]
        /\ ip_shm \in [Macs -> {"absent", "empty", "ip"}]
        /\ req \in Requests /\ req.mac \in Macs /\ req.op \in TableOps /\ tables \in Tables
    BY <1>1, <1>8 DEF Store, Commit, PromptOK, TypeOK, Requests, NeedsIp, TableOps
  <2>2. ASSUME NEW i \in 1..Len(tables'.mac)
        PROVE  ip_shm'[tables'.mac[i]] = "ip"
    <3>1. CASE tables'.mac[i] = req.mac
      BY <2>1, <3>1
    <3>2. CASE tables'.mac[i] # req.mac
      <4>1. PICK k \in 1..Len(tables.mac) : tables'.mac[i] = tables.mac[k]
        BY <2>1, <3>2, ChangeMacs
      <4>2. ip_shm[tables.mac[k]] = "ip" /\ tables.mac[k] \in Macs
        BY <1>1, <1>2, <2>1, <3>2, <4>1 DEF ShmOK, Stopped
      <4>3. QED BY <2>1, <3>2, <4>1, <4>2
    <3>3. QED BY <3>1, <3>2
  <2>3. QED BY <2>2 DEF ShmOK
<1>9. UNCHANGED ip_shm => Kept
  OBVIOUS
<1>10. CASE Accept \/ SendTable \/ Broadcast \/ SelectClients \/ Kill \/ ReadClient
  BY <1>4, <1>9, <1>10 DEF Accept, SendTable, Broadcast, SelectClients, Kill, ReadClient, Stopped
<1>11. CASE QuitWrite \/ SigInt
  BY <1>3, <1>11 DEF QuitWrite, SigInt, WriteTo, Loop, Stopped
<1>12. CASE AnswerRejected \/ AnswerBlank
  BY <1>4, <1>9, <1>12 DEF AnswerRejected, AnswerBlank, Stopped
<1>13. CASE \E r \in Inputs : ConsoleMac(r) \/ ConsoleNothing(r)
  BY <1>4, <1>9, <1>13 DEF ConsoleMac, ConsoleNothing, ConsoleReads, Stopped
<1>14. CASE \E r \in Inputs : ConsoleFlush(r)
  BY <1>14 DEF ConsoleFlush, ShmOK, EmptyTables, flush_mac_info
<1>15. ASSUME NEW r \in Inputs, ConsoleEdit(r) PROVE ShmOK'
  <2>1. CASE UNCHANGED tables
    BY <1>4, <1>9, <1>15, <2>1 DEF ConsoleEdit, ConsoleReads, Stopped
  <2>2. CASE tables' = Change(tables, r)
    <3>1. /\ r \in Requests /\ r.op \in TableOps /\ ~ NeedsIp(r) /\ tables \in Tables
          /\ pc = "select"
      BY <1>1, <1>15, InputAssumption DEF ConsoleEdit, ConsoleReads, TypeOK
    <3>2. ASSUME NEW i \in 1..Len(tables'.mac)
          PROVE  ip_shm'[tables'.mac[i]] = "ip"
      <4>1. PICK k \in 1..Len(tables.mac) : tables'.mac[i] = tables.mac[k]
        BY <2>2, <3>1, ChangeMacs
      <4>2. ip_shm[tables.mac[k]] = "ip"
        BY <1>1, <3>1 DEF ShmOK, Stopped
      <4>3. QED BY <1>15, <4>1, <4>2 DEF ConsoleEdit
    <3>3. QED BY <3>2 DEF ShmOK
  <2>3. QED BY <1>15, <2>1, <2>2 DEF ConsoleEdit, Commit
<1>16. ASSUME NEW c \in Clients, Client(c) \/ Start(c) PROVE ShmOK'
  BY <1>1, <1>5, <1>9, <1>16, ClientFrame DEF Start
<1>17. CASE UNCHANGED vars
  BY <1>5, <1>9, <1>17 DEF vars, server
<1>18. QED
  BY <1>6, <1>7, <1>8, <1>10, <1>11, <1>12, <1>13, <1>14, <1>15, <1>16, <1>17, Steps
     DEF Serving, Console, Answer

-----------------------------------------------------------------------------
(* The invariant.                                                          *)
\* The two AddTo calls of server.c:85-86 put stdin and the master socket into the
\* first two slots.
LEMMA InitIInv == Init => IInv
<1> SUFFICES ASSUME Init PROVE IInv
  OBVIOUS
<1> DEFINE Fds == Clients \cup {Stdin, Master, NoFd}
           free == AllFree(Slots, NoFd)
           one == AddTo(free, NoFd, Stdin)
           two == AddTo(one, NoFd, Master)
<1>1. /\ MAX_CLIENTS_SUPPORT \in Nat /\ 1 \in Slots /\ 2 \in Slots
      /\ Slots = 1..MAX_CLIENTS_SUPPORT
      /\ Stdin # NoFd /\ Master # NoFd /\ Stdin # Master
      /\ Stdin \in Fds /\ Master \in Fds /\ Stdin \notin Clients /\ Master \notin Clients
      /\ NoFd \notin Clients
  BY BoundAssumption, ClientAssumption DEF Slots
<1>2. /\ free \in [Slots -> Fds] /\ Holds(free, NoFd) /\ Distinct(free, NoFd)
      /\ \A i \in Slots : free[i] = NoFd
      /\ ~ Holds(free, Stdin) /\ ~ Holds(free, Master)
  BY <1>1 DEF AllFree, Holds, Distinct
<1> HIDE DEF free, Fds
<1>3. PICK k \in Slots : one = [free EXCEPT ![k] = Stdin]
  <2>1. FirstSlot(free, NoFd) \in Slots
    BY <1>1, <1>2, FirstSlotIs
  <2>2. QED BY <1>2, <2>1 DEF AddTo
<1> HIDE DEF one
<1>4. /\ one \in [Slots -> Fds] /\ Distinct(one, NoFd)
      /\ \A i \in Slots : one[i] = IF i = k THEN Stdin ELSE NoFd
      /\ one[k] = Stdin
  BY <1>1, <1>2, <1>3 DEF Distinct
<1>5. \E i \in Slots : i # k /\ one[i] = NoFd
  BY <1>1, <1>4
<1>6. Holds(one, NoFd) /\ Holds(one, Stdin) /\ ~ Holds(one, Master)
  BY <1>1, <1>4, <1>5 DEF Holds
<1>7. PICK l \in Slots : one[l] = NoFd /\ two = [one EXCEPT ![l] = Master]
  <2>1. FirstSlot(one, NoFd) \in Slots /\ one[FirstSlot(one, NoFd)] = NoFd
    BY <1>1, <1>4, <1>6, FirstSlotIs
  <2>2. QED BY <1>6, <2>1 DEF AddTo
<1> HIDE DEF two
<1>8. /\ two \in [Slots -> Fds] /\ Distinct(two, NoFd)
      /\ \A i \in Slots : two[i] = IF i = l THEN Master ELSE one[i]
      /\ l # k /\ two[l] = Master /\ two[k] = Stdin
  BY <1>1, <1>4, <1>7 DEF Distinct
<1>9. Holds(two, Stdin) /\ Holds(two, Master) /\ \A i \in Slots : two[i] \notin Clients
  BY <1>1, <1>4, <1>8 DEF Holds
<1>10. monitor_fd_set = two
  BY DEF Init, two, one, free, init_monitor_fd_set
<1>11. SlotArraysSound /\ ZeroOK
  <2>1. \A i \in Slots : client_pid_set[i] = NoPid /\ DOMAIN client_pid_set = Slots
    BY DEF Init, init_client_pid_set, AllFree
  <2>2. Distinct(client_pid_set, NoPid)
    BY <2>1 DEF Distinct, Init, init_client_pid_set, AllFree
  <2>3. ~ Holds(client_pid_set, ZeroPid)
    BY <2>1, ClientAssumption DEF Holds, Init, init_client_pid_set, AllFree
  <2>4. QED BY <1>8, <1>9, <1>10, <2>2, <2>3 DEF SlotArraysSound, ZeroOK, ClientSlots
<1>12. TypeOK
  <2>1. client_pid_set \in [Slots -> Pids \cup {NoPid, ZeroPid}]
    BY DEF Init, init_client_pid_set, AllFree
  <2>2. monitor_fd_set \in [Slots -> Clients \cup {Stdin, Master, NoFd}]
    BY <1>8, <1>10 DEF Fds
  <2>3. /\ pc \in ServerPcs /\ tables \in Tables /\ todo \in SUBSET Slots
        /\ req \in Requests /\ data_socket \in Clients \cup {NoFd}
        /\ outbox \in Seq(Requests) /\ open_fds \in SUBSET Clients
        /\ backlog \in Seq(Clients) /\ outOfStep \in SUBSET Clients
        /\ inputs \in 0..MaxInputs
    BY RequestTypes, EmptyTablesType, BoundAssumption DEF Init, ServerPcs
  <2>4. /\ ip_shm \in [Macs -> {"absent", "empty", "ip"}]
        /\ sig \in [Clients -> BOOLEAN] /\ dangling \in [Clients -> BOOLEAN]
        /\ cpc \in [Clients -> ClientPcs]
    BY DEF Init, ClientPcs
  <2>5. /\ down \in [Clients -> Seq(Requests)] /\ up \in [Clients -> Seq(Pids)]
    BY DEF Init
  <2>6. copy \in [Clients -> Tables] /\ creq \in [Clients -> Requests]
    BY RequestTypes, EmptyTablesType DEF Init
  <2>7. QED BY <2>1, <2>2, <2>3, <2>4, <2>5, <2>6 DEF TypeOK
<1>13. LoopOK /\ SendingOK /\ PromptOK /\ ApplyingOK /\ BacklogOK /\ ServerEndHasACause
  BY DEF Init, LoopOK, SendingOK, PromptOK, ApplyingOK, BacklogOK, ServerEndHasACause
<1>14. ShmOK
  BY DEF Init, ShmOK, EmptyTables, flush_mac_info
<1>15. QED BY <1>11, <1>12, <1>13, <1>14 DEF IInv

\* What every reachable state satisfies.
THEOREM Invariance == Spec => []IInv
<1>1. Init => IInv
  BY InitIInv
<1>2. IInv /\ [Next]_vars => IInv'
  BY TypePreserved, LoopPreserved, SendingPreserved, PromptPreserved, ApplyingPreserved,
     BacklogPreserved, SlotsPreserved, ZeroPreserved, ShmPreserved, CausePreserved
     DEF IInv
<1>3. QED BY <1>1, <1>2, PTL DEF Spec

\* Every variable keeps its type: in particular no list operation is called with
\* a request that is not one of the table's (server.c:148-224, client.c:81-137).
THEOREM TypeCorrect == Spec => []TypeOK
<1>1. IInv => TypeOK
  BY DEF IInv
<1>2. QED BY <1>1, Invariance, PTL

\* The slot arrays of common.c:22-95 stay without duplicates and keep the console
\* and the master socket, for any number of clients and slots.
THEOREM SlotsSound == Spec => []SlotArraysSound
<1>1. IInv => SlotArraysSound
  BY DEF IInv
<1>2. QED BY <1>1, Invariance, PTL

\* Only the end of a client can end the server, and its SHOW never maps an empty
\* object (server.c:231, 251-254, 218; common_mac.c:308).
THEOREM EndsHaveACause == Spec => []ServerEndHasACause
<1>1. IInv => ServerEndHasACause
  BY DEF IInv
<1>2. QED BY <1>1, Invariance, PTL

-----------------------------------------------------------------------------
(* The flush of a client at rest.                                          *)
\* The server has neither written to nor read from a client it has not accepted.
UnservedWaits ==
  \A c \in Clients : c \notin open_fds /\ Up => down[c] = <<>> /\ cpc[c] \notin {"got", "applying"}

\* A client in step is signalled at rest and gets nothing while the server goes
\* through client_pid_set, so that its handler runs between two requests.
SignalledAtRest ==
  \A c \in Clients \ outOfStep :
    /\ ~ dangling[c]
    /\ sig[c] => cpc[c] \in {"idle", "gone"}
    /\ pc = "kill" /\ c \in open_fds => cpc[c] = "gone" \/ (cpc[c] = "idle" /\ down[c] = <<>>)

FlushInv ==
  /\ UnservedWaits /\ SignalledAtRest
  /\ pc = "sendtab" => data_socket \in open_fds

\* Only accepted clients are written to, and the loop of signals starts with every
\* client in step at rest.
LEMMA ServingWrites ==
  ASSUME IInv, FlushInv, Serving
  PROVE  /\ \A c \in Clients \ open_fds : down'[c] = down[c]
         /\ Up' => Up
         /\ pc' = "sendtab" => pc = "sendtab" /\ UNCHANGED data_socket
         /\ outOfStep \subseteq outOfStep'
         /\ pc' = "kill" => \A c \in open_fds \ outOfStep' : cpc[c] = "idle" /\ down'[c] = <<>>
<1>1. TypeOK /\ LoopOK /\ SlotArraysSound /\ SendingOK
  BY DEF IInv
<1>2. ASSUME NEW c \in open_fds, NEW r, NEW next, WriteTo(c, r, next)
      PROVE  \A d \in Clients \ open_fds : down'[d] = down[d]
  BY <1>1, <1>2 DEF WriteTo, Deliver, TypeOK
<1>3. pc \in {"bcast", "quit"} => monitor_fd_set[Lowest(todo)] \in open_fds
  BY <1>1, LowestIs DEF TypeOK, LoopOK, SlotArraysSound
<1> USE DEF Up, Stopped, streams
<1>4. CASE SendTable
  <2>1. \A d \in Clients \ open_fds : down'[d] = down[d]
    BY <1>2, <1>4 DEF SendTable, FlushInv
  <2>2. /\ pc = "sendtab" /\ pc' \in {"sigpipe", "select", "sendtab"} /\ UNCHANGED outOfStep
        /\ pc' = "sendtab" => UNCHANGED data_socket
    BY <1>4 DEF SendTable, WriteTo
  <2>3. QED BY <2>1, <2>2
<1>5. CASE Broadcast \/ QuitWrite
  <2>1. \A d \in Clients \ open_fds : down'[d] = down[d]
    BY <1>2, <1>3, <1>5 DEF Broadcast, QuitWrite
  <2>2. /\ pc \in {"bcast", "quit"} /\ UNCHANGED outOfStep
        /\ pc' \in {"sigpipe", "select", "bcast"} \/ (pc = "quit" /\ pc' \in {"exited", "quit"})
    BY <1>5 DEF Broadcast, QuitWrite, WriteTo, BroadcastTo, Loop
  <2>3. QED BY <2>1, <2>2
<1>6. CASE Store \/ SelectClients \/ SigInt \/ Answer
  <2>1. UNCHANGED down /\ Up /\ outOfStep \subseteq outOfStep'
    BY <1>6 DEF Store, SelectClients, SigInt, Answer, AnswerStored, AnswerRejected, AnswerBlank
  <2>2. pc' \notin {"sendtab", "kill"}
    BY <1>6 DEF Store, SelectClients, SigInt, Answer, AnswerStored, AnswerRejected,
                AnswerBlank, Commit, BroadcastTo, Loop
  <2>3. QED BY <2>1, <2>2
<1>7. ASSUME NEW r \in Inputs, ConsoleFlush(r)
      PROVE  /\ UNCHANGED down /\ pc = "select" /\ pc' \in {"kill", "select"}
             /\ outOfStep' = outOfStep \cup {c \in open_fds : ~ AtRest(c)}
  BY <1>7 DEF ConsoleFlush, ConsoleReads, Loop
<1>8. CASE \E r \in Inputs : ConsoleFlush(r)
  BY <1>7, <1>8 DEF AtRest
<1>9. CASE \E r \in Inputs : ConsoleEdit(r) \/ ConsoleMac(r) \/ ConsoleShow(r) \/ ConsoleNothing(r)
  <2>1. UNCHANGED <<down, outOfStep>> /\ pc = "select"
    BY <1>9 DEF ConsoleEdit, ConsoleMac, ConsoleShow, ConsoleNothing, ConsoleReads
  <2>2. pc' \notin {"sendtab", "kill"}
    BY <1>9 DEF ConsoleEdit, ConsoleMac, ConsoleShow, ConsoleNothing, ConsoleReads, Commit,
                BroadcastTo, Loop
  <2>3. QED BY <2>1, <2>2
<1>10. QED BY <1>4, <1>5, <1>6, <1>8, <1>9 DEF Serving, Console

\* A client reads only without a signal pending and, of a server that has not
\* accepted it, nothing; its handler leaves a dangling head only in "applying".
LEMMA ClientRests ==
  ASSUME TypeOK, FlushInv, NEW c \in Clients, Client(c)
  PROVE  /\ \A d \in Clients \ {c} : cpc'[d] = cpc[d] /\ down'[d] = down[d]
                                     /\ sig'[d] = sig[d] /\ dangling'[d] = dangling[d]
         /\ c \notin open_fds /\ Up => down'[c] = <<>> /\ cpc'[c] \notin {"got", "applying"}
         /\ c \notin outOfStep =>
              /\ ~ dangling'[c]
              /\ sig'[c] => cpc'[c] \in {"idle", "gone"}
              /\ pc = "kill" /\ c \in open_fds =>
                   cpc'[c] = "gone" \/ (cpc'[c] = "idle" /\ down'[c] = <<>>)
         /\ UNCHANGED outOfStep
<1>1. /\ c \notin open_fds /\ Up => down[c] = <<>> /\ cpc[c] \notin {"got", "applying"}
      /\ c \notin outOfStep =>
           /\ ~ dangling[c]
           /\ sig[c] => cpc[c] \in {"idle", "gone"}
           /\ pc = "kill" /\ c \in open_fds =>
                cpc[c] = "gone" \/ (cpc[c] = "idle" /\ down[c] = <<>>)
  BY DEF FlushInv, UnservedWaits, SignalledAtRest
<1>2. /\ cpc \in [Clients -> ClientPcs] /\ sig \in [Clients -> BOOLEAN]
      /\ dangling \in [Clients -> BOOLEAN] /\ down \in [Clients -> Seq(Requests)]
  BY DEF TypeOK
<1>3. pc = "kill" => Up
  BY DEF Up, Stopped
<1> USE DEF server, streams, clients
<1>4. CASE Interrupt(c) \/ Crash(c) \/ Quit(c)
  BY <1>1, <1>2, <1>4 DEF Interrupt, Crash, Quit, End, Alive
<1>5. CASE SendPid(c) \/ InstallHandlers(c)
  BY <1>1, <1>2, <1>5 DEF SendPid, InstallHandlers, End
<1>6. CASE Read(c)
  BY <1>1, <1>2, <1>3, <1>6 DEF Read
<1>7. CASE Begin(c)
  BY <1>1, <1>2, <1>7 DEF Begin, End, Done
<1>8. CASE Show(c)
  BY <1>1, <1>2, <1>8 DEF Show, End, Done
<1>9. CASE Finish(c)
  BY <1>1, <1>2, <1>9 DEF Finish, Done
<1>10. CASE FlushHandler(c)
  <2>1. /\ UNCHANGED <<cpc, down, outOfStep>> /\ sig[c] /\ cpc[c] # "gone"
        /\ sig' = [sig EXCEPT ![c] = FALSE]
        /\ \E b \in BOOLEAN : dangling' = [dangling EXCEPT ![c] =
                                             @ \/ (cpc[c] = "applying" /\ b)]
    BY <1>10 DEF FlushHandler, Handlers
  <2>2. QED BY <1>1, <1>2, <2>1
<1>11. QED BY <1>4, <1>5, <1>6, <1>7, <1>8, <1>9, <1>10 DEF Client, ClientStep

LEMMA FlushPreserved == IInv /\ FlushInv /\ [Next]_vars => FlushInv'
<1> SUFFICES ASSUME IInv, FlushInv, [Next]_vars PROVE FlushInv'
  OBVIOUS
<1>1. TypeOK /\ BacklogOK /\ open_fds \subseteq Clients
  BY DEF IInv, TypeOK
<1> USE DEF FlushInv, UnservedWaits, SignalledAtRest
<1>2. CASE Serving
  BY <1>2, ServingWrites, ServingFrame DEF clients
<1>3. ASSUME NEW c \in Clients, Client(c) PROVE FlushInv'
  <2>1. UNCHANGED <<pc, open_fds, data_socket, outOfStep>> /\ (Up' <=> Up)
    BY <1>1, <1>3, ClientFrame, ClientRests DEF Up
  <2>2. QED BY <1>1, <1>3, <2>1, ClientRests
<1>4. ASSUME NEW c \in Clients, Start(c) PROVE FlushInv'
  <2>1. /\ UNCHANGED <<pc, open_fds, data_socket, outOfStep, down, sig, dangling>>
        /\ cpc[c] = "off" /\ cpc' = [cpc EXCEPT ![c] = "connected"]
    BY <1>4 DEF Start, streams
  <2>2. c \notin open_fds
    BY <1>1, <2>1 DEF BacklogOK
  <2>3. Up' <=> Up
    BY <2>1 DEF Up
  <2>4. QED BY <1>1, <2>1, <2>2, <2>3 DEF TypeOK
<1>5. CASE Accept
  <2>1. /\ UNCHANGED <<down, sig, cpc, dangling>> /\ open_fds \subseteq open_fds'
        /\ outOfStep \subseteq outOfStep' /\ Up /\ pc' # "kill"
        /\ pc' = "sendtab" => data_socket' \in open_fds'
    BY <1>5 DEF Accept, Up, Stopped, streams, clients
  <2>2. QED BY <2>1
<1>6. CASE Kill
  <2>1. UNCHANGED <<open_fds, outOfStep, down, data_socket>> /\ pc = "kill" /\ pc' # "sendtab" /\ Up
    BY <1>6 DEF Kill, Loop, Up, Stopped
  <2>2. \/ UNCHANGED <<sig, clients>>
        \/ \E c \in Clients : Handlers(c) /\ sig' = [sig EXCEPT ![c] = TRUE] /\ UNCHANGED clients
        \/ \E c \in Clients : End(c) /\ UNCHANGED sig
    BY <1>6 DEF Kill
  <2>3. CASE UNCHANGED <<sig, clients>>
    BY <2>1, <2>3 DEF clients
  <2>4. ASSUME NEW c \in Clients, Handlers(c), sig' = [sig EXCEPT ![c] = TRUE], UNCHANGED clients
        PROVE  FlushInv'
    <3>1. c \notin outOfStep => cpc[c] = "idle"
      BY <2>1, <2>4 DEF Handlers
    <3>2. QED BY <1>1, <2>1, <2>4, <3>1 DEF clients, TypeOK
  <2>5. ASSUME NEW c \in Clients, End(c), UNCHANGED sig PROVE FlushInv'
    BY <1>1, <2>1, <2>5 DEF End, TypeOK
  <2>6. QED BY <2>2, <2>3, <2>4, <2>5
<1>7. CASE ReadClient
  <2>1. UNCHANGED <<open_fds, outOfStep, down, sig, cpc, dangling>>
    BY <1>7 DEF ReadClient, clients
  <2>2. Up /\ pc' \notin {"kill", "sendtab"}
    BY <1>7 DEF ReadClient, Loop, Up, Stopped
  <2>3. QED BY <2>1, <2>2
<1>8. CASE UNCHANGED vars
  BY <1>8 DEF vars, server, streams, clients, Up
<1>9. QED BY <1>2, <1>3, <1>4, <1>5, <1>6, <1>7, <1>8, Steps

\* A flush that finds a client at rest never frees the nodes it is working on
\* (server.c:212-220, client.c:30-33), for any clients, pids used again and
\* interleaving of the signals with the streams.
THEOREM FlushesAtRestAreSafe == Spec => []FlushAtRestIsSafe
<1>1. Init => FlushInv
  BY DEF Init, FlushInv, UnservedWaits, SignalledAtRest
<1>2. IInv /\ FlushInv /\ [Next]_vars => FlushInv'
  BY FlushPreserved
<1>3. FlushInv => FlushAtRestIsSafe
  BY DEF FlushInv, SignalledAtRest, FlushAtRestIsSafe
<1>4. QED BY <1>1, <1>2, <1>3, Invariance, PTL DEF Spec

-----------------------------------------------------------------------------
(* The clients a flush reaches.                                            *)
Gone == {d \in Clients : cpc[d] = "gone"}

\* A pid in the array is that of a process that has ended or is monitored.
EntriesKnown ==
  \A p \in Pids : Holds(client_pid_set, p) =>
    \E d \in Clients : PidOf[d] = p /\ (cpc[d] = "gone" \/ Monitored(d))

\* The client whose end of file left the 0 is read again before it is dropped.
ZeroKnown ==
  Holds(client_pid_set, ZeroPid) =>
    \E g \in Clients : cpc[g] = "gone" /\ Monitored(g) /\ up[g] = <<>>

\* A client writes nothing but its pid, and that before anything is read from it.
PidsWritten ==
  \A c \in Clients :
    /\ up[c] # <<>> => Head(up[c]) = PidOf[c]
    /\ c \notin open_fds /\ Alive(c) /\ cpc[c] # "connected" => up[c] # <<>>

\* The system gives a process id to one living process at a time.
OneAlive == \A c, d \in Clients : Alive(c) /\ Alive(d) /\ PidOf[c] = PidOf[d] => c = d

RegInv ==
  EntriesKnown /\ ZeroKnown /\ PidsWritten /\ OneAlive /\ LiveClientsRegistered

\* Two slots of the descriptor array are never a client's.
LEMMA FewMonitored ==
  ASSUME IsFiniteSet(Clients), IInv
  PROVE  LET M == {d \in Clients : Monitored(d)}
         IN  IsFiniteSet(M) /\ Cardinality(M) <= MAX_CLIENTS_SUPPORT - 2
<1> DEFINE M == {d \in Clients : Monitored(d)}
           N == MAX_CLIENTS_SUPPORT
<1>1. /\ monitor_fd_set \in [1..N -> Clients \cup {Stdin, Master, NoFd}]
      /\ Holds(monitor_fd_set, Stdin) /\ Holds(monitor_fd_set, Master) /\ N \in Nat
  BY SlotsFacts DEF IInv, TypeOK, SlotArraysSound
<1>2. PICK s \in 1..N, m \in 1..N : monitor_fd_set[s] = Stdin /\ monitor_fd_set[m] = Master
  BY <1>1 DEF Holds
<1>3. s # m /\ Stdin \notin Clients /\ Master \notin Clients
  BY <1>2, ClientAssumption
<1> DEFINE S == ((1..N) \ {s}) \ {m}
<1>4. IsFiniteSet(S) /\ Cardinality(S) = N - 2
  <2>1. IsFiniteSet(1..N) /\ Cardinality(1..N) = N
    BY <1>1, FS_Interval
  <2>2. IsFiniteSet((1..N) \ {s}) /\ Cardinality((1..N) \ {s}) = N - 1
    BY <2>1, FS_RemoveElement
  <2>3. m \in (1..N) \ {s}
    BY <1>3
  <2> DEFINE A == (1..N) \ {s}
  <2> HIDE DEF A
  <2>4. IsFiniteSet(A \ {m}) /\ Cardinality(A \ {m}) = Cardinality(A) - 1
    BY <2>2, <2>3, FS_RemoveElement DEF A
  <2>5. QED BY <1>1, <2>2, <2>4 DEF A
<1> DEFINE slot == [d \in M |-> CHOOSE i \in 1..N : monitor_fd_set[i] = d]
<1>5. \A d \in M : slot[d] \in 1..N /\ monitor_fd_set[slot[d]] = d
  BY <1>1 DEF Monitored, Holds
<1>6. \A d \in M : slot[d] \in S
  BY <1>2, <1>3, <1>5
<1>7. slot \in Injection(M, S)
  <2>1. \A d, e \in M : slot[d] = slot[e] => d = e
    BY <1>5
  <2>2. slot \in [M -> S]
    BY <1>6
  <2> HIDE DEF slot, M, S
  <2>3. QED BY <2>1, <2>2 DEF Injection, IsInjective
<1> HIDE DEF slot, M, S
<1>8. IsFiniteSet(M) /\ Cardinality(M) <= Cardinality(S)
  BY <1>4, <1>7, FS_Injection
<1>9. QED BY <1>1, <1>4, <1>8 DEF M

\* A pid finds no free slot only if three processes have ended: at most N - 2 of
\* the N entries are of monitored clients, one of which is the client itself and
\* one more the client that left a 0.
LEMMA FullTakesThree ==
  ASSUME IsFiniteSet(Clients), IInv, EntriesKnown, ZeroKnown,
         NEW c \in Clients, Monitored(c), cpc[c] # "gone",
         ~ Holds(client_pid_set, PidOf[c]), ~ Holds(client_pid_set, NoPid)
  PROVE  Cardinality(Gone) >= 3
<1> DEFINE N == MAX_CLIENTS_SUPPORT
           M == {d \in Clients : Monitored(d)}
           E == {i \in 1..N : client_pid_set[i] \in Pids}
           Z == {i \in 1..N : client_pid_set[i] = ZeroPid}
           G == Gone
<1>1. /\ client_pid_set \in [1..N -> Pids \cup {NoPid, ZeroPid}]
      /\ Distinct(client_pid_set, NoPid) /\ N \in Nat /\ N >= 2
      /\ ZeroPid \notin Pids /\ ZeroPid # NoPid
  BY SlotsFacts, BoundAssumption, ClientAssumption DEF IInv, TypeOK, SlotArraysSound
<1>2. E = (1..N) \ Z
  BY <1>1 DEF Holds
<1>3. IsFiniteSet(1..N) /\ Cardinality(1..N) = N
  BY <1>1, FS_Interval
<1>4. IsFiniteSet(M) /\ Cardinality(M) <= N - 2
  BY FewMonitored
<1>5. IsFiniteSet(G)
  BY FS_Subset DEF Gone
<1>6. IsFiniteSet(E) /\ IsFiniteSet(Z)
  BY <1>3, FS_Subset
<1> DEFINE rep == [i \in E |-> CHOOSE d \in Clients :
                     PidOf[d] = client_pid_set[i] /\ (cpc[d] = "gone" \/ Monitored(d))]
<1>7. \A i \in E : /\ rep[i] \in Clients /\ PidOf[rep[i]] = client_pid_set[i]
                   /\ cpc[rep[i]] = "gone" \/ Monitored(rep[i])
  BY <1>1 DEF EntriesKnown, Holds
<1>8. \A i, j \in E : rep[i] = rep[j] => i = j
  <2>1. ASSUME NEW i \in E, NEW j \in E, rep[i] = rep[j] PROVE i = j
    <3>1. client_pid_set[i] = client_pid_set[j]
      BY <1>7, <2>1
    <3>2. client_pid_set[i] # NoPid /\ i \in DOMAIN client_pid_set /\ j \in DOMAIN client_pid_set
      BY <1>1, ClientAssumption
    <3>3. QED BY <1>1, <3>1, <3>2 DEF Distinct
  <2>2. QED BY <2>1
<1>9. \A i \in E : rep[i] # c
  BY <1>1, <1>7 DEF Holds
<1>10. IsFiniteSet(M \ {c}) /\ Cardinality(M \ {c}) <= N - 3
  <2>1. c \in M
    OBVIOUS
  <2>2. Cardinality(M) \in Nat
    BY <1>4, FS_CardinalityType
  <2> HIDE DEF M
  <2>3. IsFiniteSet(M \ {c}) /\ Cardinality(M \ {c}) = Cardinality(M) - 1
    BY <1>4, <2>1, FS_RemoveElement
  <2>4. QED BY <1>1, <1>4, <2>2, <2>3
\* The entries are of the ended processes and of T, with T as small as that.
<1>11. ASSUME NEW T, IsFiniteSet(T), \A i \in E : rep[i] \in G \cup T,
              Cardinality(T) <= Cardinality(E) - 3
       PROVE  Cardinality(G) >= 3
  <2>1. rep \in Injection(E, G \cup T)
    <3>1. rep \in [E -> G \cup T]
      BY <1>11
    <3> HIDE DEF rep, E, G
    <3>2. QED BY <1>8, <3>1 DEF Injection, IsInjective
  <2> HIDE DEF rep, E, G
  <2>2. /\ IsFiniteSet(G \cup T) /\ IsFiniteSet(G \cap T)
        /\ Cardinality(G \cup T) = Cardinality(G) + Cardinality(T) - Cardinality(G \cap T)
    BY <1>5, <1>11, FS_Union, FS_Intersection
  <2>3. Cardinality(E) <= Cardinality(G \cup T)
    BY <2>1, <2>2, FS_Injection
  <2>4. /\ Cardinality(E) \in Nat /\ Cardinality(T) \in Nat /\ Cardinality(G) \in Nat
        /\ Cardinality(G \cap T) \in Nat
    BY <1>5, <1>6, <1>11, <2>2, FS_CardinalityType
  <2>5. QED BY <1>11, <2>2, <2>3, <2>4
<1>12. CASE ~ Holds(client_pid_set, ZeroPid)
  <2>1. Z = {} /\ E = 1..N
    BY <1>1, <1>2, <1>12 DEF Holds
  <2>2. \A i \in E : rep[i] \in G \cup (M \ {c})
    BY <1>7, <1>9 DEF Gone
  <2>3. Cardinality(M \ {c}) <= Cardinality(E) - 3
    BY <1>3, <1>10, <2>1
  <2> HIDE DEF M, E, G, rep
  <2>4. QED BY <1>10, <1>11, <2>2, <2>3 DEF G
<1>13. CASE Holds(client_pid_set, ZeroPid)
  <2>1. PICK g \in Clients : cpc[g] = "gone" /\ Monitored(g)
    BY <1>13 DEF ZeroKnown
  <2>2. PICK z \in 1..N : client_pid_set[z] = ZeroPid
    BY <1>1, <1>13 DEF Holds
  <2>3. Z = {z}
    BY <1>1, <2>2 DEF Distinct
  <2>4. Cardinality(E) = N - 1
    <3>1. Cardinality((1..N) \ {z}) = Cardinality(1..N) - 1
      BY <1>3, FS_RemoveElement
    <3>2. QED BY <1>1, <1>2, <1>3, <2>3, <3>1
  <2> DEFINE T == (M \ {c}) \ {g}
  <2>5. g \in M \ {c} /\ \A i \in E : rep[i] \in G \cup T
    BY <1>7, <1>9, <2>1 DEF Gone
  <2>6. IsFiniteSet(T) /\ Cardinality(T) <= N - 4
    <3>1. Cardinality(M \ {c}) \in Nat
      BY <1>10, FS_CardinalityType
    <3> DEFINE A == M \ {c}
    <3> HIDE DEF A
    <3>2. IsFiniteSet(A \ {g}) /\ Cardinality(A \ {g}) = Cardinality(A) - 1
      BY <1>10, <2>5, FS_RemoveElement DEF A
    <3>3. QED BY <1>1, <1>10, <3>1, <3>2 DEF A
  <2>7. Cardinality(T) <= Cardinality(E) - 3
    <3>1. Cardinality(T) \in Nat
      BY <2>6, FS_CardinalityType
    <3> HIDE DEF T, E
    <3>2. QED BY <1>1, <2>4, <2>6, <3>1
  <2> HIDE DEF M, E, G, rep, T
  <2>8. QED BY <1>11, <2>5, <2>6, <2>7 DEF G
<1>14. QED BY <1>12, <1>13

\* A client starts, writes its pid, reads and ends, in this order, and writes
\* nothing else.
LEMMA ClientWrites ==
  ASSUME TypeOK, NEW c \in Clients, Client(c)
  PROVE  /\ \/ cpc[c] = "connected" /\ cpc' = [cpc EXCEPT ![c] = "sent"]
               /\ up' = [up EXCEPT ![c] = Append(@, PidOf[c])]
            \/ Alive(c) /\ cpc' = [cpc EXCEPT ![c] = "gone"]
               /\ (UNCHANGED up \/ up' = [up EXCEPT ![c] = Append(@, PidOf[c])])
            \/ Alive(c) /\ cpc[c] # "connected" /\ UNCHANGED up
               /\ \E q \in {"sent", "idle", "got", "applying"} : cpc' = [cpc EXCEPT ![c] = q]
<1> USE DEF server, streams, clients
<1>1. cpc \in [Clients -> ClientPcs]
  BY DEF TypeOK
<1>2. CASE SendPid(c)
  BY <1>2 DEF SendPid, End, Alive
<1>3. CASE InstallHandlers(c) \/ Read(c)
  BY <1>3 DEF InstallHandlers, Read, Alive
<1>4. CASE Begin(c) \/ Show(c) \/ Finish(c) \/ Quit(c)
  BY <1>4 DEF Begin, Show, Finish, Quit, End, Done, Alive
<1>5. CASE FlushHandler(c)
  <2>1. cpc[c] \in {"idle", "got", "applying"} /\ UNCHANGED <<cpc, up>>
    BY <1>5 DEF FlushHandler, Handlers
  <2>2. cpc' = [cpc EXCEPT ![c] = cpc[c]]
    BY <1>1, <2>1
  <2>3. QED BY <2>1, <2>2 DEF Alive
<1>6. CASE Interrupt(c) \/ Crash(c)
  BY <1>6 DEF Interrupt, Crash, End
<1>7. QED BY <1>2, <1>3, <1>4, <1>5, <1>6 DEF Client, ClientStep

\* What ends stays, so that the exceptions of LiveClientsRegistered stay.
LEMMA GoneGrows ==
  ASSUME IsFiniteSet(Clients), TypeOK, [Next]_vars
  PROVE  Gone \subseteq Gone' /\ Cardinality(Gone) <= Cardinality(Gone')
         /\ Cardinality(Gone) \in Nat /\ Cardinality(Gone') \in Nat
<1>1. Gone \subseteq Gone'
  BY CpcGoesOn DEF Onward, Gone
<1>2. Gone' \subseteq Clients
  BY DEF Gone
<1>3. QED BY <1>1, <1>2, FS_Subset, FS_CardinalityType

\* What LiveClientsRegistered says of one client.
Registered(c) ==
  \/ Holds(client_pid_set, PidOf[c])
  \/ \E d \in Clients \ {c} : cpc[d] = "gone" /\ PidOf[d] = PidOf[c]
  \/ Cardinality(Gone) >= 3

PidRead(c) == Monitored(c) /\ Alive(c) /\ cpc[c] # "connected" /\ up[c] = <<>>

LEMMA RegisteredStays ==
  ASSUME IsFiniteSet(Clients), TypeOK, [Next]_vars, NEW c \in Clients, Registered(c),
         Holds(client_pid_set, PidOf[c]) => Holds(client_pid_set', PidOf[c])
  PROVE  Registered(c)'
<1>1. /\ Cardinality(Gone) <= Cardinality(Gone')
      /\ Cardinality(Gone) \in Nat /\ Cardinality(Gone') \in Nat
  BY GoneGrows
<1>2. \A d \in Clients : cpc[d] = "gone" => cpc'[d] = "gone"
  BY CpcGoesOn DEF Onward
<1>3. QED BY <1>1, <1>2 DEF Registered

\* A step of a client, or one that ends it.
LEMMA RegClient ==
  ASSUME IsFiniteSet(Clients), IInv, RegInv, [Next]_vars, NEW c \in Clients,
         Client(c) \/ Start(c) \/ (Kill /\ Alive(c) /\ cpc' = [cpc EXCEPT ![c] = "gone"])
  PROVE  RegInv'
<1>1. /\ cpc \in [Clients -> ClientPcs] /\ up \in [Clients -> Seq(Pids)]
      /\ PidOf[c] \in Pids /\ TypeOK /\ SlotArraysSound /\ BacklogOK
      /\ open_fds \subseteq Clients
  BY ClientAssumption DEF IInv, TypeOK
<1>2. UNCHANGED <<monitor_fd_set, client_pid_set, open_fds>>
  BY <1>1, ClientFrame, KillFrame DEF Start
<1>3. /\ up' = up \/ up' = [up EXCEPT ![c] = Append(@, PidOf[c])]
      /\ \/ Alive(c) /\ cpc' = [cpc EXCEPT ![c] = "gone"]
         \/ cpc[c] = "off" /\ cpc' = [cpc EXCEPT ![c] = "connected"] /\ UNCHANGED up
            /\ \A d \in Clients : Alive(d) => PidOf[d] # PidOf[c]
         \/ cpc[c] = "connected" /\ cpc' = [cpc EXCEPT ![c] = "sent"]
            /\ up' = [up EXCEPT ![c] = Append(@, PidOf[c])]
         \/ Alive(c) /\ cpc[c] # "connected" /\ UNCHANGED up
            /\ \E q \in {"sent", "idle", "got", "applying"} : cpc' = [cpc EXCEPT ![c] = q]
  <2>1. CASE Client(c)
    BY <1>1, <2>1, ClientWrites
  <2>2. CASE Start(c)
    BY <2>2 DEF Start, streams
  <2>3. CASE Kill /\ Alive(c) /\ cpc' = [cpc EXCEPT ![c] = "gone"]
    BY <2>3 DEF Kill
  <2>4. QED BY <2>1, <2>2, <2>3
<1>4. Append(up[c], PidOf[c]) # <<>>
      /\ (up[c] = <<>> => Head(Append(up[c], PidOf[c])) = PidOf[c])
      /\ (up[c] # <<>> => Head(Append(up[c], PidOf[c])) = Head(up[c]))
  <2>1. up[c] \in Seq(Pids) /\ Len(up[c]) \in Nat
    BY <1>1, LenProperties
  <2>2. /\ Append(up[c], PidOf[c]) \in Seq(Pids)
        /\ Len(Append(up[c], PidOf[c])) = Len(up[c]) + 1
        /\ \A k \in 1..Len(up[c]) : Append(up[c], PidOf[c])[k] = up[c][k]
        /\ Append(up[c], PidOf[c])[Len(up[c]) + 1] = PidOf[c]
    BY <1>1, <2>1, AppendProperties
  <2>3. up[c] = <<>> <=> Len(up[c]) = 0
    BY <2>1, EmptySeq
  <2>4. QED BY <2>1, <2>2, <2>3
<1>5. \A d \in Clients : cpc[d] = "gone" => cpc'[d] = "gone"
  BY <1>1, CpcGoesOn DEF Onward
<1>6. \A d \in Clients \ {c} : cpc'[d] = cpc[d] /\ up'[d] = up[d]
  BY <1>1, <1>3
<1>7. EntriesKnown'
  BY <1>2, <1>5 DEF RegInv, EntriesKnown, Monitored
<1>8. ZeroKnown'
  <2>1. ASSUME NEW g \in Clients, cpc[g] = "gone", Monitored(g), up[g] = <<>>
        PROVE  cpc'[g] = "gone" /\ Monitored(g)' /\ up'[g] = <<>>
    <3>1. cpc[c] = "gone" => up' = up
      BY <1>3 DEF Alive
    <3>2. QED BY <1>2, <1>5, <1>6, <2>1, <3>1 DEF Monitored
  <2>2. QED BY <1>2, <2>1 DEF RegInv, ZeroKnown
<1>9. PidsWritten'
  <2>1. ASSUME NEW d \in Clients \ {c}
        PROVE  /\ up'[d] # <<>> => Head(up'[d]) = PidOf[d]
               /\ d \notin open_fds' /\ Alive(d)' /\ cpc'[d] # "connected" => up'[d] # <<>>
    BY <1>2, <1>6, <2>1 DEF RegInv, PidsWritten, Alive
  <2>2. up'[c] # <<>> => Head(up'[c]) = PidOf[c]
    BY <1>1, <1>3, <1>4 DEF RegInv, PidsWritten
  <2>3. c \notin open_fds' /\ Alive(c)' /\ cpc'[c] # "connected" => up'[c] # <<>>
    BY <1>1, <1>2, <1>3, <1>4 DEF RegInv, PidsWritten, Alive
  <2>4. QED BY <2>1, <2>2, <2>3 DEF PidsWritten
<1>10. OneAlive'
  <2>1. Alive(c)' => Alive(c) \/ \A d \in Clients : Alive(d) => PidOf[d] # PidOf[c]
    BY <1>1, <1>3 DEF Alive
  <2>2. \A d \in Clients \ {c} : Alive(d)' <=> Alive(d)
    BY <1>6 DEF Alive
  <2>3. QED BY <2>1, <2>2 DEF RegInv, OneAlive
<1>11. LiveClientsRegistered'
  <2>1. ASSUME NEW d \in open_fds, PidRead(d)' PROVE Registered(d)'
    <3>1. PidRead(d)
      <4>1. CASE d # c
        BY <1>1, <1>2, <1>6, <2>1, <4>1 DEF PidRead, Alive, Monitored
      <4>2. CASE d = c
        <5>1. cpc[c] # "off"
          BY <1>1, <4>2 DEF BacklogOK
        <5>2. QED BY <1>1, <1>2, <1>3, <1>4, <2>1, <4>2, <5>1 DEF PidRead, Alive, Monitored
      <4>3. QED BY <4>1, <4>2
    <3>2. Registered(d)
      BY <3>1 DEF RegInv, LiveClientsRegistered, PidRead, Registered, Gone
    <3>3. QED BY <1>1, <1>2, <3>2, RegisteredStays
  <2>2. QED BY <1>2, <2>1 DEF LiveClientsRegistered, PidRead, Registered, Gone
<1>12. QED BY <1>7, <1>8, <1>9, <1>10, <1>11 DEF RegInv

LEMMA RegAccept ==
  ASSUME IsFiniteSet(Clients), IInv, RegInv, [Next]_vars, Accept
  PROVE  RegInv'
<1> DEFINE Fds == Clients \cup {Stdin, Master, NoFd}
           c == Head(backlog)
<1>1. TypeOK /\ SlotArraysSound /\ BacklogOK
  BY DEF IInv
<1>2. UNCHANGED <<client_pid_set, cpc, up>>
  BY DEF Accept, streams, clients
<1>3. CASE UNCHANGED <<monitor_fd_set, open_fds>>
  BY <1>2, <1>3 DEF RegInv, EntriesKnown, ZeroKnown, PidsWritten, OneAlive,
                    LiveClientsRegistered, Monitored, Alive
<1>4. CASE monitor_fd_set' = AddTo(monitor_fd_set, NoFd, c) /\ open_fds' = open_fds \cup {c}
  <2>1. c \in Clients /\ c \notin open_fds /\ cpc[c] # "off"
    <3>1. backlog # <<>> /\ backlog \in Seq(Clients)
      BY <1>1 DEF Accept, TypeOK
    <3>2. c \in Clients /\ c = backlog[1] /\ 1 \in 1..Len(backlog)
      BY <3>1, HeadTailProperties, EmptySeq, LenProperties
    <3>3. QED BY <1>1, <3>2 DEF BacklogOK
  <2>2. /\ monitor_fd_set \in [1..MAX_CLIENTS_SUPPORT -> Fds] /\ c \in Fds
        /\ MAX_CLIENTS_SUPPORT \in Nat /\ Distinct(monitor_fd_set, NoFd)
        /\ \A d \in Clients : Monitored(d) => d \in open_fds
    BY <1>1, <2>1, SlotsFacts DEF TypeOK, SlotArraysSound, Monitored, Holds, ClientSlots
  <2>3. ~ Holds(monitor_fd_set, c)
    BY <2>1, <2>2 DEF Monitored
  <2> HIDE DEF c, Fds
  <2>4. /\ \A x : x # NoFd /\ Holds(monitor_fd_set, x) => Holds(monitor_fd_set', x)
        /\ monitor_fd_set' \in [1..MAX_CLIENTS_SUPPORT -> Fds]
        /\ \A i \in 1..MAX_CLIENTS_SUPPORT : monitor_fd_set'[i] \in {monitor_fd_set[i], c}
    <3> DEFINE r == AddTo(monitor_fd_set, NoFd, c)
    <3>1. r \in [1..MAX_CLIENTS_SUPPORT -> Fds]
      BY <2>2, AddToIs
    <3>2. /\ \A x : x # NoFd /\ Holds(monitor_fd_set, x) => Holds(r, x)
          /\ \A i \in 1..MAX_CLIENTS_SUPPORT : r[i] \in {monitor_fd_set[i], c}
      <4>1. /\ monitor_fd_set \in [1..MAX_CLIENTS_SUPPORT -> Fds] /\ c \in Fds
            /\ MAX_CLIENTS_SUPPORT \in Nat /\ Distinct(monitor_fd_set, NoFd)
            /\ ~ Holds(monitor_fd_set, c)
        BY <2>2, <2>3
      <4>2. /\ Distinct(AddTo(monitor_fd_set, NoFd, c), NoFd)
            /\ \A x : x # NoFd /\ Holds(monitor_fd_set, x) => Holds(AddTo(monitor_fd_set, NoFd, c), x)
            /\ \A j \in 1..MAX_CLIENTS_SUPPORT : AddTo(monitor_fd_set, NoFd, c)[j] \in {monitor_fd_set[j], c}
        BY <4>1, AddToSound, Zenon
      <4>3. QED BY <4>2
    <3>3. monitor_fd_set' = r
      BY <1>4
    <3> HIDE DEF r
    <3>4. QED BY <3>1, <3>2, <3>3
  <2>5. \A d \in Clients : /\ Monitored(d) => Monitored(d)'
                           /\ Monitored(d)' => Monitored(d) \/ d = c
    BY <2>2, <2>4, ClientAssumption DEF Monitored, Holds
  <2>6. EntriesKnown' /\ ZeroKnown'
    BY <1>2, <2>5 DEF RegInv, EntriesKnown, ZeroKnown
  <2>7. PidsWritten' /\ OneAlive'
    BY <1>2, <1>4 DEF RegInv, PidsWritten, OneAlive, Alive
  <2>8. ASSUME NEW d \in open_fds', PidRead(d)' PROVE Registered(d)'
    <3>1. d # c
      BY <1>2, <2>1, <2>8 DEF RegInv, PidsWritten, PidRead, Alive
    <3>2. d \in open_fds /\ d \in Clients /\ PidRead(d)
      BY <1>1, <1>2, <1>4, <2>5, <2>8, <3>1 DEF PidRead, Alive, TypeOK
    <3>3. Registered(d)
      BY <3>2 DEF RegInv, LiveClientsRegistered, PidRead, Registered, Gone
    <3>4. QED BY <1>1, <1>2, <3>2, <3>3, RegisteredStays
  <2>9. LiveClientsRegistered'
    BY <2>8 DEF LiveClientsRegistered, PidRead, Registered, Gone
  <2>10. QED BY <2>6, <2>7, <2>9 DEF RegInv
<1>5. QED BY <1>3, <1>4 DEF Accept

\* A read of a client adds its pid or a 0, or drops that entry and its descriptor.
LEMMA RegRead ==
  ASSUME IsFiniteSet(Clients), IInv, RegInv, [Next]_vars, ReadClient
  PROVE  RegInv'
<1> DEFINE Fds == Clients \cup {Stdin, Master, NoFd}
           PidMarks == Pids \cup {NoPid, ZeroPid}
           N == MAX_CLIENTS_SUPPORT
           i == Lowest(todo)
           c == monitor_fd_set[i]
           p == IF up[c] # <<>> THEN PidOf[c] ELSE ZeroPid
           a == AddTo(client_pid_set, NoPid, p)
           b == RemoveFrom(client_pid_set, NoPid, p)
           m == RemoveFrom(monitor_fd_set, NoFd, c)
<1>1. TypeOK /\ SlotArraysSound /\ LoopOK /\ BacklogOK /\ open_fds \subseteq Clients
  BY DEF IInv, TypeOK
<1>2. /\ monitor_fd_set \in [1..N -> Fds] /\ client_pid_set \in [1..N -> PidMarks]
      /\ N \in Nat /\ Slots = 1..N /\ NoFd \in Fds /\ NoPid \in PidMarks
      /\ Distinct(monitor_fd_set, NoFd) /\ Distinct(client_pid_set, NoPid)
      /\ up \in [Clients -> Seq(Pids)] /\ PidOf \in [Clients -> Pids]
      /\ ZeroPid \notin Pids /\ NoPid \notin Pids /\ NoPid # ZeroPid /\ NoFd \notin Clients
  BY <1>1, SlotsFacts, ClientAssumption DEF TypeOK, SlotArraysSound
<1>3. c \in open_fds /\ c \in Clients /\ Monitored(c) /\ (up[c] = <<>> => cpc[c] = "gone")
  <2>1. i \in todo /\ todo \subseteq ClientSlots /\ Readable(c)
    BY <1>1, LowestIs DEF ReadClient, LoopOK, TypeOK
  <2>2. i \in 1..N /\ c \in open_fds
    BY <1>1, <1>2, <2>1 DEF ClientSlots, SlotArraysSound
  <2>3. QED BY <1>1, <1>2, <2>1, <2>2 DEF Readable, Monitored, Holds
<1>4. /\ UNCHANGED <<open_fds, cpc>>
      /\ \/ UNCHANGED <<monitor_fd_set, client_pid_set, up>>
         \/ up' = [up EXCEPT ![c] = <<>>] /\ ~ Holds(client_pid_set, p)
            /\ client_pid_set' = a /\ UNCHANGED monitor_fd_set
         \/ up' = [up EXCEPT ![c] = <<>>] /\ Holds(client_pid_set, p)
            /\ client_pid_set' = b /\ monitor_fd_set' = m
  <2>1. up[c] # <<>> => Head(up[c]) = PidOf[c]
    BY <1>3 DEF RegInv, PidsWritten
  <2>2. QED BY <2>1 DEF ReadClient, check_available_pid, add_to_pid_set, clients
<1>5. p \in PidMarks /\ p # NoPid /\ c # NoFd
  BY <1>2, <1>3
<1>6. /\ up[c] # <<>> => p = PidOf[c]
      /\ up[c] = <<>> => p = ZeroPid
  OBVIOUS
<1> HIDE DEF Fds, PidMarks, i, c, p
<1>7. CASE UNCHANGED <<monitor_fd_set, client_pid_set, up>>
  BY <1>4, <1>7 DEF RegInv, EntriesKnown, ZeroKnown, PidsWritten, OneAlive,
                    LiveClientsRegistered, Monitored, Alive
\* What both other cases have in common.
<1>8. ASSUME up' = [up EXCEPT ![c] = <<>>],
             EntriesKnown', ZeroKnown',
             \A d \in open_fds : PidRead(d)' => Registered(d)'
      PROVE  RegInv'
  <2>1. PidsWritten'
    BY <1>2, <1>3, <1>4, <1>8 DEF RegInv, PidsWritten, Alive
  <2>2. OneAlive'
    BY <1>4 DEF RegInv, OneAlive, Alive
  <2>3. LiveClientsRegistered'
    BY <1>4, <1>8 DEF LiveClientsRegistered, PidRead, Registered, Gone
  <2>4. QED BY <1>8, <2>1, <2>2, <2>3 DEF RegInv
<1>9. CASE up' = [up EXCEPT ![c] = <<>>] /\ ~ Holds(client_pid_set, p)
           /\ client_pid_set' = a /\ UNCHANGED monitor_fd_set
  <2>1. /\ \A x : x # NoPid /\ Holds(client_pid_set, x) => Holds(a, x)
        /\ \A j \in 1..N : a[j] \in {client_pid_set[j], p}
        /\ a \in [1..N -> PidMarks]
        /\ Holds(client_pid_set, NoPid) => Holds(a, p)
    <3>1. a \in [1..N -> PidMarks]
      BY <1>2, <1>5, AddToIs
    <3>2. /\ \A x : x # NoPid /\ Holds(client_pid_set, x) => Holds(a, x)
          /\ \A j \in 1..N : a[j] \in {client_pid_set[j], p}
      <4>1. /\ client_pid_set \in [1..N -> PidMarks] /\ N \in Nat /\ p \in PidMarks
            /\ Distinct(client_pid_set, NoPid) /\ ~ Holds(client_pid_set, p)
        BY <1>2, <1>5, <1>9
      <4>2. /\ Distinct(AddTo(client_pid_set, NoPid, p), NoPid)
            /\ \A x : x # NoPid /\ Holds(client_pid_set, x) => Holds(AddTo(client_pid_set, NoPid, p), x)
            /\ \A j \in 1..N : AddTo(client_pid_set, NoPid, p)[j] \in {client_pid_set[j], p}
        BY <4>1, AddToSound, Zenon
      <4>3. QED BY <4>2
    <3>3. Holds(client_pid_set, NoPid) => Holds(a, p)
      BY <1>2, <1>5, AddToHolds
    <3> HIDE DEF a
    <3>4. QED BY <3>1, <3>2, <3>3
  <2> HIDE DEF a
  <2>2. \A x : Holds(client_pid_set', x) => Holds(client_pid_set, x) \/ x = p
    BY <1>2, <1>9, <2>1 DEF Holds
  <2>3. EntriesKnown'
    BY <1>2, <1>3, <1>4, <1>6, <1>9, <2>2 DEF RegInv, EntriesKnown, Monitored
  <2>4. ZeroKnown'
    BY <1>2, <1>3, <1>4, <1>6, <1>9, <2>2 DEF RegInv, ZeroKnown, Monitored
  <2>5. ASSUME NEW d \in open_fds, PidRead(d)' PROVE Registered(d)'
    <3>1. CASE d # c
      <4>1. PidRead(d)
        BY <1>1, <1>2, <1>4, <1>9, <2>5, <3>1 DEF PidRead, Alive, Monitored
      <4>2. Registered(d)
        BY <4>1 DEF RegInv, LiveClientsRegistered, PidRead, Registered, Gone
      <4>3. QED BY <1>1, <1>2, <1>9, <2>1, <4>2, RegisteredStays
    <3>2. CASE d = c
      <4>1. cpc[c] # "gone" /\ p = PidOf[c]
        BY <1>3, <1>4, <1>6, <2>5, <3>2 DEF PidRead, Alive
      <4>2. CASE Holds(client_pid_set, NoPid)
        BY <1>9, <2>1, <3>2, <4>1, <4>2 DEF Registered
      <4>3. CASE ~ Holds(client_pid_set, NoPid)
        <5>1. Cardinality(Gone) >= 3
          BY <1>3, <1>9, <4>1, <4>3, FullTakesThree DEF RegInv
        <5>2. Gone' = Gone
          BY <1>4 DEF Gone
        <5>3. QED BY <5>1, <5>2 DEF Registered
      <4>4. QED BY <4>2, <4>3
    <3>3. QED BY <3>1, <3>2
  <2>6. QED BY <1>8, <1>9, <2>3, <2>4, <2>5
<1>10. CASE up' = [up EXCEPT ![c] = <<>>] /\ Holds(client_pid_set, p)
            /\ client_pid_set' = b /\ monitor_fd_set' = m
  <2>1. /\ \A x : x # p /\ Holds(client_pid_set, x) => Holds(b, x)
        /\ \A j \in 1..N : b[j] \in {client_pid_set[j], NoPid}
        /\ ~ Holds(b, p) /\ DOMAIN b = 1..N
    <3>1. \A x : x # p /\ Holds(client_pid_set, x) => Holds(b, x)
      BY <1>2, <1>5, RemoveFromSound
    <3>2. \A j \in 1..N : b[j] \in {client_pid_set[j], NoPid}
      BY <1>2, <1>5, RemoveFromFrees
    <3>3. ~ Holds(b, p)
      BY <1>2, <1>5, RemoveFromGone
    <3>4. DOMAIN b = 1..N
      BY <1>2 DEF RemoveFrom
    <3> HIDE DEF b
    <3>5. QED BY <3>1, <3>2, <3>3, <3>4
  <2>2. /\ \A x : x # c /\ Holds(monitor_fd_set, x) => Holds(m, x)
        /\ \A j \in 1..N : m[j] \in {monitor_fd_set[j], NoFd}
        /\ ~ Holds(m, c) /\ DOMAIN m = 1..N
    <3>1. \A x : x # c /\ Holds(monitor_fd_set, x) => Holds(m, x)
      BY <1>2, <1>5, RemoveFromSound
    <3>2. \A j \in 1..N : m[j] \in {monitor_fd_set[j], NoFd}
      BY <1>2, <1>5, RemoveFromFrees
    <3>3. ~ Holds(m, c)
      BY <1>2, <1>5, RemoveFromGone
    <3>4. DOMAIN m = 1..N
      BY <1>2 DEF RemoveFrom
    <3> HIDE DEF m
    <3>5. QED BY <3>1, <3>2, <3>3, <3>4
  <2> HIDE DEF b, m
  <2>3. \A x : x # NoPid /\ Holds(client_pid_set', x) => Holds(client_pid_set, x) /\ x # p
    BY <1>2, <1>5, <1>10, <2>1 DEF Holds
  <2>4. \A d \in Clients : /\ Monitored(d)' => Monitored(d) /\ d # c
                           /\ Monitored(d) /\ d # c => Monitored(d)'
    <3>1. \A d \in Clients : Monitored(d)' <=> Holds(m, d)
      BY <1>10 DEF Monitored, Holds
    <3>2. \A d \in Clients : d # NoFd
      BY <1>2
    <3>3. \A d \in Clients : Holds(m, d) => Holds(monitor_fd_set, d) /\ d # c
      BY <1>2, <2>2, <3>2 DEF Holds
    <3>4. \A d \in Clients : Holds(monitor_fd_set, d) /\ d # c => Holds(m, d)
      BY <2>2
    <3>5. QED BY <3>1, <3>3, <3>4 DEF Monitored
  <2>5. EntriesKnown'
    <3>1. ASSUME NEW q \in Pids, Holds(client_pid_set', q)
          PROVE  \E d \in Clients : PidOf[d] = q /\ (cpc'[d] = "gone" \/ Monitored(d)')
      <4>1. Holds(client_pid_set, q) /\ q # p
        BY <1>2, <2>3, <3>1
      <4>2. PICK d \in Clients : PidOf[d] = q /\ (cpc[d] = "gone" \/ Monitored(d))
        BY <4>1 DEF RegInv, EntriesKnown
      <4>3. d = c => cpc[d] = "gone"
        BY <1>3, <1>6, <4>1, <4>2
      <4>4. QED BY <1>4, <2>4, <4>2, <4>3
    <3>2. QED BY <3>1 DEF EntriesKnown
  <2>6. ZeroKnown'
    BY <1>2, <1>4, <1>6, <1>10, <2>3, <2>4 DEF RegInv, ZeroKnown
  <2>7. ASSUME NEW d \in open_fds, PidRead(d)' PROVE Registered(d)'
    <3>1. d \in Clients /\ d # c /\ PidRead(d)
      BY <1>1, <1>2, <1>4, <1>10, <2>4, <2>7 DEF PidRead, Alive
    <3>2. Registered(d)
      BY <3>1 DEF RegInv, LiveClientsRegistered, PidRead, Registered, Gone
    <3>3. CASE PidOf[d] # p
      BY <1>10, <2>1, <3>1, <3>2, <3>3, <1>1, RegisteredStays
    <3>4. CASE PidOf[d] = p
      <4>1. PidOf[c] = PidOf[d]
        BY <1>2, <1>6, <3>1, <3>4
      <4>2. cpc[c] = "gone"
        BY <1>1, <1>3, <3>1, <4>1 DEF RegInv, OneAlive, PidRead, Alive, BacklogOK
      <4>3. QED BY <1>3, <1>4, <3>1, <4>1, <4>2 DEF Registered
    <3>5. QED BY <3>3, <3>4
  <2>8. QED BY <1>8, <1>10, <2>5, <2>6, <2>7
<1>11. QED BY <1>4, <1>7, <1>9, <1>10

LEMMA RegPreserved == IsFiniteSet(Clients) /\ IInv /\ RegInv /\ [Next]_vars => RegInv'
<1> SUFFICES ASSUME IsFiniteSet(Clients), IInv, RegInv, [Next]_vars PROVE RegInv'
  OBVIOUS
<1>1. CASE UNCHANGED <<monitor_fd_set, client_pid_set, open_fds, up, cpc>>
  BY <1>1 DEF RegInv, EntriesKnown, ZeroKnown, PidsWritten, OneAlive,
              LiveClientsRegistered, Monitored, Alive
<1>2. CASE Serving \/ UNCHANGED vars
  BY <1>1, <1>2, ServingFrame DEF vars, server, streams, clients
<1>3. CASE Kill
  <2>1. UNCHANGED <<monitor_fd_set, client_pid_set, open_fds, up>>
        /\ (UNCHANGED cpc \/ \E c \in Clients : Alive(c) /\ cpc' = [cpc EXCEPT ![c] = "gone"])
    BY <1>3 DEF Kill, End, clients
  <2>2. QED BY <1>1, <1>3, <2>1, RegClient
<1>4. QED BY <1>2, <1>3, RegClient, RegAccept, RegRead, Steps

\* A flush reaches every client whose pid was read unless a process with the same
\* pid or three processes have ended (server.c:216, 257-266), for any number of
\* clients and slots and pids that are used again.
THEOREM LiveClientsReached ==
  ASSUME IsFiniteSet(Clients)
  PROVE  Spec => []LiveClientsRegistered
<1>1. Init => RegInv
  <2> SUFFICES ASSUME Init PROVE RegInv
    OBVIOUS
  <2>1. \A x : Holds(client_pid_set, x) => x = NoPid
    BY DEF Init, init_client_pid_set, AllFree, Holds
  <2>2. /\ open_fds = {} /\ \A c \in Clients : cpc[c] = "off" /\ up[c] = <<>>
    BY DEF Init
  <2>3. QED
    BY <2>1, <2>2, ClientAssumption
       DEF RegInv, EntriesKnown, ZeroKnown, PidsWritten, OneAlive, LiveClientsRegistered, Alive
<1>2. IInv /\ RegInv /\ [Next]_vars => RegInv'
  BY RegPreserved
<1>3. RegInv => LiveClientsRegistered
  BY DEF RegInv
<1>4. QED BY <1>1, <1>2, <1>3, Invariance, PTL DEF Spec

-----------------------------------------------------------------------------
(* Replay: what FoldLeft computes is the end of a run of Apply, one request *)
(* after the other.  (FoldLeft is a recursive function of the set of indices; *)
(* that it exists and has one value is shown with the least counterexample.) *)
\* The tables a replay of s from t goes through.
Run(t, s, g) ==
  /\ g[0] = t
  /\ \A i \in 1..Len(s) : g[i] = Apply(g[i - 1], s[i])

\* The recursive function inside FoldLeft.
Folds(t, s, f) ==
  f = [S \in SUBSET DOMAIN s |->
         IF S = {} THEN t ELSE Apply(f[S \ {Max(S)}], s[Max(S)])]

\* The greatest of the first k indices is k.
LEMMA MaxOfFirst ==
  ASSUME NEW k \in Nat, k # 0
  PROVE  Max(1..k) = k /\ (1..k) \ {k} = 1..(k - 1)
<1>1. \A x \in 1..k : (\A y \in 1..k : x >= y) => x = k
  OBVIOUS
<1>2. k \in 1..k /\ \A y \in 1..k : k >= y
  OBVIOUS
<1>3. Max(1..k) = k
  BY <1>1, <1>2 DEF Max
<1>4. QED BY <1>3

\* It exists: the least number of elements without one would have a predecessor.
LEMMA FoldExists ==
  ASSUME NEW t, NEW s, NEW n \in Nat, DOMAIN s = 1..n
  PROVE  \E f : Folds(t, s, f)
<1> DEFINE Part(k, f) ==
             f = [S \in SUBSET (1..k) |->
                    IF S = {} THEN t ELSE Apply(f[S \ {Max(S)}], s[Max(S)])]
           Without == {k \in Nat : ~ \E f : Part(k, f)}
<1>1. Part(0, [S \in SUBSET (1..0) |-> t])
  <2>1. SUBSET (1..0) = {{}}
    OBVIOUS
  <2>2. QED BY <2>1
<1>2. ASSUME NEW k \in Nat, NEW f, Part(k, f)
      PROVE  \E g : Part(k + 1, g)
  <2> DEFINE g == [S \in SUBSET (1..(k + 1)) |->
                     IF k + 1 \in S THEN Apply(f[S \ {k + 1}], s[k + 1]) ELSE f[S]]
  <2> HIDE DEF Part
  <2>0. \A S \in SUBSET (1..k) :
          f[S] = IF S = {} THEN t ELSE Apply(f[S \ {Max(S)}], s[Max(S)])
    BY <1>2 DEF Part
  <2>1. ASSUME NEW S \in SUBSET (1..(k + 1))
        PROVE  g[S] = IF S = {} THEN t ELSE Apply(g[S \ {Max(S)}], s[Max(S)])
    <3>1. CASE k + 1 \in S
      <4>1. Max(S) = k + 1
        <5>1. \A x \in S : (\A y \in S : x >= y) => x = k + 1
          BY <3>1
        <5>2. \A y \in S : k + 1 >= y
          OBVIOUS
        <5>3. QED BY <3>1, <5>1, <5>2 DEF Max
      <4>2. g[S \ {k + 1}] = f[S \ {k + 1}]
        OBVIOUS
      <4>3. g[S] = Apply(f[S \ {k + 1}], s[k + 1])
        BY <3>1
      <4> HIDE DEF g
      <4>4. QED BY <3>1, <4>1, <4>2, <4>3
    <3>2. CASE k + 1 \notin S
      <4>1. S \in SUBSET (1..k)
        BY <3>2
      <4>2. S \ {Max(S)} \in SUBSET (1..k) /\ k + 1 \notin S \ {Max(S)}
        BY <4>1, <3>2
      <4>3. g[S] = f[S] /\ g[S \ {Max(S)}] = f[S \ {Max(S)}]
        BY <4>1, <4>2, <3>2
      <4> HIDE DEF g
      <4>4. QED BY <4>1, <4>3, <2>0
    <3>3. QED BY <3>1, <3>2
  <2>2. g = [S \in SUBSET (1..(k + 1)) |-> g[S]]
    OBVIOUS
  <2> HIDE DEF g
  <2>3. g = [S \in SUBSET (1..(k + 1)) |->
               IF S = {} THEN t ELSE Apply(g[S \ {Max(S)}], s[Max(S)])]
    BY <2>1, <2>2
  <2>4. QED BY <2>3 DEF Part
<1> HIDE DEF Part
<1>3. Without = {}
  <2> SUFFICES ASSUME Without # {} PROVE FALSE
    OBVIOUS
  <2>1. PICK k \in Without : \A j \in Without : k <= j
    BY Least
  <2>2. k # 0
    BY <1>1
  <2>3. k - 1 \in Nat /\ k - 1 \notin Without
    BY <2>1, <2>2
  <2>4. PICK f : Part(k - 1, f)
    BY <2>3
  <2>5. \E g : Part(k - 1 + 1, g)
    BY <1>2, <2>3, <2>4
  <2>6. QED BY <2>5
<1>4. \E f : Part(n, f)
  BY <1>3
<1>5. QED BY <1>4 DEF Part, Folds

\* Replay is the value of that function for all indices, and so the last of a run.
LEMMA ReplayFolds ==
  ASSUME NEW t, NEW s
  PROVE  Replay(t, s) = (CHOOSE f : Folds(t, s, f))[DOMAIN s]
BY DEF Replay, FoldLeft, MapThenFoldSet, Folds

\* A replay runs through tables, one for each prefix.
LEMMA ReplayRuns ==
  ASSUME NEW t, NEW s, NEW n \in Nat, DOMAIN s = 1..n, Len(s) = n
  PROVE  \E g : Run(t, s, g) /\ g[n] = Replay(t, s)
<1>1. PICK f : f = (CHOOSE h : Folds(t, s, h)) /\ Folds(t, s, f)
  BY FoldExists
<1> DEFINE g == [i \in 0..n |-> f[1..i]]
<1>2. g[0] = t
  <2>1. 1..0 = {} /\ {} \in SUBSET DOMAIN s
    OBVIOUS
  <2>2. f[{}] = t
    BY <1>1, <2>1 DEF Folds
  <2>3. QED BY <2>1, <2>2
<1>3. ASSUME NEW i \in 1..n
      PROVE  g[i] = Apply(g[i - 1], s[i])
  <2>1. 1..i \in SUBSET DOMAIN s /\ 1..i # {}
    OBVIOUS
  <2>2. Max(1..i) = i /\ (1..i) \ {i} = 1..(i - 1)
    BY MaxOfFirst
  <2>3. f[1..i] = Apply(f[1..(i - 1)], s[i])
    BY <1>1, <2>1, <2>2 DEF Folds
  <2>4. g[i] = f[1..i] /\ g[i - 1] = f[1..(i - 1)]
    OBVIOUS
  <2>5. QED BY <2>3, <2>4
<1>4. g[n] = Replay(t, s)
  BY <1>1, ReplayFolds
<1> HIDE DEF g
<1>5. QED BY <1>2, <1>3, <1>4 DEF Run

\* There is one run: the first index at which two differ would follow equal tables.
LEMMA RunsAgree ==
  ASSUME NEW t, NEW s, NEW n \in Nat, Len(s) = n, NEW g, NEW h,
         Run(t, s, g), Run(t, s, h)
  PROVE  g[n] = h[n]
<1> DEFINE Differ == {i \in 0..n : g[i] # h[i]}
<1>1. Differ = {}
  <2> SUFFICES ASSUME Differ # {} PROVE FALSE
    OBVIOUS
  <2>1. Differ \in SUBSET Nat
    OBVIOUS
  <2>2. PICK i \in Differ : \A j \in Differ : i <= j
    BY <2>1, Least
  <2>3. i # 0
    BY <2>2 DEF Run
  <2>4. i \in 1..n /\ g[i - 1] = h[i - 1]
    BY <2>2, <2>3
  <2>5. g[i] = h[i]
    BY <2>4 DEF Run
  <2>6. QED BY <2>2, <2>5
<1>2. QED BY <1>1

\* The end of a run is the replay.
LEMMA ReplayIs ==
  ASSUME NEW t, NEW s, NEW n \in Nat, DOMAIN s = 1..n, Len(s) = n, NEW g, Run(t, s, g)
  PROVE  Replay(t, s) = g[n]
<1>1. PICK h : Run(t, s, h) /\ h[n] = Replay(t, s)
  BY ReplayRuns
<1>2. QED BY <1>1, RunsAgree

\* Nothing to replay; one request more at the end; the first request taken out.
LEMMA ReplayEmpty ==
  ASSUME NEW t PROVE Replay(t, <<>>) = t
<1>1. DOMAIN << >> = 1..0 /\ Len(<< >>) = 0
  OBVIOUS
<1>2. PICK g : Run(t, <<>>, g) /\ g[0] = Replay(t, <<>>)
  BY <1>1, ReplayRuns
<1>3. QED BY <1>2 DEF Run

LEMMA ReplayAppend ==
  ASSUME NEW t, NEW s \in Seq(Requests), NEW r \in Requests
  PROVE  Replay(t, Append(s, r)) = Apply(Replay(t, s), r)
<1> DEFINE u == Append(s, r)
           n == Len(s)
<1>1. n \in Nat /\ DOMAIN s = 1..n
  BY LenProperties
<1>2. /\ Len(u) = n + 1 /\ DOMAIN u = 1..(n + 1)
      /\ u[n + 1] = r /\ \A i \in 1..n : u[i] = s[i]
  BY AppendProperties, LenProperties
<1> HIDE DEF u, n
<1>3. PICK g : Run(t, u, g) /\ g[n + 1] = Replay(t, u)
  BY <1>1, <1>2, ReplayRuns
<1>4. Run(t, s, g)
  BY <1>1, <1>2, <1>3 DEF Run, n
<1>5. Replay(t, s) = g[n]
  BY <1>1, <1>4, ReplayIs DEF n
<1>6. g[n + 1] = Apply(g[n], r)
  BY <1>1, <1>2, <1>3 DEF Run
<1>7. QED BY <1>3, <1>5, <1>6 DEF u

LEMMA ReplayHead ==
  ASSUME NEW t, NEW s \in Seq(Requests), s # <<>>
  PROVE  Replay(t, s) = Replay(Apply(t, Head(s)), Tail(s))
<1> DEFINE u == Tail(s)
           n == Len(s)
           v == Apply(t, Head(s))
<1>1. n \in Nat /\ n # 0 /\ DOMAIN s = 1..n
  BY LenProperties, EmptySeq
<1>2. /\ u \in Seq(Requests) /\ Head(s) = s[1]
      /\ Len(u) = n - 1 /\ \A i \in 1..(n - 1) : u[i] = s[i + 1]
  BY <1>1, HeadTailProperties
<1>3. DOMAIN u = 1..(n - 1)
  BY <1>2, LenProperties
<1>4. v = Apply(t, s[1])
  BY <1>2
<1> HIDE DEF u, n, v
<1>5. PICK g : Run(t, s, g) /\ g[n] = Replay(t, s)
  BY <1>1, ReplayRuns DEF n
<1> DEFINE h == [i \in 0..(n - 1) |-> g[i + 1]]
<1>6. h[0] = v
  BY <1>1, <1>4, <1>5 DEF Run, n
<1>7. ASSUME NEW i \in 1..(n - 1) PROVE h[i] = Apply(h[i - 1], u[i])
  <2>1. g[i + 1] = Apply(g[i], s[i + 1])
    BY <1>1, <1>5 DEF Run, n
  <2>2. QED BY <1>1, <1>2, <2>1
<1>8. h[n - 1] = g[n]
  BY <1>1
<1> HIDE DEF h
<1>9. Run(v, u, h)
  BY <1>2, <1>6, <1>7 DEF Run
<1>10. Replay(v, u) = h[n - 1]
  <2>1. n - 1 \in Nat
    BY <1>1
  <2>2. QED BY <1>2, <1>3, <1>9, <2>1, ReplayIs
<1>11. QED BY <1>5, <1>8, <1>10 DEF u, v

-----------------------------------------------------------------------------
(* The requests a new client is sent rebuild the tables.                   *)
\* The elements behind the one removed move up.
LEMMA RemoveAtIs ==
  ASSUME NEW T, NEW s \in Seq(T), NEW i \in 1..Len(s)
  PROVE  /\ Len(RemoveAt(s, i)) = Len(s) - 1
         /\ \A j \in 1..(Len(s) - 1) :
              RemoveAt(s, i)[j] = IF j < i THEN s[j] ELSE s[j + 1]
<1> DEFINE a == SubSeq(s, 1, i - 1)
           b == SubSeq(s, i + 1, Len(s))
<1>1. /\ a \in Seq(T) /\ Len(a) = i - 1
      /\ \A j \in 1..(i - 1) : a[j] = s[j]
  BY SubSeqProperties
<1>2. /\ b \in Seq(T) /\ Len(b) = Len(s) - i
      /\ \A j \in 1..(Len(s) - i) : b[j] = s[i + j]
  BY SubSeqProperties
<1>3. RemoveAt(s, i) = a \o b
  BY DEF RemoveAt
<1> HIDE DEF a, b
<1>4. Len(s) \in Nat
  BY LenProperties
<1>5. /\ Len(a \o b) = Len(a) + Len(b)
      /\ \A j \in 1..(Len(a) + Len(b)) :
           (a \o b)[j] = IF j <= Len(a) THEN a[j] ELSE b[j - Len(a)]
  BY <1>1, <1>2, ConcatProperties
<1>6. ASSUME NEW j \in 1..(Len(s) - 1)
      PROVE  (a \o b)[j] = IF j < i THEN s[j] ELSE s[j + 1]
  <2>1. CASE j < i
    <3>1. (a \o b)[j] = a[j] /\ j \in 1..(i - 1)
      BY <1>1, <1>2, <1>4, <1>5, <2>1
    <3>2. QED BY <1>1, <2>1, <3>1
  <2>2. CASE ~ (j < i)
    <3>1. (a \o b)[j] = b[j - (i - 1)] /\ j - (i - 1) \in 1..(Len(s) - i)
      BY <1>1, <1>2, <1>4, <1>5, <2>2
    <3>2. b[j - (i - 1)] = s[i + (j - (i - 1))] /\ i + (j - (i - 1)) = j + 1
      BY <1>2, <1>4, <3>1
    <3>3. QED BY <2>2, <3>1, <3>2
  <2>3. QED BY <2>1, <2>2
<1>7. QED BY <1>1, <1>2, <1>3, <1>4, <1>5, <1>6

\* A key is in a table at most twice, and then in neighbouring entries.
PairedRoutes(s) ==
  \A i, j \in 1..Len(s) : i < j /\ s[i].key = s[j].key => j = i + 1
PairedMacs(s) ==
  \A i, j \in 1..Len(s) : i < j /\ s[i] = s[j] => j = i + 1
Paired(t) == PairedRoutes(t.rt) /\ PairedMacs(t.mac)

\* CREATE compares with all entries but the last (common.c:256), UPDATE changes no
\* key and DELETE takes one entry out: pairs stay pairs.
LEMMA EditRoutesPaired ==
  ASSUME NEW s \in Seq(Routes), NEW e \in Routes, NEW op \in TableOps,
         PairedRoutes(s), check_condition(s, e.key, op)
  PROVE  PairedRoutes(EditRoutes(s, e, op))
<1> DEFINE n == Len(s)
<1>0. n \in Nat /\ \A i \in 1..n : s[i] \in Routes
  BY LenProperties, ElementOfSeq
<1>1. CASE op = "CREATE"
  <2> DEFINE u == Append(s, e)
  <2>1. Len(u) = n + 1 /\ u[n + 1] = e /\ \A i \in 1..n : u[i] = s[i]
    BY AppendProperties
  <2>2. \A i \in 1..(n - 1) : s[i].key # e.key
    BY <1>1 DEF check_condition, HasKey
  <2>3. EditRoutes(s, e, op) = u
    BY <1>1 DEF EditRoutes, add_last_entry_list
  <2> HIDE DEF u, n
  <2>4. ASSUME NEW i \in 1..(n + 1), NEW j \in 1..(n + 1), i < j, u[i].key = u[j].key
        PROVE  j = i + 1
    <3>1. CASE j = n + 1
      <4>1. i \in 1..n /\ u[i] = s[i] /\ u[j] = e
        BY <1>0, <2>1, <2>4, <3>1
      <4>2. i \notin 1..(n - 1)
        BY <2>2, <2>4, <4>1
      <4>3. QED BY <1>0, <3>1, <4>1, <4>2
    <3>2. CASE j # n + 1
      <4>1. i \in 1..n /\ j \in 1..n
        BY <1>0, <2>4, <3>2
      <4>2. QED BY <2>1, <2>4, <4>1 DEF PairedRoutes, n
    <3>3. QED BY <3>1, <3>2
  <2>5. QED BY <2>1, <2>3, <2>4 DEF PairedRoutes
<1>2. CASE op = "UPDATE"
  <2> DEFINE u == update_entry_table(s, e)
  <2>1. Len(u) = n /\ \A i \in 1..n : u[i].key = s[i].key
    BY <1>0 DEF update_entry_table
  <2>2. EditRoutes(s, e, op) = u
    BY <1>2 DEF EditRoutes
  <2> HIDE DEF u
  <2>3. QED BY <2>1, <2>2 DEF PairedRoutes
<1>3. CASE op = "DELETE"
  <2> DEFINE I == {i \in 1..n : s[i].key = e.key}
             m == Min(I)
             u == RemoveAt(s, m)
  <2>0. EditRoutes(s, e, op) = IF I # {} THEN u ELSE s
    BY <1>3 DEF EditRoutes, remove_node_list, RemoveFirstMatch, SelectInSeq
  <2>1. CASE I # {}
    <3>1. I \in SUBSET Nat
      BY <1>0
    <3> HIDE DEF I
    <3>2. m \in I
      BY <2>1, <3>1, MinOf
    <3> USE DEF I
    <3> HIDE DEF m
    <3>4. m \in 1..n
      BY <3>2
    <3>5. Len(u) = n - 1 /\ \A j \in 1..(n - 1) : u[j] = IF j < m THEN s[j] ELSE s[j + 1]
      BY <3>4, RemoveAtIs
    <3> HIDE DEF u, n, I
    <3>6. ASSUME NEW i \in 1..(n - 1), NEW j \in 1..(n - 1), i < j, u[i].key = u[j].key
          PROVE  j = i + 1
      <4> DEFINE x == IF i < m THEN i ELSE i + 1
                 y == IF j < m THEN j ELSE j + 1
      <4>1. x \in 1..n /\ y \in 1..n /\ x < y /\ u[i] = s[x] /\ u[j] = s[y]
        BY <1>0, <3>4, <3>5, <3>6
      <4>2. y = x + 1
        BY <3>6, <4>1 DEF PairedRoutes, n
      <4>3. QED BY <1>0, <3>4, <3>6, <4>2
    <3>7. QED BY <2>0, <2>1, <3>5, <3>6 DEF PairedRoutes
  <2>2. CASE I = {}
    BY <2>0, <2>2
  <2>3. QED BY <2>1, <2>2
<1>4. QED BY <1>1, <1>2, <1>3 DEF TableOps

\* The same for the MAC addresses.
LEMMA EditMacsPaired ==
  ASSUME NEW s \in Seq(Macs), NEW a \in Macs, NEW op \in TableOps,
         PairedMacs(s), check_condition_mac(s, a, op)
  PROVE  PairedMacs(EditMacs(s, a, op))
<1> DEFINE n == Len(s)
<1>0. n \in Nat
  BY LenProperties
<1>1. CASE op = "CREATE"
  <2> DEFINE u == Append(s, a)
  <2>1. Len(u) = n + 1 /\ u[n + 1] = a /\ \A i \in 1..n : u[i] = s[i]
    BY AppendProperties
  <2>2. \A i \in 1..(n - 1) : s[i] # a
    BY <1>1 DEF check_condition_mac, HasMac
  <2>3. EditMacs(s, a, op) = u
    BY <1>1 DEF EditMacs, add_last_entry_list_mac
  <2> HIDE DEF u, n
  <2>4. ASSUME NEW i \in 1..(n + 1), NEW j \in 1..(n + 1), i < j, u[i] = u[j]
        PROVE  j = i + 1
    <3>1. CASE j = n + 1
      <4>1. i \in 1..n /\ u[i] = s[i] /\ u[j] = a
        BY <1>0, <2>1, <2>4, <3>1
      <4>2. i \notin 1..(n - 1)
        BY <2>2, <2>4, <4>1
      <4>3. QED BY <1>0, <3>1, <4>1, <4>2
    <3>2. CASE j # n + 1
      <4>1. i \in 1..n /\ j \in 1..n
        BY <1>0, <2>4, <3>2
      <4>2. QED BY <2>1, <2>4, <4>1 DEF PairedMacs, n
    <3>3. QED BY <3>1, <3>2
  <2>5. QED BY <2>1, <2>3, <2>4 DEF PairedMacs
<1>2. CASE op = "UPDATE"
  <2>1. EditMacs(s, a, op) = s
    BY <1>2, LenProperties DEF EditMacs, update_entry_table_mac
  <2>2. QED BY <2>1
<1>3. CASE op = "DELETE"
  <2> DEFINE I == {i \in 1..n : s[i] = a}
             m == Min(I)
             u == RemoveAt(s, m)
  <2>0. EditMacs(s, a, op) = IF I # {} THEN u ELSE s
    BY <1>3 DEF EditMacs, remove_node_list_mac, RemoveFirstMatch, SelectInSeq
  <2>1. CASE I # {}
    <3>1. I \in SUBSET Nat
      BY <1>0
    <3> HIDE DEF I
    <3>2. m \in I
      BY <2>1, <3>1, MinOf
    <3> USE DEF I
    <3> HIDE DEF m
    <3>4. m \in 1..n
      BY <3>2
    <3>5. Len(u) = n - 1 /\ \A j \in 1..(n - 1) : u[j] = IF j < m THEN s[j] ELSE s[j + 1]
      BY <3>4, RemoveAtIs
    <3> HIDE DEF u, n, I
    <3>6. ASSUME NEW i \in 1..(n - 1), NEW j \in 1..(n - 1), i < j, u[i] = u[j]
          PROVE  j = i + 1
      <4> DEFINE x == IF i < m THEN i ELSE i + 1
                 y == IF j < m THEN j ELSE j + 1
      <4>1. x \in 1..n /\ y \in 1..n /\ x < y /\ u[i] = s[x] /\ u[j] = s[y]
        BY <1>0, <3>4, <3>5, <3>6
      <4>2. y = x + 1
        BY <3>6, <4>1 DEF PairedMacs, n
      <4>3. QED BY <1>0, <3>4, <3>6, <4>2
    <3>7. QED BY <2>0, <2>1, <3>5, <3>6 DEF PairedMacs
  <2>2. CASE I = {}
    BY <2>0, <2>2
  <2>3. QED BY <2>1, <2>2
<1>4. QED BY <1>1, <1>2, <1>3 DEF TableOps

\* And for the two tables.
LEMMA ChangePaired ==
  ASSUME NEW t \in Tables, NEW r \in Requests, r.op \in TableOps, Paired(t), Accepts(t, r)
  PROVE  Paired(Change(t, r))
<1>1. t.rt \in Seq(Routes) /\ t.mac \in Seq(Macs) /\ r.route \in Routes /\ r.mac \in Macs
  BY DEF Tables, Requests
<1>2. CASE r.tbl = "MAC"
  <2>1. PairedMacs(EditMacs(t.mac, r.mac, r.op))
    BY <1>1, <1>2, EditMacsPaired DEF Paired, Accepts
  <2>2. Change(t, r).rt = t.rt /\ Change(t, r).mac = EditMacs(t.mac, r.mac, r.op)
    BY <1>2 DEF Change, Tables
  <2>3. QED BY <2>1, <2>2 DEF Paired
<1>3. CASE r.tbl # "MAC"
  <2>1. PairedRoutes(EditRoutes(t.rt, r.route, r.op))
    BY <1>1, <1>3, EditRoutesPaired DEF Paired, Accepts
  <2>2. Change(t, r).rt = EditRoutes(t.rt, r.route, r.op) /\ Change(t, r).mac = t.mac
    BY <1>3 DEF Change, Tables
  <2>3. QED BY <2>1, <2>2 DEF Paired
<1>4. QED BY <1>2, <1>3

LEMMA EmptyPaired == Paired(EmptyTables)
BY DEF Paired, PairedRoutes, PairedMacs, EmptyTables, flush_routing_table_info, flush_mac_info

\* The first i elements of a sequence, and the next one.
LEMMA Prefix ==
  ASSUME NEW T, NEW s \in Seq(T), NEW i \in 1..Len(s)
  PROVE  /\ SubSeq(s, 1, i) = Append(SubSeq(s, 1, i - 1), s[i])
         /\ SubSeq(s, 1, i - 1) \in Seq(T) /\ Len(SubSeq(s, 1, i - 1)) = i - 1
         /\ \A j \in 1..(i - 1) : SubSeq(s, 1, i - 1)[j] = s[j]
<1> DEFINE a == SubSeq(s, 1, i - 1)
           b == SubSeq(s, 1, i)
<1>0. Len(s) \in Nat /\ s[i] \in T
  BY LenProperties, ElementOfSeq
<1>1. /\ a \in Seq(T) /\ Len(a) = i - 1
      /\ \A j \in 1..(i - 1) : a[j] = s[j]
  BY <1>0, SubSeqProperties
<1>2. /\ b \in Seq(T) /\ Len(b) = i
      /\ \A j \in 1..i : b[j] = s[j]
  BY <1>0, SubSeqProperties
<1> HIDE DEF a, b
<1>3. /\ Append(a, s[i]) \in Seq(T) /\ Len(Append(a, s[i])) = i
      /\ Append(a, s[i])[i] = s[i] /\ \A j \in 1..(i - 1) : Append(a, s[i])[j] = a[j]
  BY <1>0, <1>1, AppendProperties
<1>4. \A j \in 1..i : Append(a, s[i])[j] = b[j]
  BY <1>1, <1>2, <1>3
<1>5. b = Append(a, s[i])
  BY <1>2, <1>3, <1>4, SeqEqual
<1>6. QED BY <1>1, <1>5 DEF a, b

\* A replay of the requests a newly accepted client is sent gives the tables they
\* were made from: the duplicate check, run again on the way, lets every pair pass.
LEMMA SnapshotReplays ==
  ASSUME NEW t \in Tables, Paired(t), \A i \in 1..Len(t.rt) : t.rt[i].key # NoKey
  PROVE  Replay(EmptyTables, Snapshot(t)) = t
<1> DEFINE a == Len(t.rt)
           b == Len(t.mac)
           x == [i \in 1..a |-> WireRoute(t.rt[i])]
           y == [i \in 1..b |-> WireMac(t.mac[i])]
           s == Snapshot(t)
           g == [i \in 0..(a + b) |->
                   IF i <= a THEN [rt |-> SubSeq(t.rt, 1, i), mac |-> <<>>]
                             ELSE [rt |-> t.rt, mac |-> SubSeq(t.mac, 1, i - a)]]
<1>1. t.rt \in Seq(Routes) /\ t.mac \in Seq(Macs) /\ a \in Nat /\ b \in Nat
  BY LenProperties DEF Tables
<1>2. /\ x \in Seq(Requests) /\ Len(x) = a /\ \A i \in 1..a : x[i] = WireRoute(t.rt[i])
      /\ y \in Seq(Requests) /\ Len(y) = b /\ \A i \in 1..b : y[i] = WireMac(t.mac[i])
  BY <1>1, RequestTypes, ElementOfSeq
<1>3. s = x \o y
  BY DEF Snapshot
<1> HIDE DEF x, y, s, a, b
<1>4. /\ s \in Seq(Requests) /\ Len(s) = a + b
      /\ \A i \in 1..(a + b) : s[i] = IF i <= a THEN x[i] ELSE y[i - a]
  <2>1. /\ x \o y \in Seq(Requests) /\ Len(x \o y) = Len(x) + Len(y)
        /\ \A i \in 1..(Len(x) + Len(y)) :
             (x \o y)[i] = IF i <= Len(x) THEN x[i] ELSE y[i - Len(x)]
    BY <1>2, ConcatProperties
  <2>2. QED BY <1>2, <1>3, <2>1
<1>5. DOMAIN s = 1..(a + b)
  BY <1>4, LenProperties
<1>6. g[0] = EmptyTables
  <2>1. SubSeq(t.rt, 1, 0) = <<>>
    BY <1>1, SubSeqProperties, EmptySeq
  <2>2. 0 \in 0..(a + b) /\ 0 <= a
    BY <1>1
  <2>3. QED BY <2>1, <2>2 DEF EmptyTables, flush_routing_table_info, flush_mac_info
<1>7. ASSUME NEW i \in 1..(a + b), i <= a
      PROVE  g[i] = Apply(g[i - 1], s[i])
  <2> DEFINE e == t.rt[i]
             h == SubSeq(t.rt, 1, i - 1)
  <2>0. i \in 1..a /\ e \in Routes /\ e.key # NoKey
    BY <1>1, <1>7, ElementOfSeq DEF a
  <2>1. /\ SubSeq(t.rt, 1, i) = Append(h, e) /\ Len(h) = i - 1
        /\ \A j \in 1..(i - 1) : h[j] = t.rt[j]
    BY <1>1, <2>0, Prefix DEF a
  <2>2. s[i] = RouteReq("CREATE", e)
    BY <1>2, <1>4, <1>7, <2>0 DEF WireRoute
  <2>3. g[i] = [rt |-> Append(h, e), mac |-> <<>>] /\ g[i - 1] = [rt |-> h, mac |-> <<>>]
    <3>1. i \in 0..(a + b) /\ i - 1 \in 0..(a + b) /\ i - 1 <= a
      BY <1>1, <1>7
    <3>2. QED BY <1>7, <2>1, <3>1
  <2>4. ~ HasKey(h, e.key, Len(h) - 1)
    <3> SUFFICES ASSUME NEW j \in 1..(i - 2), h[j].key = e.key PROVE FALSE
      BY <2>1 DEF HasKey
    <3>1. j \in 1..a /\ j < i /\ t.rt[j].key = t.rt[i].key
      BY <1>1, <2>0, <2>1
    <3>2. i = j + 1
      BY <2>0, <3>1 DEF Paired, PairedRoutes, a
    <3>3. QED BY <2>0, <3>2
  <2> HIDE DEF e, h, g
  <2>5. /\ s[i].op = "CREATE" /\ s[i].tbl = "RT" /\ s[i].route = e
        /\ g[i - 1].rt = h
    BY <2>2, <2>3 DEF RouteReq, Plain
  <2>6. Accepts(g[i - 1], s[i])
    BY <2>4, <2>5 DEF Accepts, check_condition
  <2>7. Change(g[i - 1], s[i]) = g[i]
    BY <2>3, <2>5 DEF Change, EditRoutes, add_last_entry_list
  <2>8. QED BY <2>5, <2>6, <2>7 DEF Apply, TableOps
<1>8. ASSUME NEW i \in 1..(a + b), ~ (i <= a)
      PROVE  g[i] = Apply(g[i - 1], s[i])
  <2> DEFINE k == i - a
             e == t.mac[k]
             h == SubSeq(t.mac, 1, k - 1)
  <2>0. k \in 1..b /\ e \in Macs
    <3>1. k \in 1..b
      BY <1>1, <1>8
    <3> HIDE DEF k
    <3>2. QED BY <1>1, <3>1, ElementOfSeq DEF b
  <2>1. /\ SubSeq(t.mac, 1, k) = Append(h, e) /\ Len(h) = k - 1
        /\ \A j \in 1..(k - 1) : h[j] = t.mac[j]
    <3> HIDE DEF k
    <3>1. QED BY <1>1, <2>0, Prefix DEF b
  <2>2. s[i] = MacReq("CREATE", e)
    BY <1>2, <1>4, <1>8, <2>0 DEF WireMac
  <2>3. g[i] = [rt |-> t.rt, mac |-> Append(h, e)] /\ g[i - 1] = [rt |-> t.rt, mac |-> h]
    <3>1. g[i] = [rt |-> t.rt, mac |-> Append(h, e)]
      <4>1. i \in 0..(a + b)
        BY <1>1
      <4> HIDE DEF h, e
      <4>2. QED BY <1>8, <2>1, <4>1
    <3>2. CASE k = 1
      <4>1. SubSeq(t.rt, 1, a) = t.rt /\ h = <<>> /\ i - 1 = a
        <5>1. SubSeq(t.rt, 1, a) = t.rt
          BY <1>1, SubSeqFull DEF a
        <5>2. h = <<>>
          BY <1>1, <3>2, SubSeqProperties, EmptySeq
        <5>3. QED BY <1>1, <3>2, <5>1, <5>2
      <4>2. i - 1 \in 0..(a + b) /\ i - 1 <= a
        BY <1>1, <4>1
      <4> HIDE DEF h, e
      <4>3. QED BY <3>1, <4>1, <4>2
    <3>3. CASE k # 1
      <4>1. i - 1 \in 0..(a + b) /\ ~ (i - 1 <= a) /\ i - 1 - a = k - 1
        <5>1. k = i - a /\ k >= 1
          BY <1>1, <1>8
        <5> HIDE DEF k
        <5>2. QED BY <1>1, <1>8, <3>3, <5>1
      <4>2. QED BY <3>1, <4>1
    <3>4. QED BY <3>2, <3>3
  <2>4. ~ HasMac(h, e, Len(h) - 1)
    <3>0. k \in Int
      BY <1>1, <1>8
    <3> HIDE DEF k
    <3> SUFFICES ASSUME NEW j \in 1..(k - 2), h[j] = e PROVE FALSE
      BY <2>1, <3>0 DEF HasMac
    <3>1. j \in 1..b /\ j < k /\ t.mac[j] = t.mac[k]
      <4>0. j \in 1..(k - 1)
        BY <3>0
      <4>1. h[j] = t.mac[j] /\ h[j] = e
        BY <2>1, <4>0
      <4>2. QED BY <1>1, <2>0, <4>1
    <3>2. k = j + 1
      BY <2>0, <3>1 DEF Paired, PairedMacs, b
    <3>3. QED BY <2>0, <3>2
  <2> HIDE DEF e, h, g, k
  <2>5. /\ s[i].op = "CREATE" /\ s[i].tbl = "MAC" /\ s[i].mac = e
        /\ g[i - 1].mac = h
    BY <2>2, <2>3 DEF MacReq, Plain
  <2>6. Accepts(g[i - 1], s[i])
    BY <2>4, <2>5 DEF Accepts, check_condition_mac
  <2>7. Change(g[i - 1], s[i]) = g[i]
    <3>1. EditMacs(h, e, "CREATE") = Append(h, e)
      BY DEF EditMacs, add_last_entry_list_mac
    <3>2. Change(g[i - 1], s[i]) = [g[i - 1] EXCEPT !.mac = Append(h, e)]
      BY <2>5, <3>1 DEF Change
    <3>3. \A p, q, v : [[rt |-> p, mac |-> q] EXCEPT !.mac = v] = [rt |-> p, mac |-> v]
      OBVIOUS
    <3>4. [[rt |-> t.rt, mac |-> h] EXCEPT !.mac = Append(h, e)]
            = [rt |-> t.rt, mac |-> Append(h, e)]
      BY <3>3
    <3>5. QED BY <2>3, <3>2, <3>4, Zenon
  <2>8. QED BY <2>5, <2>6, <2>7 DEF Apply, TableOps
<1>9. g[a + b] = t
  <2>1. SubSeq(t.rt, 1, a) = t.rt /\ SubSeq(t.mac, 1, b) = t.mac
    BY <1>1, SubSeqFull DEF a, b
  <2>2. t = [rt |-> t.rt, mac |-> t.mac]
    BY DEF Tables
  <2>3. CASE b = 0
    <3>1. t.mac = <<>>
      BY <1>1, <2>3, EmptySeq DEF b
    <3>2. QED BY <1>1, <2>1, <2>2, <2>3, <3>1
  <2>4. CASE b # 0
    BY <1>1, <2>1, <2>2, <2>4
  <2>5. QED BY <2>3, <2>4
<1> HIDE DEF g
<1>10. Run(EmptyTables, s, g)
  BY <1>4, <1>6, <1>7, <1>8 DEF Run
<1>11. a + b \in Nat
  BY <1>1
<1>12. Replay(EmptyTables, s) = g[a + b]
  BY <1>4, <1>5, <1>10, <1>11, ReplayIs
<1>13. QED BY <1>9, <1>12 DEF s

-----------------------------------------------------------------------------
(* The strengthening for the replication.                                  *)
\* What waits for an IP was let through by the duplicate check, and the tables do
\* not change while it waits.
WaitingOK ==
  pc \in {"prompt", "store"} => req \in Inputs /\ req.op \in TableOps /\ Accepts(tables, req)

\* A client that has not been accepted has nothing in its tables.
UnservedEmpty == Up => \A c \in Clients \ open_fds : copy[c] = EmptyTables

\* The check of a client in step still holds when the list is changed: no handler
\* runs in between.
CheckHolds ==
  \A c \in Clients \ outOfStep : cpc[c] = "applying" => Accepts(copy[c], creq[c])

\* What the replication needs beside IInv and FlushInv.
SyncInv == Paired(tables) /\ WaitingOK /\ UnservedEmpty /\ CheckHolds /\ OneAlive

\* A client's step changes its own tables and request only.
LEMMA ClientTables ==
  ASSUME TypeOK, FlushInv, NEW c \in Clients, Client(c)
  PROVE  /\ \A d \in Clients \ {c} : copy'[d] = copy[d] /\ creq'[d] = creq[d]
         /\ c \notin open_fds /\ Up /\ copy[c] = EmptyTables => copy'[c] = EmptyTables
         /\ c \notin outOfStep /\ cpc'[c] = "applying" =>
              \/ cpc[c] = "got" /\ Accepts(copy'[c], creq'[c])
              \/ cpc[c] = "applying" /\ copy'[c] = copy[c] /\ creq'[c] = creq[c]
<1>1. /\ cpc \in [Clients -> ClientPcs] /\ copy \in [Clients -> Tables]
      /\ creq \in [Clients -> Requests]
  BY DEF TypeOK
<1>2. /\ c \notin open_fds /\ Up => cpc[c] \notin {"got", "applying"}
      /\ c \notin outOfStep /\ sig[c] => cpc[c] \in {"idle", "gone"}
  BY DEF FlushInv, UnservedWaits, SignalledAtRest
<1> USE DEF server, streams, clients
<1>3. CASE Interrupt(c) \/ Crash(c) \/ Quit(c)
  BY <1>1, <1>3 DEF Interrupt, Crash, Quit, End
<1>4. CASE SendPid(c) \/ InstallHandlers(c) \/ Read(c)
  BY <1>1, <1>4 DEF SendPid, InstallHandlers, Read, End
<1>5. CASE Begin(c)
  BY <1>1, <1>2, <1>5 DEF Begin, End, Done
<1>6. CASE Show(c)
  BY <1>1, <1>2, <1>6 DEF Show, End, Done
<1>7. CASE Finish(c)
  BY <1>1, <1>2, <1>7 DEF Finish, Done
<1>8. CASE FlushHandler(c)
  <2>1. /\ UNCHANGED <<cpc, creq>> /\ sig[c] /\ copy' = [copy EXCEPT ![c] = EmptyTables]
    BY <1>8 DEF FlushHandler
  <2>2. QED BY <1>1, <1>2, <2>1
<1>9. QED BY <1>3, <1>4, <1>5, <1>6, <1>7, <1>8 DEF Client, ClientStep

\* The server changes its tables only by a request that passed the check, or
\* empties them.
LEMMA TablesChange ==
  ASSUME TypeOK, WaitingOK, [Next]_vars
  PROVE  \/ UNCHANGED tables
         \/ tables' = EmptyTables
         \/ \E r \in Inputs : /\ r.op \in TableOps /\ Accepts(tables, r)
                              /\ tables' = Change(tables, r)
<1>1. CASE Store
  BY <1>1 DEF Store, Commit, WaitingOK
<1>2. CASE Console
  BY <1>2 DEF Console, ConsoleEdit, ConsoleMac, ConsoleShow, ConsoleFlush, ConsoleNothing,
              Commit
<1>3. CASE SendTable \/ Broadcast \/ SelectClients \/ QuitWrite \/ Answer \/ SigInt
  BY <1>3 DEF SendTable, Broadcast, SelectClients, QuitWrite, Answer, AnswerStored,
              AnswerRejected, AnswerBlank, SigInt
<1>4. CASE Kill \/ Accept \/ ReadClient
  BY <1>4 DEF Kill, Accept, ReadClient
<1>5. ASSUME NEW c \in Clients, Client(c) \/ Start(c) PROVE UNCHANGED tables
  BY <1>5, ClientFrame DEF Start
<1>6. CASE UNCHANGED vars
  BY <1>6 DEF vars, server
<1>7. QED BY <1>1, <1>2, <1>3, <1>4, <1>5, <1>6, Steps DEF Serving

\* The four parts are kept by every step.
LEMMA PairedPreserved == TypeOK /\ SyncInv /\ [Next]_vars => Paired(tables)'
<1> SUFFICES ASSUME TypeOK, SyncInv, [Next]_vars PROVE Paired(tables')
  OBVIOUS
<1>1. tables \in Tables /\ Paired(tables) /\ WaitingOK
  BY DEF TypeOK, SyncInv
<1>2. ASSUME NEW r \in Inputs, r.op \in TableOps, Accepts(tables, r), tables' = Change(tables, r)
      PROVE  Paired(tables')
  <2>1. r \in Requests
    BY InputAssumption
  <2>2. Paired(Change(tables, r))
    BY <1>1, <1>2, <2>1, ChangePaired
  <2>3. QED BY <1>2, <2>2
<1>3. QED BY <1>1, <1>2, EmptyPaired, TablesChange

LEMMA WaitingPreserved == TypeOK /\ WaitingOK /\ [Next]_vars => WaitingOK'
<1> SUFFICES ASSUME TypeOK, WaitingOK, [Next]_vars PROVE WaitingOK'
  OBVIOUS
<1>1. ASSUME UNCHANGED <<pc, tables, req>> PROVE WaitingOK'
  BY <1>1 DEF WaitingOK
<1>2. ASSUME pc' \notin {"prompt", "store"} PROVE WaitingOK'
  BY <1>2 DEF WaitingOK
<1>3. CASE Store \/ SendTable \/ Broadcast \/ SelectClients \/ QuitWrite \/ SigInt
  <2>1. pc' \notin {"prompt", "store"}
    BY <1>3 DEF Store, SendTable, Broadcast, SelectClients, QuitWrite, SigInt, Commit,
                BroadcastTo, Loop, WriteTo
  <2>2. QED BY <1>2, <2>1
<1>4. CASE Kill \/ Accept \/ ReadClient
  <2>1. pc' \notin {"prompt", "store"}
    BY <1>4 DEF Kill, Accept, ReadClient, Loop
  <2>2. QED BY <1>2, <2>1
<1>5. ASSUME NEW r \in Inputs, ConsoleMac(r) PROVE WaitingOK'
  BY <1>5 DEF ConsoleMac, ConsoleReads, WaitingOK
<1>6. ASSUME NEW r \in Inputs, ConsoleEdit(r) \/ ConsoleShow(r) \/ ConsoleFlush(r) \/ ConsoleNothing(r)
      PROVE  pc' \notin {"prompt", "store"}
  BY <1>6 DEF ConsoleEdit, ConsoleShow, ConsoleFlush, ConsoleNothing, ConsoleReads, Commit,
              BroadcastTo, Loop
<1>7. CASE Answer
  BY <1>7 DEF Answer, AnswerStored, AnswerRejected, AnswerBlank, BroadcastTo, Loop, WaitingOK
<1>8. ASSUME NEW c \in Clients, Client(c) \/ Start(c) PROVE UNCHANGED <<pc, tables, req>>
  BY <1>8, ClientFrame DEF Start
<1>9. CASE UNCHANGED vars
  BY <1>1, <1>9 DEF vars, server
<1>10. QED BY <1>1, <1>2, <1>3, <1>4, <1>5, <1>6, <1>7, <1>8, <1>9, Steps DEF Serving, Console

\* A process id belongs to one living process: a new process gets a free one.
LEMMA OneAlivePreserved == TypeOK /\ OneAlive /\ [Next]_vars => OneAlive'
<1> SUFFICES ASSUME TypeOK, OneAlive, [Next]_vars PROVE OneAlive'
  OBVIOUS
<1>1. cpc \in [Clients -> ClientPcs]
  BY DEF TypeOK
<1>2. ASSUME \A d \in Clients : Alive(d)' => Alive(d) PROVE OneAlive'
  BY <1>2 DEF OneAlive
<1>3. ASSUME NEW c \in Clients, Client(c) PROVE \A d \in Clients : Alive(d)' => Alive(d)
  <2>1. Alive(c) /\ \E q \in ClientPcs : cpc' = [cpc EXCEPT ![c] = q]
    BY <1>3, ClientWrites DEF Alive, ClientPcs
  <2>2. QED BY <1>1, <2>1 DEF Alive
<1>4. ASSUME NEW c \in Clients, Start(c) PROVE OneAlive'
  <2>1. /\ cpc' = [cpc EXCEPT ![c] = "connected"]
        /\ \A d \in Clients : Alive(d) => PidOf[d] # PidOf[c]
    BY <1>4 DEF Start
  <2>2. \A d \in Clients \ {c} : Alive(d)' <=> Alive(d)
    BY <1>1, <2>1 DEF Alive
  <2>3. QED BY <2>1, <2>2 DEF OneAlive
<1>5. CASE Kill
  BY <1>1, <1>2, <1>5, KillFrame DEF Alive
<1>6. CASE Serving \/ Accept \/ ReadClient \/ UNCHANGED vars
  <2>1. UNCHANGED cpc
    BY <1>6, ServingFrame DEF Accept, ReadClient, vars, clients
  <2>2. QED BY <1>2, <2>1 DEF Alive
<1>7. QED BY <1>2, <1>3, <1>4, <1>5, <1>6, Steps

LEMMA SyncPreserved == IInv /\ FlushInv /\ SyncInv /\ [Next]_vars => SyncInv'
<1> SUFFICES ASSUME IInv, FlushInv, SyncInv, [Next]_vars PROVE SyncInv'
  OBVIOUS
<1>1. /\ TypeOK /\ UnservedEmpty /\ CheckHolds /\ WaitingOK /\ OneAlive
      /\ cpc \in [Clients -> ClientPcs] /\ copy \in [Clients -> Tables]
      /\ creq \in [Clients -> Requests]
  BY DEF IInv, SyncInv, TypeOK
<1>2. Paired(tables)' /\ WaitingOK' /\ OneAlive'
  BY <1>1, PairedPreserved, WaitingPreserved, OneAlivePreserved
<1> SUFFICES UnservedEmpty' /\ CheckHolds'
  BY <1>2 DEF SyncInv
<1>3. ASSUME UNCHANGED <<cpc, copy, creq>>, open_fds \subseteq open_fds',
             outOfStep \subseteq outOfStep', Up' => Up
      PROVE  UnservedEmpty' /\ CheckHolds'
  BY <1>1, <1>3 DEF UnservedEmpty, CheckHolds
<1>4. CASE Serving
  BY <1>3, <1>4, ServingFrame, ServingWrites DEF clients
<1>5. CASE Accept \/ ReadClient
  BY <1>3, <1>5 DEF Accept, ReadClient, clients, Up, Stopped
<1>6. ASSUME NEW c \in Clients, Client(c) PROVE UnservedEmpty' /\ CheckHolds'
  <2>1. UNCHANGED <<pc, open_fds, outOfStep>> /\ (Up' <=> Up)
    BY <1>1, <1>6, ClientFrame, ClientRests DEF Up
  <2>2. \A d \in Clients \ {c} : cpc'[d] = cpc[d]
    BY <1>1, <1>6, ClientRests
  <2>3. QED BY <1>1, <1>6, <2>1, <2>2, ClientTables DEF UnservedEmpty, CheckHolds
<1>7. ASSUME NEW c \in Clients, Start(c) PROVE UnservedEmpty' /\ CheckHolds'
  <2>1. /\ UNCHANGED <<pc, open_fds, outOfStep, copy, creq>>
        /\ cpc' = [cpc EXCEPT ![c] = "connected"]
    BY <1>7 DEF Start
  <2>2. QED BY <1>1, <2>1 DEF UnservedEmpty, CheckHolds, Up
<1>8. CASE Kill
  <2>1. UNCHANGED <<open_fds, outOfStep>> /\ Up
    BY <1>8 DEF Kill, Up, Stopped
  <2>2. UNCHANGED <<cpc, copy, creq>> \/ \E c \in Clients : End(c)
    BY <1>8 DEF Kill, clients
  <2>3. ASSUME NEW c \in Clients, End(c) PROVE UnservedEmpty' /\ CheckHolds'
    BY <1>1, <2>1, <2>3 DEF End, UnservedEmpty, CheckHolds
  <2>4. QED BY <1>3, <2>1, <2>2, <2>3
<1>9. CASE UNCHANGED vars
  BY <1>3, <1>9 DEF vars, server, clients, Up
<1>10. QED BY <1>4, <1>5, <1>6, <1>7, <1>8, <1>9, Steps

-----------------------------------------------------------------------------
(* The replication.  To its members the server and the clients do one of   *)
(* five things in each step: some leave, one joins, all get an update, one *)
(* applies a request, or everything is flushed.                            *)
\* The four parts of Pending(c).
Held(c) == IF cpc[c] \in {"got", "applying"} THEN <<creq[c]>> ELSE <<>>
Owed(c) == IF pc = "sendtab" /\ data_socket = c THEN outbox ELSE <<>>
Announced(c) ==
  IF pc = "bcast" /\ \E i \in todo : monitor_fd_set[i] = c THEN <<req>> ELSE <<>>

\* Each part is a sequence of requests.
LEMMA PendingParts ==
  ASSUME TypeOK, NEW c \in Clients
  PROVE  /\ Pending(c) = Held(c) \o down[c] \o Owed(c) \o Announced(c)
         /\ Held(c) \in Seq(Requests) /\ down[c] \in Seq(Requests)
         /\ Owed(c) \in Seq(Requests) /\ Announced(c) \in Seq(Requests)
         /\ Pending(c) \in Seq(Requests)
<1>1. Pending(c) = Held(c) \o down[c] \o Owed(c) \o Announced(c)
  BY DEF Pending, Held, Owed, Announced
<1>2. /\ Held(c) \in Seq(Requests) /\ down[c] \in Seq(Requests)
      /\ Owed(c) \in Seq(Requests) /\ Announced(c) \in Seq(Requests)
  BY DEF TypeOK, Held, Owed, Announced
<1>3. Held(c) \o down[c] \in Seq(Requests)
  BY <1>2, ConcatProperties
<1>4. Held(c) \o down[c] \o Owed(c) \in Seq(Requests)
  BY <1>2, <1>3, ConcatProperties
<1>5. Held(c) \o down[c] \o Owed(c) \o Announced(c) \in Seq(Requests)
  BY <1>2, <1>4, ConcatProperties
<1>6. QED BY <1>1, <1>2, <1>5

\* A sequence is its head and its tail.
LEMMA HeadThenTail ==
  ASSUME NEW s \in Seq(Requests), s # <<>>
  PROVE  <<Head(s)>> \o Tail(s) = s /\ Head(s) \in Requests /\ Tail(s) \in Seq(Requests)
<1>1. Len(s) \in Nat /\ Len(s) # 0
  BY LenProperties, EmptySeq
<1>2. SubSeq(s, 1, Len(s)) = <<s[1]>> \o SubSeq(s, 2, Len(s))
  <2>1. 1 \in 1..Len(s) /\ Len(s) \in 1..Len(s)
    BY <1>1
  <2>2. SubSeq(s, 1, Len(s)) = <<s[1]>> \o SubSeq(s, 1 + 1, Len(s))
    BY <2>1, SubSeqRecursiveFirst
  <2>3. QED BY <2>2
<1>3. SubSeq(s, 1, Len(s)) = s /\ SubSeq(s, 2, Len(s)) = Tail(s)
  BY SubSeqFull, TailIsSubSeq
<1>4. Head(s) = s[1] /\ Head(s) \in Requests /\ Tail(s) \in Seq(Requests)
  BY HeadTailProperties
<1>5. QED BY <1>2, <1>3, <1>4

\* A write takes the head of what is owed to the end of the stream, a read the head
\* of the stream to the request held.
LEMMA MoveOn ==
  ASSUME NEW d \in Seq(Requests), NEW o \in Seq(Requests), o # <<>>
  PROVE  /\ Append(d, Head(o)) \in Seq(Requests)
         /\ Append(d, Head(o)) \o Tail(o) = d \o o
<1>1. <<Head(o)>> \o Tail(o) = o /\ Head(o) \in Requests /\ Tail(o) \in Seq(Requests)
  BY HeadThenTail
<1>2. Append(d, Head(o)) \in Seq(Requests) /\ Append(d, Head(o)) = d \o <<Head(o)>>
  BY <1>1, AppendProperties, AppendIsConcat
<1>3. <<Head(o)>> \in Seq(Requests)
  BY <1>1
<1>4. (d \o <<Head(o)>>) \o Tail(o) = d \o (<<Head(o)>> \o Tail(o))
  BY <1>1, <1>3, ConcatAssociative
<1>5. QED BY <1>1, <1>2, <1>4

-----------------------------------------------------------------------------
(* The kinds of steps, seen by the members.                                *)
Same(c) == View(c)' = View(c) /\ Pending(c)' = Pending(c)

\* Nothing happens but that some are no members any more.
Leaves == UNCHANGED tables /\ \A c \in Members' : c \in Members /\ Same(c)

\* A client becomes a member: its queue is what rebuilds the tables.
Joins(c) ==
  /\ c \notin Members /\ Members' = Members \cup {c} /\ UNCHANGED tables
  /\ View(c)' = EmptyTables /\ Pending(c)' = Snapshot(tables)
  /\ \A i \in 1..Len(tables.rt) : tables.rt[i].key # NoKey
  /\ \A d \in Members : Same(d)

\* A request is applied to the tables and put at the end of every member's queue.
Updates(r) ==
  /\ Members' = Members /\ tables' = Apply(tables, r)
  /\ \A c \in Members : View(c)' = View(c) /\ Pending(c)' = Append(Pending(c), r)

\* A member applies the head of its queue.
Delivers(c) ==
  /\ c \in Members /\ Members' = Members /\ UNCHANGED tables
  /\ Pending(c) # <<>>
  /\ View(c)' = Apply(View(c), Head(Pending(c))) /\ Pending(c)' = Tail(Pending(c))
  /\ \A d \in Members \ {c} : Same(d)

\* Everything is emptied; the members that stay had nothing in their queues.
Flushes ==
  /\ Members' \subseteq Members /\ tables' = EmptyTables
  /\ \A c \in Members' : /\ Pending(c) = <<>> /\ Pending(c)' = <<>>
                         /\ View(c)' = EmptyTables

Seen ==
  \/ Leaves \/ Flushes
  \/ \E c \in Clients : Joins(c) \/ Delivers(c)
  \/ \E r \in Inputs : Updates(r)

\* The state a client's membership, view and queue are functions of.
LEMMA Unseen ==
  ASSUME TypeOK, UNCHANGED tables,
         \A c \in Members' : c \in Members /\ View(c)' = View(c) /\ Pending(c)' = Pending(c)
  PROVE  Seen
BY DEF Seen, Leaves, Same

\* With the end of the server there are no members any more.
LEMMA NoMembers ==
  ASSUME UNCHANGED tables, ~ Up' \/ pc' = "quit"
  PROVE  Seen
<1>1. Members' = {}
  BY DEF Members, Up
<1>2. QED BY <1>1 DEF Seen, Leaves

-----------------------------------------------------------------------------
(* The server's steps.                                                     *)
SeenInv == IInv /\ FlushInv /\ SyncInv

\* The client accepted joins, unless an entry has no text.
LEMMA AcceptSeen ==
  ASSUME SeenInv, Accept
  PROVE  Seen
<1>1. TypeOK /\ BacklogOK /\ UnservedWaits /\ UnservedEmpty /\ open_fds \subseteq Clients
  BY DEF SeenInv, IInv, FlushInv, SyncInv, TypeOK
<1>2. CASE Cardinality(open_fds) >= FdLimit
  BY <1>2, NoMembers DEF Accept, Up, Stopped
<1>3. CASE ~ (Cardinality(open_fds) >= FdLimit)
  <2>1. PICK c \in Clients : c = Head(backlog) /\ c \notin open_fds
    <3>1. Head(backlog) = backlog[1] /\ 1 \in 1..Len(backlog)
      BY <1>1, EmptySeq DEF Accept, TypeOK
    <3>2. QED BY <1>1, <3>1, ElementOfSeq DEF TypeOK, BacklogOK
  <2>2. /\ UNCHANGED <<tables, client_pid_set, todo, req, streams, clients>>
        /\ pc = "select" /\ open_fds' = open_fds \cup {c}
        /\ monitor_fd_set' = AddTo(monitor_fd_set, NoFd, c)
        /\ outbox' = Snapshot(tables)
        /\ IF outbox' = <<>> THEN UNCHANGED <<pc, data_socket>>
                            ELSE pc' = "sendtab" /\ data_socket' = c
        /\ outOfStep' = IF \E i \in 1..Len(tables.rt) : tables.rt[i].key = NoKey
                        THEN outOfStep \cup {c} ELSE outOfStep
    BY <1>3, <2>1 DEF Accept
  <2>3. \A d \in Clients \ {c} : Monitored(d)' <=> Monitored(d)
    <3>1. monitor_fd_set \in [Slots -> Clients \cup {Stdin, Master, NoFd}] /\ NoFd \notin Clients
      BY <1>1, ClientAssumption DEF TypeOK
    <3>2. /\ monitor_fd_set' \in [Slots -> Clients \cup {Stdin, Master, NoFd}]
          /\ \/ monitor_fd_set' = monitor_fd_set
             \/ \E k \in Slots : /\ monitor_fd_set[k] = NoFd
                                /\ monitor_fd_set' = [monitor_fd_set EXCEPT ![k] = c]
      <4> DEFINE T == Clients \cup {Stdin, Master, NoFd}
                 a == AddTo(monitor_fd_set, NoFd, c)
      <4>1. c \in T /\ MAX_CLIENTS_SUPPORT \in Nat
        BY <2>1, SlotsFacts
      <4> HIDE DEF T
      <4>2. monitor_fd_set \in [1..MAX_CLIENTS_SUPPORT -> T]
        BY <3>1, SlotsFacts DEF T
      <4> HIDE DEF a
      <4>3. ASSUME NEW n \in Nat, n = MAX_CLIENTS_SUPPORT
            PROVE  /\ a \in [1..n -> T]
                   /\ \/ a = monitor_fd_set
                      \/ \E k \in 1..n :
                           monitor_fd_set[k] = NoFd /\ a = [monitor_fd_set EXCEPT ![k] = c]
        <5>1. monitor_fd_set \in [1..n -> T]
          BY <4>2, <4>3
        <5>2. QED BY ONLY <4>1, <5>1, n \in Nat, AddToIs DEF a
      <4>4. monitor_fd_set' = a
        BY <2>2 DEF a
      <4>5. QED BY <4>1, <4>3, <4>4, SlotsFacts DEF T
    <3>3. QED BY <2>1, <3>1, <3>2 DEF Monitored, Holds
  <2>4. ASSUME NEW d \in Clients \ {c} PROVE Same(d) /\ (d \in Members' <=> d \in Members)
    <3>1. View(d)' = View(d)
      BY <2>2 DEF View, FlushPending, streams, clients
    <3>2. Pending(d)' = Pending(d)
      BY <2>2, <2>4 DEF Pending, streams, clients
    <3>3. d \in Members' <=> d \in Members
      BY <2>2, <2>3, <2>4 DEF Members, Stopped, Alive, clients
    <3>4. QED BY <3>1, <3>2, <3>3 DEF Same
  <2>5. c \notin Members
    BY <2>1 DEF Members
  <2>6. Members \subseteq Clients /\ Members' \subseteq Clients
    BY <1>1, <2>1, <2>2 DEF Members
  <2>7. CASE c \notin Members'
    BY <2>2, <2>4, <2>6, <2>7 DEF Seen, Leaves
  <2>8. CASE c \in Members'
    <3>1. Members' = Members \cup {c}
      BY <2>4, <2>6, <2>8
    <3>2. View(c)' = EmptyTables
      <4>1. copy'[c] = EmptyTables
        BY <1>1, <2>1, <2>2 DEF UnservedEmpty, Up, Stopped, clients
      <4>2. QED BY <4>1 DEF View
    <3>3. Pending(c)' = Snapshot(tables)
      <4>1. down'[c] = <<>> /\ cpc'[c] \notin {"got", "applying"}
        BY <1>1, <2>1, <2>2 DEF UnservedWaits, Up, Stopped, clients, streams
      <4>2. Snapshot(tables) \in Seq(Requests)
        BY <1>1, SnapshotType DEF TypeOK
      <4>3. Pending(c)' = <<>> \o <<>> \o Snapshot(tables) \o <<>>
        <5>1. (IF pc' = "sendtab" /\ data_socket' = c THEN outbox' ELSE <<>>) = Snapshot(tables)
          BY <2>2
        <5>2. pc' # "bcast"
          BY <2>2
        <5>3. QED BY <4>1, <5>1, <5>2 DEF Pending
      <4>4. QED BY <4>2, <4>3, ConcatEmptySeq, EmptySeq
    <3>4. \A i \in 1..Len(tables.rt) : tables.rt[i].key # NoKey
      BY <2>2, <2>8 DEF Members
    <3>5. Joins(c)
      BY <2>2, <2>4, <2>5, <2>6, <3>1, <3>2, <3>3, <3>4 DEF Joins
    <3>6. QED BY <2>1, <3>5 DEF Seen
  <2>9. QED BY <2>7, <2>8
<1>4. QED BY <1>2, <1>3

\* A write to a client that has ended stops the server; any other one moves a
\* request along the member's queue.
LEMMA SendTableSeen ==
  ASSUME SeenInv, SendTable
  PROVE  Seen
<1>1. TypeOK /\ SendingOK
  BY DEF SeenInv, IInv
<1>2. PICK c \in Clients : c = data_socket
  BY <1>1 DEF SendTable, SendingOK
<1>3. UNCHANGED tables
  BY DEF SendTable
<1>4. CASE cpc[c] = "gone"
  BY <1>2, <1>3, <1>4, NoMembers DEF SendTable, WriteTo, Up, Stopped
<1>5. CASE cpc[c] # "gone"
  <2>1. /\ down' = [down EXCEPT ![c] = Append(@, Head(outbox))]
        /\ outbox' = Tail(outbox) /\ pc = "sendtab"
        /\ IF Tail(outbox) = <<>> THEN pc' = "select" ELSE pc' = "sendtab" /\ data_socket' = c
        /\ UNCHANGED <<monitor_fd_set, client_pid_set, open_fds, outOfStep, sig, clients>>
    BY <1>2, <1>5 DEF SendTable, WriteTo, Deliver
  <2>2. outbox \in Seq(Requests) /\ outbox # <<>> /\ down[c] \in Seq(Requests)
    BY <1>1, <2>1 DEF TypeOK, SendingOK
  <2>3. Members' = Members
    BY <2>1 DEF Members, Monitored, Alive, Stopped, clients
  <2>4. \A d \in Clients : View(d)' = View(d)
    BY <2>1 DEF View, FlushPending, clients
  <2>5. \A d \in Clients \ {c} : Pending(d)' = Pending(d)
    BY <1>1, <1>2, <2>1 DEF TypeOK, Pending, clients
  <2>6. Pending(c)' = Pending(c)
    <3>1. /\ Append(down[c], Head(outbox)) \in Seq(Requests) /\ Tail(outbox) \in Seq(Requests)
          /\ Append(down[c], Head(outbox)) \o Tail(outbox) = down[c] \o outbox
      BY <2>2, MoveOn, HeadThenTail
    <3> DEFINE h == Held(c)
               a == Append(down[c], Head(outbox))
    <3>2. /\ Pending(c) = h \o down[c] \o outbox \o <<>>
          /\ Pending(c)' = h \o a \o Tail(outbox) \o <<>>
      <4>1. Held(c)' = h /\ down'[c] = a
        BY <1>1, <2>1 DEF Held, clients, TypeOK
      <4>2. Owed(c) = outbox /\ Owed(c)' = Tail(outbox) /\ Announced(c) = <<>> /\ Announced(c)' = <<>>
        BY <1>2, <2>1 DEF Owed, Announced
      <4> HIDE DEF h, a
      <4>3. /\ Pending(c) = Held(c) \o down[c] \o Owed(c) \o Announced(c)
            /\ Pending(c)' = Held(c)' \o down'[c] \o Owed(c)' \o Announced(c)'
        BY DEF Pending, Held, Owed, Announced
      <4>4. QED BY <4>1, <4>2, <4>3 DEF h
    <3>3. h \in Seq(Requests)
      BY <1>1, PendingParts
    <3> HIDE DEF h, a
    <3>4. /\ (h \o down[c]) \o outbox = h \o (down[c] \o outbox)
          /\ (h \o a) \o Tail(outbox) = h \o (a \o Tail(outbox))
      <4>1. a \in Seq(Requests)
        BY <3>1 DEF a
      <4>2. (h \o down[c]) \o outbox = h \o (down[c] \o outbox)
        <5> DEFINE e == down[c]
        <5>1. e \in Seq(Requests) /\ outbox \in Seq(Requests)
          BY <2>2
        <5> HIDE DEF e
        <5>2. (h \o e) \o outbox = h \o (e \o outbox)
          BY <3>3, <5>1, ConcatAssociative
        <5>3. QED BY <5>2 DEF e
      <4>3. (h \o a) \o Tail(outbox) = h \o (a \o Tail(outbox))
        <5>1. PICK e : e = Tail(outbox)
          OBVIOUS
        <5>2. e \in Seq(Requests)
          BY <3>1, <5>1
        <5>3. (h \o a) \o e = h \o (a \o e)
          BY ONLY <3>3, <4>1, <5>2, ConcatAssociative
        <5>4. QED BY <5>1, <5>3, Zenon
      <4>4. QED BY <4>2, <4>3
    <3>5. QED BY <3>1, <3>2, <3>4 DEF a
  <2>7. Members \subseteq Clients
    BY <1>1 DEF TypeOK, Members
  <2>8. \A d \in Clients : Pending(d)' = Pending(d)
    BY <2>5, <2>6
  <2>9. QED BY <1>1, <1>3, <2>3, <2>4, <2>7, <2>8, Unseen
<1>6. QED BY <1>4, <1>5

\* A write of the loop takes the request from the announcement to the stream.
LEMMA BroadcastSeen ==
  ASSUME SeenInv, Broadcast
  PROVE  Seen
<1> DEFINE i == Lowest(todo)
<1>1. /\ TypeOK /\ todo \in SUBSET Slots /\ Distinct(monitor_fd_set, NoFd)
      /\ DOMAIN monitor_fd_set = Slots
  BY DEF SeenInv, IInv, TypeOK, SlotArraysSound
<1>2. i \in todo /\ monitor_fd_set[i] \in Clients
  BY <1>1, LowestIs DEF SeenInv, IInv, LoopOK, Broadcast, ClientSlots
<1>3. PICK k \in todo : k = i
  BY <1>2
<1>4. PICK c \in Clients : c = monitor_fd_set[k]
  BY <1>2, <1>3
<1>5. UNCHANGED tables
  BY DEF Broadcast
<1> HIDE DEF i
<1>6. CASE cpc[c] = "gone"
  <2>1. pc' = "sigpipe"
    BY <1>3, <1>4, <1>6 DEF Broadcast, WriteTo, i
  <2>2. QED BY <1>5, <2>1, NoMembers DEF Up, Stopped
<1>7. CASE cpc[c] # "gone"
  <2>1. /\ down' = [down EXCEPT ![c] = Append(@, req)]
        /\ todo' = todo \ {k} /\ pc = "bcast"
        /\ IF todo \ {k} = {} THEN pc' = "select" ELSE pc' = "bcast" /\ req' = req
        /\ UNCHANGED <<monitor_fd_set, client_pid_set, open_fds, outOfStep, sig, clients,
                       data_socket, outbox>>
    BY <1>3, <1>4, <1>7 DEF Broadcast, WriteTo, Deliver, BroadcastTo, Loop, i
  <2>2. Members' = Members
    BY <2>1 DEF Members, Monitored, Alive, Stopped, clients
  <2>3. \A d \in Clients : View(d)' = View(d)
    BY <2>1 DEF View, FlushPending, clients
  <2>4. \A j \in todo : monitor_fd_set[j] = c => j = k
    BY <1>1, <1>4, ClientAssumption DEF Distinct
  <2>5. ASSUME NEW d \in Clients \ {c} PROVE Pending(d)' = Pending(d)
    <3>1. down'[d] = down[d] /\ Held(d)' = Held(d)
      BY <1>1, <2>1 DEF TypeOK, Held, clients
    <3>2. Owed(d) = <<>> /\ Owed(d)' = <<>>
      BY <2>1 DEF Owed
    <3>3. Announced(d)' = Announced(d)
      BY <1>4, <2>1 DEF Announced
    <3>4. /\ Pending(d) = Held(d) \o down[d] \o Owed(d) \o Announced(d)
          /\ Pending(d)' = Held(d)' \o down'[d] \o Owed(d)' \o Announced(d)'
      BY DEF Pending, Held, Owed, Announced
    <3>5. QED BY <3>1, <3>2, <3>3, <3>4
  <2>6. Pending(c)' = Pending(c)
    <3> DEFINE h == Held(c)
               e == down[c]
               a == Append(down[c], req)
    <3>1. h \in Seq(Requests) /\ e \in Seq(Requests) /\ req \in Requests
      BY <1>1, PendingParts DEF TypeOK
    <3>2. Held(c)' = h /\ down'[c] = a
      BY <1>1, <2>1 DEF Held, clients, TypeOK
    <3>3. Owed(c) = <<>> /\ Owed(c)' = <<>> /\ Announced(c) = <<req>> /\ Announced(c)' = <<>>
      BY <1>4, <2>1, <2>4 DEF Owed, Announced
    <3>4. /\ Pending(c) = Held(c) \o down[c] \o Owed(c) \o Announced(c)
          /\ Pending(c)' = Held(c)' \o down'[c] \o Owed(c)' \o Announced(c)'
      BY DEF Pending, Held, Owed, Announced
    <3>5. a \in Seq(Requests) /\ a = e \o <<req>> /\ <<req>> \in Seq(Requests)
      BY <3>1, AppendProperties, AppendIsConcat
    <3> HIDE DEF h, a, e
    <3>6. h \o e \in Seq(Requests) /\ h \o a \in Seq(Requests)
      BY <3>1, <3>5, ConcatProperties
    <3>7. (h \o e) \o <<>> = h \o e /\ (h \o a) \o <<>> = h \o a
      BY <3>6, ConcatEmptySeq
    <3>8. (h \o e) \o <<req>> = h \o a
      BY <3>1, <3>5, ConcatAssociative
    <3>9. QED BY <3>2, <3>3, <3>4, <3>7, <3>8 DEF h, e
  <2>7. Members \subseteq Clients
    BY <1>1 DEF TypeOK, Members
  <2>8. \A d \in Clients : Pending(d)' = Pending(d)
    BY <2>5, <2>6
  <2>9. QED BY <1>1, <1>5, <2>2, <2>3, <2>7, <2>8, Unseen
<1>8. QED BY <1>6, <1>7

\* A request the server has applied is announced to every member in one step.
LEMMA CommitSeen ==
  ASSUME SeenInv, NEW r \in Inputs, pc \in {"select", "store"},
         tables' = Apply(tables, r), BroadcastTo(ClientSlots, r),
         UNCHANGED <<monitor_fd_set, client_pid_set, open_fds, outOfStep, data_socket, outbox,
                     streams, clients>>
  PROVE  Seen
<1>1. TypeOK /\ DOMAIN monitor_fd_set = Slots
  BY DEF SeenInv, IInv, TypeOK
<1>2. /\ todo' = ClientSlots
      /\ IF ClientSlots = {} THEN pc' = "select" ELSE pc' = "bcast" /\ req' = r
  BY DEF BroadcastTo, Loop
<1>3. Members' = Members
  BY <1>2 DEF Members, Monitored, Alive, Stopped, clients
<1>4. ASSUME NEW c \in Members PROVE View(c)' = View(c) /\ Pending(c)' = Append(Pending(c), r)
  <2>1. c \in Clients /\ \E i \in ClientSlots : monitor_fd_set[i] = c
    BY <1>1 DEF Members, Monitored, Holds, ClientSlots, TypeOK
  <2>2. pc' = "bcast" /\ req' = r /\ \E i \in todo' : monitor_fd_set'[i] = c
    BY <1>2, <2>1
  <2>3. View(c)' = View(c)
    BY <2>2 DEF View, FlushPending, streams, clients
  <2>4. Held(c)' = Held(c) /\ down'[c] = down[c]
    BY DEF Held, streams, clients
  <2>5. Owed(c) = <<>> /\ Owed(c)' = <<>> /\ Announced(c) = <<>> /\ Announced(c)' = <<r>>
    BY <2>2 DEF Owed, Announced
  <2>6. /\ Pending(c) = Held(c) \o down[c] \o Owed(c) \o Announced(c)
        /\ Pending(c)' = Held(c)' \o down'[c] \o Owed(c)' \o Announced(c)'
    BY DEF Pending, Held, Owed, Announced
  <2>7. Held(c) \o down[c] \in Seq(Requests)
    BY <1>1, <2>1, PendingParts, ConcatProperties
  <2>8. Held(c) \o down[c] \o <<>> = Held(c) \o down[c]
    BY <2>7, ConcatEmptySeq
  <2>9. Append(Held(c) \o down[c], r) = Held(c) \o down[c] \o <<r>>
    <3>1. r \in Requests
      BY InputAssumption
    <3>2. QED BY <2>7, <3>1, AppendIsConcat
  <2>10. Pending(c)' = Append(Pending(c), r)
    BY <2>4, <2>5, <2>6, <2>8, <2>9
  <2>11. QED BY <2>3, <2>10
<1>5. Updates(r)
  BY <1>3, <1>4 DEF Updates
<1>6. QED BY <1>5 DEF Seen

\* The request that waited for its IP is applied.
LEMMA StoreSeen ==
  ASSUME SeenInv, Store
  PROVE  Seen
<1>1. pc = "store" /\ WaitingOK
  BY DEF Store, SeenInv, SyncInv
<1>2. PICK r \in Inputs : r = req /\ r.op \in TableOps /\ Accepts(tables, r)
  BY <1>1 DEF WaitingOK
<1>3. tables' = Apply(tables, r) /\ BroadcastTo(ClientSlots, r)
  BY <1>2 DEF Store, Commit, Apply, TableOps
<1>4. UNCHANGED <<monitor_fd_set, client_pid_set, open_fds, outOfStep, data_socket, outbox,
                  streams, clients>>
  BY DEF Store
<1>5. QED BY <1>1, <1>3, <1>4, CommitSeen

\* A step that touches neither streams nor clients nor arrays and starts no loop.
LEMMA QuietSeen ==
  ASSUME UNCHANGED <<tables, monitor_fd_set, client_pid_set, open_fds, outOfStep, data_socket,
                     outbox, streams, clients>>,
         pc \in {"select", "prompt"}, pc' \notin {"sendtab", "bcast", "kill"}
  PROVE  Seen
<1>1. Members' \subseteq Members
  BY DEF Members, Monitored, Alive, Stopped, clients
<1>2. ASSUME NEW c PROVE Same(c)
  <2>1. View(c)' = View(c)
    BY DEF View, FlushPending, streams, clients
  <2>2. Pending(c)' = Pending(c)
    BY DEF Pending, streams, clients
  <2>3. QED BY <2>1, <2>2 DEF Same
<1>3. QED BY <1>1, <1>2 DEF Seen, Leaves

\* The flush: the members that stay were at rest, and the signal is pending for them.
LEMMA FlushSeen ==
  ASSUME SeenInv, NEW r \in Inputs, ConsoleFlush(r)
  PROVE  Seen
<1>1. TypeOK
  BY DEF SeenInv, IInv
<1>2. /\ pc = "select" /\ tables' = EmptyTables
      /\ todo' = {i \in Slots : client_pid_set[i] # NoPid}
      /\ pc' = IF todo' = {} THEN "select" ELSE "kill"
      /\ outOfStep' = outOfStep \cup {c \in open_fds : ~AtRest(c)}
      /\ UNCHANGED <<client_pid_set, monitor_fd_set, data_socket, outbox, open_fds,
                     streams, clients>>
  BY DEF ConsoleFlush, ConsoleReads, Loop
<1>3. Members' \subseteq Members
  BY <1>2 DEF Members, Monitored, Alive, Stopped, clients
<1>4. ASSUME NEW c \in Members'
      PROVE  Pending(c) = <<>> /\ Pending(c)' = <<>> /\ View(c)' = EmptyTables
  <2>1. c \in Clients /\ AtRest(c)
    BY <1>1, <1>2, <1>3 DEF Members, TypeOK
  <2>2. /\ down[c] = <<>> /\ down'[c] = <<>> /\ cpc[c] = "idle" /\ cpc'[c] = "idle"
        /\ Holds(client_pid_set, PidOf[c])
    BY <1>2, <2>1 DEF AtRest, streams, clients
  <2>3. Pending(c) = <<>> \o <<>> \o <<>> \o <<>> /\ Pending(c)' = <<>> \o <<>> \o <<>> \o <<>>
    BY <1>2, <2>2 DEF Pending
  <2>4. <<>> \o <<>> = <<>>
    BY ConcatEmptySeq, EmptySeq
  <2>5. \E i \in todo' : client_pid_set'[i] = PidOf[c]
    BY <1>1, <1>2, <2>1, <2>2, ClientAssumption DEF Holds, TypeOK
  <2>6. View(c)' = EmptyTables
    BY <1>2, <2>5 DEF View, FlushPending
  <2>7. QED BY <2>3, <2>4, <2>6
<1>5. QED BY <1>2, <1>3, <1>4 DEF Seen, Flushes

\* What a line typed at the console is to the members.
LEMMA ConsoleSeen ==
  ASSUME SeenInv, Console
  PROVE  Seen
<1>1. PICK r \in Inputs : \/ ConsoleEdit(r) \/ ConsoleMac(r) \/ ConsoleShow(r)
                          \/ ConsoleFlush(r) \/ ConsoleNothing(r)
  BY DEF Console
<1>2. ConsoleReads => /\ pc = "select"
                      /\ UNCHANGED <<monitor_fd_set, data_socket, outbox, open_fds, streams, clients>>
  BY DEF ConsoleReads
<1>3. ConsoleReads
  BY <1>1 DEF ConsoleEdit, ConsoleMac, ConsoleShow, ConsoleFlush, ConsoleNothing
<1>4. CASE ConsoleEdit(r)
  <2>1. UNCHANGED <<client_pid_set, outOfStep>> /\ r.op \in TableOps
    BY <1>4 DEF ConsoleEdit
  <2>2. CASE Accepts(tables, r)
    <3>1. tables' = Apply(tables, r) /\ BroadcastTo(ClientSlots, r)
      BY <1>4, <2>1, <2>2 DEF ConsoleEdit, Commit, Apply, TableOps
    <3>2. QED BY <1>2, <1>3, <2>1, <3>1, CommitSeen
  <2>3. CASE ~ Accepts(tables, r)
    <3>1. UNCHANGED <<pc, tables>>
      BY <1>4, <2>3 DEF ConsoleEdit
    <3>2. QED BY <1>2, <1>3, <2>1, <3>1, QuietSeen
  <2>4. QED BY <2>2, <2>3
<1>5. CASE ConsoleMac(r) \/ ConsoleNothing(r)
  <2>1. pc' \in {"select", "prompt"} /\ UNCHANGED <<tables, client_pid_set, outOfStep>>
    BY <1>2, <1>3, <1>5 DEF ConsoleMac, ConsoleNothing
  <2>2. QED BY <1>2, <1>3, <2>1, QuietSeen
<1>6. CASE ConsoleShow(r)
  <2>1. UNCHANGED <<tables, client_pid_set, outOfStep>> /\ r.op = "SHOW"
    BY <1>6 DEF ConsoleShow
  <2>2. CASE ShowOk(tables)
    <3>1. tables' = Apply(tables, r) /\ BroadcastTo(ClientSlots, r)
      BY <1>6, <2>1, <2>2 DEF ConsoleShow, Apply, TableOps
    <3>2. QED BY <1>2, <1>3, <2>1, <3>1, CommitSeen
  <2>3. CASE ~ ShowOk(tables)
    BY <1>6, <2>1, <2>3, NoMembers DEF ConsoleShow, Up, Stopped
  <2>4. QED BY <2>2, <2>3
<1>7. QED BY <1>1, <1>4, <1>5, <1>6, FlushSeen

\* An answer that is blank announces a request the server has not applied: no client
\* that is open then stays a member.
LEMMA AnswerSeen ==
  ASSUME SeenInv, Answer
  PROVE  Seen
<1>1. CASE AnswerStored \/ AnswerRejected
  <2>1. /\ UNCHANGED <<tables, monitor_fd_set, client_pid_set, open_fds, outOfStep, data_socket,
                     outbox, streams, clients>>
        /\ pc = "prompt" /\ pc' \in {"store", "select"}
    BY <1>1 DEF AnswerStored, AnswerRejected
  <2>2. QED BY <2>1, QuietSeen
<1>2. CASE AnswerBlank
  <2>1. UNCHANGED tables /\ outOfStep' = outOfStep \cup open_fds /\ UNCHANGED open_fds
    BY <1>2 DEF AnswerBlank
  <2>2. Members' = {}
    BY <2>1 DEF Members
  <2>3. QED BY <2>1, <2>2 DEF Seen, Leaves
<1>3. QED BY <1>1, <1>2 DEF Answer

\* Starting to read from clients.
LEMMA SelectSeen ==
  ASSUME SelectClients \/ SigInt \/ QuitWrite
  PROVE  Seen
<1>1. CASE SelectClients
  <2>1. /\ UNCHANGED <<tables, monitor_fd_set, client_pid_set, open_fds, outOfStep, data_socket,
                     outbox, streams, clients>>
        /\ pc = "select" /\ pc' \in {"clients", "select"}
    BY <1>1 DEF SelectClients, Loop
  <2>2. QED BY <2>1, QuietSeen
<1>2. CASE SigInt \/ QuitWrite
  <2>1. UNCHANGED tables /\ pc' \in {"quit", "exited", "sigpipe"}
    BY <1>2 DEF SigInt, QuitWrite, WriteTo, Loop
  <2>2. QED BY <2>1, NoMembers DEF Up, Stopped
<1>3. QED BY <1>1, <1>2

\* Registering a pid or dropping a connection: the members stay as they are or
\* get fewer.
LEMMA ReadClientSeen ==
  ASSUME SeenInv, ReadClient
  PROVE  Seen
<1>1. TypeOK /\ Distinct(monitor_fd_set, NoFd) /\ NoFd \notin Clients
  BY ClientAssumption DEF SeenInv, IInv, SlotArraysSound
<1>2. /\ UNCHANGED <<tables, open_fds, outOfStep, data_socket, outbox, down, sig, clients>>
      /\ pc = "clients" /\ pc' \in {"clients", "select", "econnreset"}
      /\ \/ UNCHANGED monitor_fd_set
         \/ \E c : monitor_fd_set' = RemoveFrom(monitor_fd_set, NoFd, c)
  BY DEF ReadClient, Loop
<1>3. ASSUME NEW d \in Clients, Monitored(d)' PROVE Monitored(d)
  <2>1. monitor_fd_set \in [1..MAX_CLIENTS_SUPPORT -> Clients \cup {Stdin, Master, NoFd}]
    BY <1>1, SlotsFacts DEF TypeOK
  <2>2. ASSUME NEW c, Holds(RemoveFrom(monitor_fd_set, NoFd, c), d) PROVE Holds(monitor_fd_set, d)
    BY <1>1, <2>2 DEF RemoveFrom, Holds
  <2>3. QED BY <1>2, <1>3, <2>2 DEF Monitored
<1>4. Members' \subseteq Members
  BY <1>1, <1>2, <1>3 DEF Members, Alive, Stopped, clients, TypeOK
<1>5. ASSUME NEW c PROVE Same(c)
  <2>1. View(c)' = View(c)
    BY <1>2 DEF View, FlushPending, clients
  <2>2. Pending(c)' = Pending(c)
    BY <1>2 DEF Pending, clients
  <2>3. QED BY <2>1, <2>2 DEF Same
<1>6. QED BY <1>2, <1>4, <1>5 DEF Seen, Leaves

\* The signal sent stands for the slot left behind: a flush pending stays pending.
LEMMA KillSeen ==
  ASSUME SeenInv, Kill
  PROVE  Seen
<1>1. /\ TypeOK /\ OneAlive /\ pc = "kill" /\ todo \in SUBSET Slots /\ todo # {}
      /\ cpc \in [Clients -> ClientPcs] /\ sig \in [Clients -> BOOLEAN]
      /\ copy \in [Clients -> Tables] /\ creq \in [Clients -> Requests]
  BY DEF SeenInv, IInv, SyncInv, TypeOK, LoopOK, Kill
<1>2. PICK k \in todo : k = Lowest(todo)
  BY <1>1, LowestIs
<1>3. PICK p : p = client_pid_set[k]
  OBVIOUS
<1>4. UNCHANGED <<tables, monitor_fd_set, client_pid_set, req, data_socket, outbox,
                  open_fds, outOfStep, down>>
  BY DEF Kill
<1>5. CASE p = ZeroPid
  <2>1. pc' = "sigusr1"
    BY <1>2, <1>3, <1>5 DEF Kill
  <2>2. QED BY <1>4, <2>1, NoMembers DEF Up, Stopped
<1>6. CASE p # ZeroPid
  <2> DEFINE hit == {c \in Clients : PidOf[c] = p /\ Alive(c)}
  <2>1. todo' = todo \ {k} /\ pc' = IF todo' = {} THEN "select" ELSE "kill"
    BY <1>2, <1>3, <1>6 DEF Kill, Loop
  <2>2. \/ hit = {} /\ UNCHANGED <<sig, clients>>
        \/ \E c \in hit : \/ sig' = [sig EXCEPT ![c] = TRUE] /\ UNCHANGED clients
                          \/ End(c) /\ UNCHANGED sig
    BY <1>2, <1>3, <1>6 DEF Kill
  <2>3. ASSUME NEW d \in Members' PROVE d \in Members /\ View(d)' = View(d) /\ Pending(d)' = Pending(d)
    <3>1. d \in Clients /\ Alive(d)' /\ d \in open_fds /\ Monitored(d) /\ d \notin outOfStep
      BY <1>1, <1>4, <2>3 DEF Members, Monitored, TypeOK
    <3>2. ASSUME NEW c \in hit, End(c) PROVE d # c
      BY <1>1, <3>1, <3>2 DEF End, Alive
    <3>3. cpc'[d] = cpc[d] /\ copy'[d] = copy[d] /\ creq'[d] = creq[d] /\ dangling'[d] = dangling[d]
      <4>1. CASE UNCHANGED clients
        BY <4>1 DEF clients
      <4>2. ASSUME NEW c \in hit, End(c)
            PROVE cpc'[d] = cpc[d] /\ copy'[d] = copy[d] /\ creq'[d] = creq[d] /\ dangling'[d] = dangling[d]
        BY <1>1, <3>1, <3>2, <4>2 DEF End, TypeOK
      <4>3. QED BY <2>2, <4>1, <4>2
    <3>4. d \in Members
      BY <1>1, <2>3, <3>1, <3>3 DEF Members, Alive, Stopped
    <3>5. Pending(d)' = Pending(d)
      BY <1>1, <1>4, <2>1, <3>3 DEF Pending
    <3>6. FlushPending(d)' <=> FlushPending(d)
      <4>1. CASE PidOf[d] = p
        <5>1. d \in hit
          BY <3>1, <3>3, <4>1 DEF Alive
        <5>2. \A c \in hit : c = d
          BY <1>1, <5>1 DEF OneAlive
        <5>3. sig'[d] = TRUE
          BY <1>1, <2>2, <3>1, <3>2, <5>1, <5>2
        <5>4. FlushPending(d) /\ FlushPending(d)'
          BY <1>1, <1>3, <4>1, <5>3 DEF FlushPending
        <5>5. QED BY <5>4
      <4>2. CASE PidOf[d] # p
        <5>1. sig'[d] = sig[d]
          BY <1>1, <2>2, <3>1, <4>2
        <5>2. QED BY <1>1, <1>3, <1>4, <2>1, <4>2, <5>1 DEF FlushPending
      <4>3. QED BY <4>1, <4>2
    <3>7. View(d)' = View(d)
      BY <3>3, <3>6 DEF View
    <3>8. QED BY <3>4, <3>5, <3>7
  <2>4. QED BY <1>4, <2>3 DEF Seen, Leaves, Same
<1>7. QED BY <1>5, <1>6

-----------------------------------------------------------------------------
(* The clients' steps.                                                     *)
\* A step of c is nothing to the others, and makes no member of c.
LEMMA ClientOthers ==
  ASSUME SeenInv, NEW c \in Clients, Client(c)
  PROVE  /\ \A d \in Clients \ {c} : Same(d) /\ (d \in Members' <=> d \in Members)
         /\ c \in Members' => c \in Members
         /\ Members \subseteq Clients /\ Members' \subseteq Clients
         /\ UNCHANGED <<tables, pc, monitor_fd_set, client_pid_set, todo, req, data_socket,
                        outbox, open_fds, outOfStep>>
<1>1. TypeOK /\ FlushInv /\ open_fds \subseteq Clients
  BY DEF SeenInv, IInv, TypeOK
<1>2. UNCHANGED <<tables, pc, monitor_fd_set, client_pid_set, todo, req, data_socket,
                  outbox, open_fds, outOfStep>>
  BY <1>1, ClientFrame, ClientRests
<1>3. ASSUME NEW d \in Clients \ {c} PROVE Same(d) /\ (d \in Members' <=> d \in Members)
  <2>1. /\ cpc'[d] = cpc[d] /\ down'[d] = down[d] /\ sig'[d] = sig[d]
        /\ dangling'[d] = dangling[d] /\ copy'[d] = copy[d] /\ creq'[d] = creq[d]
    BY <1>1, ClientRests, ClientTables
  <2>2. View(d)' = View(d)
    BY <1>2, <2>1 DEF View, FlushPending
  <2>3. Pending(d)' = Pending(d)
    BY <1>2, <2>1 DEF Pending
  <2>4. d \in Members' <=> d \in Members
    BY <1>2, <2>1 DEF Members, Monitored, Alive
  <2>5. QED BY <2>2, <2>3, <2>4 DEF Same
<1>4. c \in Members' => c \in Members
  <2>1. Alive(c)
    BY <1>1, ClientWrites DEF Alive
  <2>2. c \notin outOfStep => ~ dangling[c]
    BY <1>1 DEF FlushInv, SignalledAtRest
  <2>3. QED BY <1>2, <2>1, <2>2 DEF Members, Monitored
<1>5. QED BY <1>1, <1>2, <1>3, <1>4 DEF Members

\* A client that ends or does nothing to its view and queue.
LEMMA ClientLeaves ==
  ASSUME SeenInv, NEW c \in Clients, Client(c), c \in Members' => Same(c)
  PROVE  Seen
BY ClientOthers DEF Seen, Leaves

\* A client that ends leaves.
LEMMA ClientEnds ==
  ASSUME SeenInv, NEW c \in Clients, Client(c), End(c)
  PROVE  Seen
<1>1. ~ Alive(c)'
  BY DEF SeenInv, IInv, TypeOK, End, Alive
<1>2. c \notin Members'
  BY <1>1 DEF Members
<1>3. QED BY <1>2, ClientLeaves

\* A client that changes neither its copy nor what is on its way.
LEMMA ClientStays ==
  ASSUME SeenInv, NEW c \in Clients, Client(c), Held(c)' \o down'[c] = Held(c) \o down[c],
         FlushPending(c) \/ copy'[c] = copy[c], sig'[c] = sig[c]
  PROVE  Seen
<1>1. UNCHANGED <<tables, pc, monitor_fd_set, client_pid_set, todo, req, data_socket, outbox>>
  BY ClientOthers
<1>2. View(c)' = View(c)
  BY <1>1 DEF View, FlushPending
<1>3. Owed(c)' = Owed(c) /\ Announced(c)' = Announced(c)
  BY <1>1 DEF Owed, Announced
<1>4. /\ Pending(c) = Held(c) \o down[c] \o Owed(c) \o Announced(c)
      /\ Pending(c)' = Held(c)' \o down'[c] \o Owed(c)' \o Announced(c)'
  BY DEF Pending, Held, Owed, Announced
<1>5. QED BY <1>2, <1>3, <1>4, ClientLeaves DEF Same

\* Taking the first of a queue made of several parts.
LEMMA HeadOfRest ==
  ASSUME NEW r \in Requests, NEW s \in Seq(Requests)
  PROVE  /\ <<r>> \o s \in Seq(Requests) /\ <<r>> \o s # <<>>
         /\ Head(<<r>> \o s) = r /\ Tail(<<r>> \o s) = s
<1> DEFINE u == <<r>> \o s
<1>0. <<r>> \in Seq(Requests) /\ Len(<<r>>) = 1 /\ <<r>>[1] = r /\ Len(s) \in Nat
  BY LenProperties
<1>1. /\ u \in Seq(Requests) /\ Len(u) = 1 + Len(s)
      /\ \A i \in 1..(1 + Len(s)) : u[i] = IF i <= 1 THEN <<r>>[i] ELSE s[i - 1]
  BY <1>0, ConcatProperties
<1> HIDE DEF u
<1>2. u # <<>>
  BY <1>0, <1>1
<1>3. /\ Tail(u) \in Seq(Requests) /\ Len(Tail(u)) = Len(u) - 1
      /\ \A i \in 1..Len(Tail(u)) : Tail(u)[i] = u[i + 1]
  BY <1>1, <1>2, HeadTailProperties
<1>4. Head(u) = r
  BY <1>0, <1>1
<1>5. \A i \in 1..Len(s) : Tail(u)[i] = s[i]
  BY <1>0, <1>1, <1>3
<1>6. Tail(u) = s
  BY <1>0, <1>1, <1>3, <1>5, SeqEqual
<1>7. QED BY <1>1, <1>2, <1>4, <1>6 DEF u

\* The end of the loop body: the request held has been applied.
LEMMA ClientDelivers ==
  ASSUME SeenInv, NEW c \in Clients, Client(c), cpc[c] \in {"got", "applying"},
         cpc'[c] = "idle", down'[c] = down[c], sig'[c] = sig[c], dangling'[c] = dangling[c],
         c \in Members => copy'[c] = Apply(copy[c], creq[c])
  PROVE  Seen
<1>1. /\ UNCHANGED <<tables, pc, monitor_fd_set, client_pid_set, todo, req, data_socket, outbox,
                     open_fds, outOfStep>>
      /\ \A d \in Clients \ {c} : Same(d) /\ (d \in Members' <=> d \in Members)
      /\ Members \subseteq Clients /\ Members' \subseteq Clients
  BY ClientOthers
<1>2. c \in Members' <=> c \in Members
  BY <1>1 DEF Members, Monitored, Alive
<1>3. CASE c \notin Members
  BY <1>2, <1>3, ClientLeaves
<1>4. CASE c \in Members
  <2>1. ~ FlushPending(c) /\ ~ FlushPending(c)'
    BY <1>1, <1>4 DEF SeenInv, FlushInv, SignalledAtRest, FlushPending, Members
  <2>2. View(c)' = Apply(View(c), creq[c])
    BY <1>4, <2>1 DEF View
  <2>3. /\ TypeOK /\ creq[c] \in Requests
    BY DEF SeenInv, IInv, TypeOK
  <2> DEFINE h == <<creq[c]>>
             d == down[c]
             o == Owed(c)
             b == Announced(c)
  <2>4. /\ Pending(c) = h \o d \o o \o b
        /\ Pending(c)' = <<>> \o d \o o \o b
    <3>1. Held(c) = h /\ Held(c)' = <<>> /\ Owed(c)' = o /\ Announced(c)' = b
      BY <1>1 DEF Held, Owed, Announced
    <3>2. /\ Pending(c) = Held(c) \o down[c] \o Owed(c) \o Announced(c)
          /\ Pending(c)' = Held(c)' \o down'[c] \o Owed(c)' \o Announced(c)'
      BY DEF Pending, Held, Owed, Announced
    <3>3. QED BY <3>1, <3>2
  <2>5. d \in Seq(Requests) /\ o \in Seq(Requests) /\ b \in Seq(Requests) /\ h \in Seq(Requests)
    BY <2>3, PendingParts
  <2> HIDE DEF d, o, b
  <2>6. <<>> \o d = d
    BY <2>5, ConcatEmptySeq
  <2>7. d \o o \in Seq(Requests) /\ (d \o o) \o b \in Seq(Requests)
    BY <2>5, ConcatProperties
  <2>8. h \o d \o o \o b = h \o (d \o o \o b)
    <3> HIDE DEF h
    <3>1. (h \o d) \o o = h \o (d \o o)
      BY <2>5, ConcatAssociative
    <3>2. (h \o (d \o o)) \o b = h \o ((d \o o) \o b)
      <4>1. PICK e : e = d \o o
        OBVIOUS
      <4>2. e \in Seq(Requests)
        BY <2>7, <4>1, Zenon
      <4>3. (h \o e) \o b = h \o (e \o b)
        <5>1. h \in Seq(Requests) /\ b \in Seq(Requests)
          BY <2>5
        <5>2. QED BY ONLY <4>2, <5>1, ConcatAssociative
      <4>4. QED BY <4>1, <4>3, Zenon
    <3>3. QED BY <3>1, <3>2, Zenon
  <2>9. Pending(c) # <<>> /\ Head(Pending(c)) = creq[c] /\ Tail(Pending(c)) = d \o o \o b
    <3>1. PICK e : e = d \o o \o b
      OBVIOUS
    <3>2. e \in Seq(Requests)
      BY <2>7, <3>1, Zenon
    <3>3. PICK x \in Requests : x = creq[c]
      BY <2>3
    <3>4. <<x>> \o e # <<>> /\ Head(<<x>> \o e) = x /\ Tail(<<x>> \o e) = e
      BY ONLY <3>2, <3>3, HeadOfRest
    <3>5. Pending(c) = <<x>> \o e
      BY <2>4, <2>8, <3>1, <3>3, Zenon
    <3>6. QED BY <3>1, <3>3, <3>4, <3>5, Zenon
  <2>10. Members' = Members
    BY <1>1, <1>2
  <2>11. View(c)' = Apply(View(c), Head(Pending(c))) /\ Pending(c)' = Tail(Pending(c))
    BY <2>2, <2>4, <2>6, <2>9
  <2> HIDE DEF h
  <2>12. Delivers(c)
    BY <1>1, <1>4, <2>9, <2>10, <2>11 DEF Delivers
  <2>13. QED BY <2>12 DEF Seen
<1>5. QED BY <1>3, <1>4

\* Each step of a client.
LEMMA ClientSeen ==
  ASSUME SeenInv, NEW c \in Clients, Client(c)
  PROVE  Seen
<1>1. /\ TypeOK /\ FlushInv /\ CheckHolds
      /\ cpc \in [Clients -> ClientPcs] /\ sig \in [Clients -> BOOLEAN]
      /\ copy \in [Clients -> Tables] /\ creq \in [Clients -> Requests]
      /\ down \in [Clients -> Seq(Requests)] /\ dangling \in [Clients -> BOOLEAN]
  BY DEF SeenInv, IInv, SyncInv, TypeOK
<1> USE DEF streams
<1>2. CASE Interrupt(c) \/ Crash(c) \/ Quit(c)
  BY <1>2, ClientEnds DEF Interrupt, Crash, Quit
<1>3. CASE SendPid(c) \/ InstallHandlers(c)
  <2>1. CASE End(c)
    BY <2>1, ClientEnds
  <2>2. CASE ~ End(c)
    <3>1. /\ cpc[c] \in {"connected", "sent"} /\ cpc'[c] \in {"sent", "idle"}
          /\ UNCHANGED <<down, sig, copy>>
      BY <1>1, <1>3, <2>2 DEF SendPid, InstallHandlers
    <3>2. Held(c)' \o down'[c] = Held(c) \o down[c]
      BY <3>1 DEF Held
    <3>3. QED BY <3>1, <3>2, ClientStays
  <2>3. QED BY <2>1, <2>2
<1>4. CASE Read(c)
  <2>1. /\ cpc[c] = "idle" /\ cpc' = [cpc EXCEPT ![c] = "got"] /\ UNCHANGED <<pc, sig, copy>>
    BY <1>4 DEF Read, server
  <2>2. CASE down[c] # <<>> /\ creq' = [creq EXCEPT ![c] = Head(down[c])]
             /\ down' = [down EXCEPT ![c] = Tail(@)]
    <3> DEFINE d == down[c]
    <3>1. Held(c) = <<>> /\ Held(c)' = <<Head(d)>> /\ down'[c] = Tail(d)
      BY <1>1, <2>1, <2>2 DEF Held
    <3>2. d \in Seq(Requests) /\ d # <<>>
      BY <1>1, <2>2
    <3> HIDE DEF d
    <3>3. <<Head(d)>> \o Tail(d) = d /\ <<>> \o d = d
      BY <3>2, HeadThenTail, ConcatEmptySeq
    <3>4. Held(c)' \o down'[c] = Held(c) \o down[c]
      BY <3>1, <3>3 DEF d
    <3>5. QED BY <2>1, <3>4, ClientStays
  <2>3. CASE ~ Up
    <3>1. ~ Up' /\ UNCHANGED tables
      BY <1>4, <2>3 DEF Read, Up, server
    <3>2. QED BY <3>1, NoMembers
  <2>4. QED BY <1>4, <2>2, <2>3 DEF Read
<1>5. CASE Begin(c)
  <2>1. CASE End(c)
    BY <2>1, ClientEnds
  <2>2. CASE cpc' = [cpc EXCEPT ![c] = "applying"] /\ UNCHANGED <<copy, creq>>
    <3>1. Held(c)' = Held(c) /\ UNCHANGED <<down, sig>>
      BY <1>1, <1>5, <2>2 DEF Begin, Held
    <3>2. QED BY <2>2, <3>1, ClientStays
  <2>3. CASE /\ ~ (creq[c].op \in TableOps /\ Accepts(copy[c], creq[c]))
             /\ copy' = [copy EXCEPT ![c] =
                           IF creq[c].op \in TableOps THEN @ ELSE Apply(@, creq[c])]
             /\ Done(c) /\ UNCHANGED dangling
    <3>1. cpc[c] = "got" /\ cpc'[c] = "idle" /\ UNCHANGED <<down, sig, dangling>>
      BY <1>1, <1>5, <2>3 DEF Begin, Done
    <3>2. copy'[c] = Apply(copy[c], creq[c])
      BY <1>1, <2>3 DEF Apply, TableOps
    <3>3. QED BY <3>1, <3>2, ClientDelivers
  <2>4. QED BY <1>5, <2>1, <2>2, <2>3 DEF Begin
<1>6. CASE Show(c)
  <2>1. CASE End(c)
    BY <2>1, ClientEnds
  <2>2. CASE Done(c) /\ UNCHANGED <<copy, dangling>>
    <3>1. /\ cpc[c] = "got" /\ cpc'[c] = "idle" /\ UNCHANGED <<down, sig, dangling, copy>>
          /\ creq[c].op = "SHOW"
      BY <1>1, <1>6, <2>2 DEF Show, Done
    <3>2. copy'[c] = Apply(copy[c], creq[c])
      BY <1>1, <3>1 DEF Apply, TableOps
    <3>3. QED BY <3>1, <3>2, ClientDelivers
  <2>3. QED BY <1>6, <2>1, <2>2 DEF Show
<1>7. CASE Finish(c)
  <2>1. /\ cpc[c] = "applying" /\ cpc'[c] = "idle" /\ UNCHANGED <<down, sig, dangling>>
        /\ copy'[c] = Change(copy[c], creq[c])
    BY <1>1, <1>7 DEF Finish, Done
  <2>2. creq[c].op \in TableOps
    BY <2>1 DEF SeenInv, IInv, ApplyingOK
  <2>3. c \in Members => Accepts(copy[c], creq[c])
    BY <1>1, <2>1 DEF Members, CheckHolds
  <2>4. c \in Members => copy'[c] = Apply(copy[c], creq[c])
    BY <2>1, <2>2, <2>3 DEF Apply, TableOps
  <2>5. QED BY <2>1, <2>4, ClientDelivers
<1>8. CASE FlushHandler(c)
  <2>1. /\ UNCHANGED <<server, down, cpc, creq>> /\ sig[c] /\ copy' = [copy EXCEPT ![c] = EmptyTables]
    BY <1>8 DEF FlushHandler
  <2>2. View(c)' = View(c)
    BY <1>1, <2>1 DEF View, FlushPending
  <2>3. Pending(c)' = Pending(c)
    BY <2>1 DEF Pending, server
  <2>4. QED BY <2>2, <2>3, ClientLeaves DEF Same
<1>9. QED BY <1>2, <1>3, <1>4, <1>5, <1>6, <1>7, <1>8 DEF Client, ClientStep

\* A process that starts is in no table of the server.
LEMMA StartSeen ==
  ASSUME SeenInv, NEW c \in Clients, Start(c)
  PROVE  Seen
<1>1. TypeOK /\ c \notin open_fds /\ open_fds \subseteq Clients
  BY DEF SeenInv, IInv, TypeOK, BacklogOK, Start
<1>2. /\ UNCHANGED <<pc, tables, monitor_fd_set, client_pid_set, todo, req, data_socket, outbox,
                     open_fds, outOfStep, streams, copy, creq, dangling>>
      /\ cpc' = [cpc EXCEPT ![c] = "connected"]
  BY DEF Start
<1>3. ASSUME NEW d \in Members' PROVE d \in Members /\ Same(d)
  <2>1. d \in Clients \ {c} /\ cpc'[d] = cpc[d]
    BY <1>1, <1>2 DEF Members, TypeOK
  <2>2. View(d)' = View(d)
    BY <1>2 DEF View, FlushPending, streams
  <2>3. Pending(d)' = Pending(d)
    BY <1>2, <2>1 DEF Pending, streams
  <2>4. d \in Members
    BY <1>2, <2>1 DEF Members, Monitored, Alive
  <2>5. QED BY <2>2, <2>3, <2>4 DEF Same
<1>4. QED BY <1>2, <1>3 DEF Seen, Leaves

\* Every step of the program is one of the kinds the members can see.
LEMMA NextSeen == SeenInv /\ [Next]_vars => Seen
<1> SUFFICES ASSUME SeenInv, [Next]_vars PROVE Seen
  OBVIOUS
<1>1. CASE UNCHANGED vars
  <2>1. UNCHANGED tables /\ Members' = Members /\ \A c : Same(c)
    BY <1>1 DEF vars, server, streams, clients, Members, Monitored, Alive, Same, View,
                FlushPending, Pending
  <2>2. QED BY <2>1 DEF Seen, Leaves
<1>2. CASE Serving
  BY <1>2, SendTableSeen, StoreSeen, BroadcastSeen, SelectSeen, ConsoleSeen, AnswerSeen DEF Serving
<1>3. QED BY <1>1, <1>2, AcceptSeen, KillSeen, ReadClientSeen, ClientSeen, StartSeen, Steps

\* What the members see keeps them in step.
LEMMA SeenInStep ==
  ASSUME TypeOK, Paired(tables), InStep, Seen
  PROVE  InStep'
<1>0. Members \subseteq Clients /\ tables \in Tables
  BY DEF TypeOK, Members
<1>1. CASE Leaves
  BY <1>1 DEF Leaves, Same, InStep
<1>2. CASE Flushes
  BY <1>2, ReplayEmpty DEF Flushes, InStep
<1>3. ASSUME NEW c \in Clients, Joins(c) PROVE InStep'
  <2>1. Replay(EmptyTables, Snapshot(tables)) = tables
    BY <1>0, <1>3, SnapshotReplays DEF Joins
  <2>2. QED BY <1>3, <2>1 DEF Joins, Same, InStep
<1>4. ASSUME NEW c \in Clients, Delivers(c) PROVE InStep'
  <2>1. Pending(c) \in Seq(Requests)
    BY PendingParts
  <2>2. Replay(View(c), Pending(c)) = Replay(Apply(View(c), Head(Pending(c))), Tail(Pending(c)))
    BY <1>4, <2>1, ReplayHead DEF Delivers
  <2>3. QED BY <1>4, <2>2 DEF Delivers, Same, InStep
<1>5. ASSUME NEW r \in Inputs, Updates(r) PROVE InStep'
  <2>1. ASSUME NEW c \in Members
        PROVE  Replay(View(c), Append(Pending(c), r)) = Apply(Replay(View(c), Pending(c)), r)
    <3>1. Pending(c) \in Seq(Requests) /\ r \in Requests
      BY <1>0, PendingParts, InputAssumption
    <3>2. QED BY <3>1, ReplayAppend
  <2>2. QED BY <1>5, <2>1 DEF Updates, InStep
<1>6. QED BY <1>1, <1>2, <1>3, <1>4, <1>5 DEF Seen

-----------------------------------------------------------------------------
(* The replication as an invariant, and the refinement.                    *)
\* ReplicatedTable is instantiated with the same constants: its operators are those of
\* RtSync.
LEMMA SameEmpty == Abstract!EmptyTables = EmptyTables
BY DEF Abstract!EmptyTables, EmptyTables, Abstract!flush_routing_table_info,
       flush_routing_table_info, Abstract!flush_mac_info, flush_mac_info

LEMMA SameSnapshot == ASSUME NEW t PROVE Abstract!Snapshot(t) = Snapshot(t)
<1>1. ASSUME NEW e PROVE Abstract!WireRoute(e) = WireRoute(e)
  BY DEF Abstract!WireRoute, WireRoute, Abstract!RouteReq, RouteReq, Abstract!Invalid, Invalid,
         Abstract!Plain, Plain, Abstract!NoRoute, NoRoute
<1>2. ASSUME NEW e PROVE Abstract!WireMac(e) = WireMac(e)
  BY DEF Abstract!WireMac, WireMac, Abstract!MacReq, MacReq,
         Abstract!Plain, Plain, Abstract!NoRoute, NoRoute
<1>3. QED BY <1>1, <1>2 DEF Abstract!Snapshot, Snapshot

LEMMA SameAccepts == ASSUME NEW t, NEW r PROVE Abstract!Accepts(t, r) = Accepts(t, r)
BY DEF Abstract!Accepts, Accepts, Abstract!check_condition, check_condition,
       Abstract!check_condition_mac, check_condition_mac, Abstract!HasKey, HasKey,
       Abstract!HasMac, HasMac

LEMMA SameChange == ASSUME NEW t, NEW r PROVE Abstract!Change(t, r) = Change(t, r)
BY DEF Abstract!Change, Change, Abstract!EditRoutes, EditRoutes, Abstract!EditMacs, EditMacs,
       Abstract!add_last_entry_list, add_last_entry_list,
       Abstract!add_last_entry_list_mac, add_last_entry_list_mac,
       Abstract!update_entry_table, update_entry_table,
       Abstract!update_entry_table_mac, update_entry_table_mac,
       Abstract!remove_node_list, remove_node_list,
       Abstract!remove_node_list_mac, remove_node_list_mac

LEMMA SameApply == ASSUME NEW t, NEW r PROVE Abstract!Apply(t, r) = Apply(t, r)
BY SameAccepts, SameChange, SameEmpty DEF Abstract!Apply, Apply, Abstract!TableOps, TableOps

-----------------------------------------------------------------------------
(* Each kind of step is one of ReplicatedTable.                            *)
LEMMA SeenImplements ==
  ASSUME TypeOK, TypeOK', Seen
  PROVE  Abstract!Next
<1> DEFINE Views == [c \in Clients |-> IF c \in Members THEN View(c) ELSE EmptyTables]
           Pends == [c \in Clients |-> IF c \in Members THEN Pending(c) ELSE <<>>]
<1>0. Members \subseteq Clients /\ Members' \subseteq Clients
  BY DEF TypeOK, Members
<1>a. /\ Views' = [c \in Clients |-> IF c \in Members' THEN View(c)' ELSE EmptyTables]
      /\ Pends' = [c \in Clients |-> IF c \in Members' THEN Pending(c)' ELSE <<>>]
  BY DEF EmptyTables, flush_routing_table_info, flush_mac_info
<1>1. CASE Leaves
  <2>1. /\ Members' = Members \ (Members \ Members')
        /\ Views' = [c \in Clients |-> IF c \in Members' THEN Views[c] ELSE EmptyTables]
        /\ Pends' = [c \in Clients |-> IF c \in Members' THEN Pends[c] ELSE <<>>]
        /\ tables' = tables
    BY <1>0, <1>a, <1>1 DEF Leaves, Same
  <2>2. PICK S \in SUBSET Members : S = Members \ Members'
    OBVIOUS
  <2>3. Abstract!Leave(S)
    BY <2>1, <2>2, SameEmpty DEF Abstract!Leave, Abstract!Keep
  <2>4. QED BY <2>3 DEF Abstract!Next
<1>2. CASE Flushes
  <2>1. /\ \A c \in Members' : Pends[c] = <<>>
        /\ tables' = EmptyTables
        /\ Views' = [c \in Clients |-> EmptyTables]
        /\ Pends' = [c \in Clients |-> <<>>]
    BY <1>0, <1>a, <1>2 DEF Flushes
  <2>2. PICK S \in SUBSET Members : S = Members'
    BY <1>2 DEF Flushes
  <2>3. Abstract!Flush(S)
    BY <2>1, <2>2, SameEmpty DEF Abstract!Flush
  <2>4. QED BY <2>3 DEF Abstract!Next
<1>3. ASSUME NEW c \in Clients, Joins(c) PROVE Abstract!Next
  <2>1. /\ c \notin Members /\ Members' = Members \cup {c} /\ tables' = tables
        /\ Views' = Views
        /\ Pends' = [Pends EXCEPT ![c] = Snapshot(tables)]
    BY <1>0, <1>a, <1>3 DEF Joins, Same
  <2>2. Abstract!Join(c)
    BY <2>1, SameSnapshot DEF Abstract!Join
  <2>3. QED BY <2>2 DEF Abstract!Next
<1>4. ASSUME NEW c \in Clients, Delivers(c) PROVE Abstract!Next
  <2>1. /\ c \in Members /\ Pends[c] # <<>> /\ Members' = Members /\ tables' = tables
        /\ Views' = [Views EXCEPT ![c] = Apply(@, Head(Pends[c]))]
        /\ Pends' = [Pends EXCEPT ![c] = Tail(@)]
    BY <1>0, <1>a, <1>4 DEF Delivers, Same
  <2>2. Abstract!Deliver(c)
    BY <2>1, SameApply DEF Abstract!Deliver
  <2>3. QED BY <2>2 DEF Abstract!Next
<1>5. ASSUME NEW r \in Inputs, Updates(r) PROVE Abstract!Next
  <2>1. /\ Members' = Members /\ tables' = Apply(tables, r)
        /\ Views' = Views
        /\ Pends' = [c \in Clients |-> IF c \in Members THEN Append(Pends[c], r) ELSE <<>>]
    BY <1>0, <1>a, <1>5 DEF Updates
  <2>2. Abstract!Update(r)
    BY <2>1, SameApply DEF Abstract!Update
  <2>3. QED BY <2>2 DEF Abstract!Next
<1>6. QED BY <1>1, <1>2, <1>3, <1>4, <1>5 DEF Seen

\* The strengthening holds throughout.
LEMMA SyncInvariance == Spec => [](IInv /\ FlushInv /\ SyncInv)
<1>1. Init => FlushInv
  BY DEF Init, FlushInv, UnservedWaits, SignalledAtRest
<1>2. Init => SyncInv
  BY EmptyPaired DEF Init, SyncInv, WaitingOK, UnservedEmpty, CheckHolds, OneAlive, Alive
<1>3. IInv /\ FlushInv /\ [Next]_vars => FlushInv'
  BY FlushPreserved
<1>4. IInv /\ FlushInv /\ SyncInv /\ [Next]_vars => SyncInv'
  BY SyncPreserved
<1>5. QED BY <1>1, <1>2, <1>3, <1>4, Invariance, PTL DEF Spec

\* However many clients, requests and slots there are, and whatever is on its way: a
\* member that applies what it has still to read ends with exactly the server's two
\* tables (server.c:225-234, client.c:69-140).
THEOREM CopiesInStep == Spec => []InStep
<1>1. Init => InStep
  BY DEF Init, InStep, Members
<1>2. IInv /\ FlushInv /\ SyncInv /\ InStep /\ [Next]_vars => InStep'
  <2> SUFFICES ASSUME IInv, FlushInv, SyncInv, InStep, [Next]_vars PROVE InStep'
    OBVIOUS
  <2>1. TypeOK /\ Paired(tables) /\ Seen
    BY NextSeen DEF IInv, SyncInv, SeenInv
  <2>2. QED BY <2>1, SeenInStep
<1>3. QED BY <1>1, <1>2, SyncInvariance, PTL DEF Spec

\* The server's loop of separate writes, the two-step updates of the clients and the
\* signals implement ReplicatedTable: one table, and an update put into all members'
\* queues at once (server.c:148-234, client.c:69-140).
THEOREM TableReplicated == Spec => Implements
<1>1. Init => Abstract!Init
  BY SameEmpty DEF Init, Abstract!Init, Members
<1>2. IInv /\ FlushInv /\ SyncInv /\ IInv' /\ [Next]_vars => [Abstract!Next]_(Abstract!vars)
  <2> SUFFICES ASSUME IInv, FlushInv, SyncInv, IInv', [Next]_vars PROVE Abstract!Next
    OBVIOUS
  <2>1. TypeOK /\ TypeOK' /\ Seen
    BY NextSeen DEF IInv, SeenInv
  <2>2. QED BY <2>1, SeenImplements
<1>3. QED BY <1>1, <1>2, SyncInvariance, PTL DEF Spec, Implements, Abstract!Spec
=============================================================================
