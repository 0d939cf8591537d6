--------------------------- MODULE ReplicatedTable --------------------------
(***************************************************************************)
(* What the server of Project/Routing_Table promises the clients it serves *)
(* without a mishap (members): the tables are one object, every accepted   *)
(* request is put at the end of each member's queue in the same instant,   *)
(* and a member applies its queue in order.  A member may leave at any     *)
(* time.  A flush empties the tables and the copies of those it keeps.     *)
(***************************************************************************)
EXTENDS Replica

CONSTANTS Clients, Inputs

VARIABLES table, members, view, pend

vars == <<table, members, view, pend>>

\* A client that is no member has an empty view and queue.
Keep(S, f, none) == [c \in Clients |-> IF c \in S THEN f[c] ELSE none]

Init ==
  /\ table = EmptyTables
  /\ members = {}
  /\ view = [c \in Clients |-> EmptyTables]
  /\ pend = [c \in Clients |-> <<>>]

Join(c) ==
  /\ c \notin members
  /\ members' = members \cup {c}
  /\ pend' = [pend EXCEPT ![c] = Snapshot(table)]
  /\ UNCHANGED <<table, view>>

Update(r) ==
  /\ table' = Apply(table, r)
  /\ pend' = [c \in Clients |-> IF c \in members THEN Append(pend[c], r) ELSE <<>>]
  /\ UNCHANGED <<members, view>>

Deliver(c) ==
  /\ c \in members /\ pend[c] # <<>>
  /\ view' = [view EXCEPT ![c] = Apply(@, Head(pend[c]))]
  /\ pend' = [pend EXCEPT ![c] = Tail(@)]
  /\ UNCHANGED <<table, members>>

\* Only members with an empty queue can be kept by a flush.
Flush(S) ==
  /\ \A c \in S : pend[c] = <<>>
  /\ table' = EmptyTables
  /\ members' = S
  /\ view' = [c \in Clients |-> EmptyTables]
  /\ pend' = [c \in Clients |-> <<>>]

Leave(S) ==
  /\ members' = members \ S
  /\ view' = Keep(members', view, EmptyTables)
  /\ pend' = Keep(members', pend, <<>>)
  /\ UNCHANGED table

Next ==
  \/ \E c \in Clients : Join(c) \/ Deliver(c)
  \/ \E r \in Inputs : Update(r)
  \/ \E S \in SUBSET members : Flush(S) \/ Leave(S)

Spec == Init /\ [][Next]_vars
=============================================================================
