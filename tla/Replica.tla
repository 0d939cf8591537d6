------------------------------ MODULE Replica -------------------------------
(***************************************************************************)
(* What the server and a client of Project/Routing_Table have in common:   *)
(* the parsed request, the opcode switch that applies one to the two       *)
(* tables (server.c:148-224, client.c:81-137 call the same functions of    *)
(* common.c and common_mac.c), and the requests a newly accepted client is *)
(* sent so that it builds the same tables.                                 *)
(***************************************************************************)
EXTENDS RoutingTable, MacTable

FUNCTION == TableOps \cup {"SHOW", "FLUSH", "QUIT"}

\* A line as check_format_input_string leaves it; "INVALID" is a line for which
\* it returned false.
Requests == [op : FUNCTION \cup {"INVALID"}, tbl : {"RT", "MAC"},
             route : Routes, mac : Macs]

Plain(op)         == [op |-> op, tbl |-> "RT", route |-> NoRoute, mac |-> NoMac]
RouteReq(op, e)   == [Plain(op) EXCEPT !.route = e]
MacReq(op, m)     == [Plain(op) EXCEPT !.tbl = "MAC", !.mac = m]
Invalid           == Plain("INVALID")

\* What a read of 0 bytes parses to: strtok gives NULL, the function returns
\* true and the opcode of the calloc'ed msg_t is 0, that is CREATE.
EmptyCreate       == RouteReq("CREATE", NoRoute)

Tables      == [rt : Seq(Routes), mac : Seq(Macs)]
EmptyTables == [rt |-> flush_routing_table_info, mac |-> flush_mac_info]

\* The check that guards the change in both programs.
Accepts(t, r) ==
  IF r.tbl = "MAC" THEN check_condition_mac(t.mac, r.mac, r.op)
                   ELSE check_condition(t.rt, r.route.key, r.op)

Change(t, r) ==
  IF r.tbl = "MAC" THEN [t EXCEPT !.mac = EditMacs(t.mac, r.mac, r.op)]
                   ELSE [t EXCEPT !.rt = EditRoutes(t.rt, r.route, r.op)]

\* One pass of the client's loop body over its tables.
Apply(t, r) ==
  CASE r.op \in TableOps         -> IF Accepts(t, r) THEN Change(t, r) ELSE t
    [] r.op \in {"FLUSH", "QUIT"} -> EmptyTables
    [] OTHER                      -> t

Replay(t, reqs) == FoldLeft(Apply, t, reqs)

\* "C dest mask gateway oif" of send_rtable_to_newly_client, as the client
\* parses it: an entry of empty strings prints as "C" and blanks, which does not
\* parse back to a route.
WireRoute(e) == IF e.key = NoKey THEN Invalid ELSE RouteReq("CREATE", e)
WireMac(m)   == MacReq("CREATE", m)

\* Mutant: the MAC table is not sent.
SnapshotOfRoutes(t) == [i \in 1..Len(t.rt) |-> WireRoute(t.rt[i])]

\* send_rtable_to_newly_client, then send_mac_table_to_newly_client.
Snapshot(t) ==
  [i \in 1..Len(t.rt)  |-> WireRoute(t.rt[i])] \o
  [i \in 1..Len(t.mac) |-> WireMac(t.mac[i])]
=============================================================================
