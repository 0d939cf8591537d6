------------------------------- MODULE Console ------------------------------
(***************************************************************************)
(* The console of Project/Routing_Table/server.c without its clients: each *)
(* line typed is parsed and applied to the server's two tables.  last is   *)
(* the line of the latest step and the request it became, copy_buffer what *)
(* the parser left on the stack.                                           *)
(***************************************************************************)
EXTENDS InputLine, FiniteSets

CONSTANTS Lines,      \* the lines that are typed
          Behinds,    \* what may follow an entry in memory, as far as it is printed
          MaxEntries  \* bound on the entries of the two tables, see Entries

ASSUME LineAssumption ==
  /\ Lines \subseteq SplitLines /\ MaxEntries \in Nat
  /\ Behinds \subseteq {w \in Words : Attr[w].len <= 16}

VARIABLES tables, copy_buffer, last

vars == <<tables, copy_buffer, last>>

\* What a call may find in memory it did not write: the buffer of the call
\* before, or other bytes; a digit behind the mask, or none; 0 behind the copies of
\* the addresses, or other bytes.
Stacks == [copy_buffer : {copy_buffer, NoToken}, spoils : BOOLEAN,
           ends : SUBSET {"dest", "gateway"}]

TypeOK ==
  /\ tables \in Tables
  /\ copy_buffer \in Token
  /\ last.line \in Lines \cup {<<>>}
  /\ last.req \in Requests

Init ==
  /\ tables = EmptyTables
  /\ copy_buffer = NoToken
  /\ last = [line |-> <<>>, req |-> Invalid]

\* For the bound, an entry with a field that is full counts for two.
Full(e) == 16 \in {Attr[e.key.dest].len, Attr[e.via.gateway].len, Attr[e.via.oif].len}
Entries(tbls) ==
  Len(tbls.rt) + Len(tbls.mac) + Cardinality({i \in DOMAIN tbls.rt : Full(tbls.rt[i])})

NeedsIp(r) == r.tbl = "MAC" /\ r.op \in {"CREATE", "UPDATE"}

\* server.c:132-238.  A MAC request is applied only if the line typed next holds
\* an IP address that is stored (ip).
Typed(line, ip) ==
  \E req \in {check_format_input_string(line, stack) : stack \in Stacks} :
    /\ tables' = IF (NeedsIp(req) /\ ~ip) \/ req.op = "QUIT"
                 THEN tables ELSE Apply(tables, req)
    /\ Entries(tables') <= MaxEntries
    /\ copy_buffer' = Copied(line, copy_buffer)
    /\ last' = [line |-> line, req |-> req]

Next == \E line \in Lines, ip \in BOOLEAN : Typed(line, ip)

Spec == Init /\ [][Next]_vars
-----------------------------------------------------------------------------
\* What a word may be for.
IpWords   == {w \in Words : Attr[w].fields = 4}
MaskWords == {w \in Words : Attr[w].len \in 1..2 /\ Attr[w].atoi \in 0..32}
OifWords  == {w \in Words : Attr[w].len \in 0..16}
MacWords  == {w \in Words : Attr[w].mac}

\* The key the menu line "<op> <DesIP> <Mask> ..." names, as far as a field of 16
\* characters can hold it.
NamedKey(line) == [dest |-> Attr[line[2].w].head,
                   mask |-> [w |-> line[3].w, nl |-> FALSE]]

\* A line that creates or updates a route has the form the menu of
\* server.c:97-98 prints, and the route is the one it spells: no line with a
\* field missing or out of place, and none with a mask or an interface too long,
\* gets into the tables of the server and, since the same bytes are broadcast, of
\* every client.  An address that is too long may get in, cut to 16 characters:
\* the mask keeps what a long destination wrote into it from showing, the
\* interface only if it is as long as what a long gateway wrote.  The one line
\* excepted is the read of 0 bytes at the end of input.  (The interface may be of
\* no characters: a blank before the newline will do.)
RouteLinesWellFormed ==
  LET line == last.line
      req  == last.req
  IN  req.tbl = "RT" /\ req.op \in {"CREATE", "UPDATE"} /\ line # <<>> =>
        /\ Len(line) = 5
        /\ line[2].w \in IpWords /\ line[3].w \in MaskWords
        /\ line[4].w \in IpWords /\ line[5].w \in OifWords
        /\ req.route.key = NamedKey(line)
        /\ req.route.via.gateway = Attr[line[4].w].head
        /\ \/ req.route.via.oif = line[5].w
           \/ Attr[line[4].w].len > 16 + Attr[line[5].w].len

\* An entry gets through the parser of a client that finds no digit behind the
\* mask, no character behind a field that is full where it copies it (stack), and
\* none behind the entry where its OIF is full (behind).
Survives(e, stack, behind) ==
  /\ ~stack.spoils
  /\ Attr[e.key.dest].len = 16 => "dest" \in stack.ends
  /\ Attr[e.via.gateway].len = 16 => "gateway" \in stack.ends
  /\ Attr[e.via.oif].len = 16 => behind = Blank

\* A newly accepted client that parses what send_rtable_to_newly_client and
\* send_mac_table_to_newly_client print takes each entry for what the server
\* holds, or loses it, and then for one of the reasons Survives names: a field
\* printed past its end never gives it another route.  One that loses none ends
\* with the server's tables, entry for entry and in order, although it runs the
\* same duplicate check on the way; only an entry of empty strings is lost in any
\* case.
JoinReproducesTables ==
  /\ \A stack \in Stacks, behind \in Behinds :
       /\ \A i \in 1..Len(tables.rt) :
            LET e == tables.rt[i]
            IN  check_format_input_string(RouteText(e, behind), stack)
                  = IF Survives(e, stack, behind) THEN WireRoute(e) ELSE Invalid
       /\ \A i \in 1..Len(tables.mac) :
            check_format_input_string(MacText(tables.mac[i]), stack) = WireMac(tables.mac[i])
  /\ \/ Replay(EmptyTables, Snapshot(tables)) = tables
     \/ \E i \in 1..Len(tables.rt) : tables.rt[i] = NoRoute

\* CREATE lets through a second entry for the key of the last node (the loop of
\* common.c:256 stops before it), but never a third, and the two stay next to
\* each other through every update and delete.
DuplicatesArePairs ==
  LET paired(s) == \A i, j \in DOMAIN s : i < j /\ s[i] = s[j] => j = i + 1
  IN  /\ paired([i \in 1..Len(tables.rt) |-> tables.rt[i].key])
      /\ paired(tables.mac)

\* After an accepted UPDATE every entry of that key has the new via: a duplicate
\* pair cannot keep a stale half.
UpdateReachesAll ==
  LET req == last.req
  IN  req.tbl = "RT" /\ req.op = "UPDATE" =>
        \A i \in DOMAIN tables.rt :
          tables.rt[i].key = req.route.key => tables.rt[i] = req.route
=============================================================================
