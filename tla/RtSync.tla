------------------------------- MODULE RtSync -------------------------------
(***************************************************************************)
(* The server and the clients of Project/Routing_Table: the server takes   *)
(* requests at its console, applies them to its tables and writes them to  *)
(* every client over a UNIX stream socket; a client applies what it reads  *)
(* to its own copy.  FLUSH goes another way: SIGUSR1 to the processes of   *)
(* client_pid_set.  One step is one system call (or the computation        *)
(* between two), so that the other processes, signals and the death of a   *)
(* peer come in between.                                                   *)
(*                                                                         *)
(* A client c is a process, from its start to its end; c also names the    *)
(* server's descriptor for its connection (the server never closes one, so *)
(* descriptors are not reused) and PidOf[c] is its process id, which a     *)
(* later process may have again.                                           *)
(***************************************************************************)
EXTENDS Replica, FdSet

CONSTANTS
  Clients, Pids, PidOf,
  MAX_CLIENTS_SUPPORT,   \* slots of monitor_fd_set and client_pid_set
  Stdin, Master, NoFd,   \* descriptors 0 and connection_socket, and -1
  NoPid, ZeroPid,        \* -1, and the 0 a read of 0 bytes leaves in temp_pid
  Backlog,               \* second argument of listen
  FdLimit,               \* descriptors accept can hand out
  BufCap,                \* messages a socket buffer holds
  Inputs,                \* requests typed at the console
  IpAnswers,             \* what is typed at the IP prompt
  Faults,                \* which processes may be interrupted or killed
  MaxInputs              \* bound on the lines typed

ASSUME ClientAssumption ==
  /\ PidOf \in [Clients -> Pids]
  /\ {Stdin, Master, NoFd} \cap Clients = {}
  /\ Stdin # Master /\ NoFd \notin {Stdin, Master}
  /\ {NoPid, ZeroPid} \cap Pids = {} /\ NoPid # ZeroPid

ASSUME BoundAssumption ==
  /\ MAX_CLIENTS_SUPPORT \in Nat \ {0, 1}
  /\ Backlog \in Nat /\ FdLimit \in Nat /\ BufCap \in Nat /\ MaxInputs \in Nat

ASSUME InputAssumption ==
  /\ Inputs \subseteq Requests
  /\ IpAnswers \subseteq {"valid", "invalid", "blank"}
  /\ Faults \subseteq {"server", "interrupt", "crash"}

Slots == 1..MAX_CLIENTS_SUPPORT

VARIABLES
  \* the server
  pc, tables, monitor_fd_set, client_pid_set,
  todo,         \* the slots the loop under way has still to visit
  req,          \* the request being prompted for or broadcast, Invalid outside
  data_socket,  \* the client being sent the tables, NoFd outside
  outbox,       \* and what it has still to be sent
  \* the kernel
  open_fds, backlog, down, up, sig, ip_shm,
  \* the clients
  cpc, copy, creq, dangling,
  \* bookkeeping: the clients whose copy a race has put out of step, and the
  \* number of lines typed
  outOfStep, inputs

server  == <<pc, tables, monitor_fd_set, client_pid_set, todo, req,
             data_socket, outbox, open_fds, backlog, ip_shm, outOfStep, inputs>>
streams == <<down, up, sig>>
clients == <<cpc, copy, creq, dangling>>
vars    == <<server, streams, clients>>

\* How the server process can end: by SIGINT, or by an error it exits on or a
\* signal it has no handler for.
Stopped   == {"exited", "sigpipe", "econnreset", "sigusr1", "emfile", "sigbus"}
ServerPcs == {"select", "sendtab", "prompt", "store", "bcast", "kill",
              "clients", "quit"} \cup Stopped
\* connected: pid not written yet; sent: no handlers yet; idle: about to read;
\* got: a request was read; applying: the check passed, head is in a register.
ClientPcs == {"off", "connected", "sent", "idle", "got", "applying", "gone"}

TypeOK ==
  /\ pc \in ServerPcs
  /\ tables \in Tables
  /\ monitor_fd_set \in [Slots -> Clients \cup {Stdin, Master, NoFd}]
  /\ client_pid_set \in [Slots -> Pids \cup {NoPid, ZeroPid}]
  /\ todo \in SUBSET Slots
  /\ req \in Requests
  /\ data_socket \in Clients \cup {NoFd}
  /\ outbox \in Seq(Requests)
  /\ open_fds \in SUBSET Clients
  /\ backlog \in Seq(Clients)
  /\ ip_shm \in [Macs -> {"absent", "empty", "ip"}]
  /\ down \in [Clients -> Seq(Requests)]
  /\ up \in [Clients -> Seq(Pids)]
  /\ sig \in [Clients -> BOOLEAN]
  /\ cpc \in [Clients -> ClientPcs]
  /\ copy \in [Clients -> Tables]
  /\ creq \in [Clients -> Requests]
  /\ dangling \in [Clients -> BOOLEAN]
  /\ outOfStep \in SUBSET Clients
  /\ inputs \in 0..MaxInputs

init_monitor_fd_set == AllFree(Slots, NoFd)

\* Mutant: the call at server.c:83 is forgotten, the array is all zeros.
NoInitOfPids == AllFree(Slots, ZeroPid)
init_client_pid_set == AllFree(Slots, NoPid)

\* The state in which the server first calls select (server.c:55-90).
Init ==
  /\ pc = "select"
  /\ tables = EmptyTables
  /\ monitor_fd_set =
       AddTo(AddTo(init_monitor_fd_set, NoFd, Stdin), NoFd, Master)
  /\ client_pid_set = init_client_pid_set
  /\ todo = {} /\ req = Invalid /\ data_socket = NoFd /\ outbox = <<>>
  /\ open_fds = {} /\ backlog = <<>>
  /\ ip_shm = [m \in Macs |-> "absent"]
  /\ down = [c \in Clients |-> <<>>]
  /\ up = [c \in Clients |-> <<>>]
  /\ sig = [c \in Clients |-> FALSE]
  /\ cpc = [c \in Clients |-> "off"]
  /\ copy = [c \in Clients |-> EmptyTables]
  /\ creq = [c \in Clients |-> Invalid]
  /\ dangling = [c \in Clients |-> FALSE]
  /\ outOfStep = {} /\ inputs = 0

Up == pc \notin Stopped
Alive(c) == cpc[c] \notin {"off", "gone"}
Handlers(c) == cpc[c] \in {"idle", "got", "applying"}

ClientSlots == {i \in Slots : monitor_fd_set[i] \in Clients}
Lowest(S) == CHOOSE i \in S : \A j \in S : i <= j

\* A loop over the slots S in state p; done is where the server goes after it.
Loop(p, S, done) == todo' = S /\ pc' = IF S = {} THEN done ELSE p

-----------------------------------------------------------------------------
(* The kernel's side of a write by the server to client c: SIGPIPE when the *)
(* peer is gone, a wait while the buffer is full.                           *)
Deliver(c, r) == Len(down[c]) < BufCap /\ down' = [down EXCEPT ![c] = Append(@, r)]

WriteTo(c, r, next) ==
  \/ /\ cpc[c] = "gone"
     /\ pc' = "sigpipe" /\ todo' = {}
     /\ UNCHANGED <<down, req>>
  \/ /\ cpc[c] # "gone"
     /\ Deliver(c, r)
     /\ next

\* server.c:116-131.  Descriptors are never closed, so accept fails for good
\* once FdLimit of them are open.
Accept ==
  /\ pc = "select" /\ backlog # <<>>
  /\ LET c == Head(backlog)
     IN  IF Cardinality(open_fds) >= FdLimit
         THEN /\ pc' = "emfile"
              /\ UNCHANGED <<open_fds, backlog, monitor_fd_set, data_socket,
                             outbox, outOfStep>>
         ELSE /\ backlog' = Tail(backlog)
              /\ open_fds' = open_fds \cup {c}
              /\ monitor_fd_set' = AddTo(monitor_fd_set, NoFd, c)
              /\ outbox' = Snapshot(tables)
              /\ IF outbox' = <<>> THEN UNCHANGED <<pc, data_socket>>
                                  ELSE pc' = "sendtab" /\ data_socket' = c
              /\ outOfStep' = IF \E i \in 1..Len(tables.rt) : tables.rt[i].key = NoKey
                              THEN outOfStep \cup {c} ELSE outOfStep
  /\ UNCHANGED <<tables, client_pid_set, todo, req, ip_shm, inputs, streams, clients>>

\* Mutant: "ptr = ptr->next" is forgotten.
SendTableAgain ==
  /\ pc = "sendtab"
  /\ WriteTo(data_socket, Head(outbox), UNCHANGED <<pc, todo, req>>)
  /\ UNCHANGED <<outbox, data_socket, tables, monitor_fd_set, client_pid_set,
                 open_fds, backlog, ip_shm, outOfStep, inputs, up, sig, clients>>

\* One write of send_rtable_to_newly_client or send_mac_table_to_newly_client.
SendTable ==
  /\ pc = "sendtab"
  /\ WriteTo(data_socket, Head(outbox),
             /\ pc' = IF Tail(outbox) = <<>> THEN "select" ELSE "sendtab"
             /\ UNCHANGED <<todo, req>>)
  /\ outbox' = Tail(outbox)
  /\ data_socket' = IF Tail(outbox) = <<>> THEN NoFd ELSE data_socket
  /\ UNCHANGED <<tables, monitor_fd_set, client_pid_set,
                 open_fds, backlog, ip_shm, outOfStep, inputs, up, sig, clients>>

-----------------------------------------------------------------------------
(* Console input (server.c:132-238), read only when no connection waits.   *)
ConsoleReads ==
  /\ pc = "select" /\ backlog = <<>>
  /\ inputs < MaxInputs /\ inputs' = inputs + 1
  /\ UNCHANGED <<monitor_fd_set, data_socket, outbox, open_fds, backlog,
                 streams, clients>>

NeedsIp(r) == r.tbl = "MAC" /\ r.op \in {"CREATE", "UPDATE"}

\* server.c:227-233: the line goes to every client from slot 1 on; then msg_inf
\* is freed.
BroadcastTo(S, r) ==
  /\ Loop("bcast", S, "select")
  /\ req' = IF S = {} THEN Invalid ELSE r

Commit(r) == tables' = Change(tables, r) /\ BroadcastTo(ClientSlots, r)

ConsoleEdit(r) ==
  /\ r.op \in TableOps /\ ~NeedsIp(r)
  /\ ConsoleReads
  /\ IF Accepts(tables, r) THEN Commit(r) ELSE UNCHANGED <<pc, tables, req, todo>>
  /\ UNCHANGED <<client_pid_set, ip_shm, outOfStep>>

\* A MAC address is checked first, then the server blocks in a read of its IP.
ConsoleMac(r) ==
  /\ r.op \in TableOps /\ NeedsIp(r)
  /\ ConsoleReads
  /\ IF Accepts(tables, r) THEN pc' = "prompt" /\ req' = r ELSE UNCHANGED <<pc, req>>
  /\ UNCHANGED <<tables, client_pid_set, todo, ip_shm, outOfStep>>

\* The server maps the object of each MAC address it lists: one of size 0 kills
\* it.  shm_open creates the missing ones.
ShowOk(t) == \A i \in 1..Len(t.mac) : ip_shm[t.mac[i]] = "ip"
\* Mutant: the objects of unlisted addresses are gone.
ShowOpensOnly(t) == [m \in ToSet(t.mac) |-> IF ip_shm[m] = "absent" THEN "empty" ELSE ip_shm[m]]
ShowOpens(t) ==
  [m \in Macs |-> IF m \in ToSet(t.mac) /\ ip_shm[m] = "absent"
                  THEN "empty" ELSE ip_shm[m]]

ConsoleShow(r) ==
  /\ r.op = "SHOW"
  /\ ConsoleReads
  /\ ip_shm' = ShowOpens(tables)
  /\ IF ShowOk(tables) THEN BroadcastTo(ClientSlots, r)
                       ELSE pc' = "sigbus" /\ UNCHANGED <<todo, req>>
  /\ UNCHANGED <<tables, client_pid_set, outOfStep>>

\* A client the flush finds at rest: its pid is known, its handlers are
\* installed, and nothing is on the way to it.
AtRest(c) ==
  /\ Holds(client_pid_set, PidOf[c])
  /\ cpc[c] = "idle"
  /\ down[c] = <<>>

\* The line is not broadcast: ret_val stays false.
ConsoleFlush(r) ==
  /\ r.op = "FLUSH"
  /\ ConsoleReads
  /\ tables' = EmptyTables
  /\ Loop("kill", {i \in Slots : client_pid_set[i] # NoPid}, "select")
  /\ outOfStep' = outOfStep \cup {c \in open_fds : ~AtRest(c)}
  /\ UNCHANGED <<client_pid_set, req, ip_shm>>

\* A line that does not parse, or Q, which the server's switch has no case for.
ConsoleNothing(r) ==
  /\ r.op \in {"INVALID", "QUIT"}
  /\ ConsoleReads
  /\ UNCHANGED <<pc, tables, client_pid_set, todo, req, ip_shm, outOfStep>>

Console ==
  \E r \in Inputs :
    \/ ConsoleEdit(r) \/ ConsoleMac(r) \/ ConsoleShow(r) \/ ConsoleFlush(r)
    \/ ConsoleNothing(r)

\* The line typed at the prompt.  ip_value is not cleared: what an earlier
\* answer left behind a newline on its own can make it pass as an address.
\* store_IP_to_Shm, update_IP_in_Shm: O_TRUNC first.
AnswerStored ==
  /\ pc = "prompt"
  /\ IpAnswers \cap {"valid", "blank"} # {}
  /\ ip_shm' = [ip_shm EXCEPT ![req.mac] = "empty"]
  /\ pc' = "store"
  /\ UNCHANGED <<tables, monitor_fd_set, client_pid_set, todo, req, data_socket,
                 outbox, open_fds, backlog, outOfStep, inputs, streams, clients>>

AnswerRejected ==
  /\ pc = "prompt"
  /\ "invalid" \in IpAnswers
  /\ pc' = "select" /\ req' = Invalid
  /\ UNCHANGED <<tables, monitor_fd_set, client_pid_set, todo, data_socket,
                 outbox, open_fds, backlog, ip_shm, outOfStep, inputs, streams, clients>>

\* The read returned 1, which is true: the request is broadcast although the
\* server has not applied it.
AnswerBlank ==
  /\ pc = "prompt"
  /\ "blank" \in IpAnswers
  /\ BroadcastTo(ClientSlots, req)
  /\ outOfStep' = outOfStep \cup open_fds
  /\ UNCHANGED <<tables, monitor_fd_set, client_pid_set, data_socket,
                 outbox, open_fds, backlog, ip_shm, inputs, streams, clients>>

\* The IP is copied into the object, then the list is changed.
Store ==
  /\ pc = "store"
  /\ ip_shm' = [ip_shm EXCEPT ![req.mac] = "ip"]
  /\ Commit(req)
  /\ UNCHANGED <<monitor_fd_set, client_pid_set, data_socket, outbox, open_fds,
                 backlog, outOfStep, inputs, streams, clients>>

\* One write of the broadcast.
Broadcast ==
  /\ pc = "bcast"
  /\ LET i == Lowest(todo)
     IN  WriteTo(monitor_fd_set[i], req, BroadcastTo(todo \ {i}, req))
  /\ UNCHANGED <<tables, monitor_fd_set, client_pid_set, data_socket, outbox,
                 open_fds, backlog, ip_shm, outOfStep, inputs, up, sig, clients>>

-----------------------------------------------------------------------------
(* Signals and the end of a client.                                        *)
\* What is left of a process that has ended.
End(c) ==
  /\ cpc' = [cpc EXCEPT ![c] = "gone"]
  /\ copy' = [copy EXCEPT ![c] = EmptyTables]
  /\ creq' = [creq EXCEPT ![c] = Invalid]
  /\ dangling' = [dangling EXCEPT ![c] = FALSE]

\* server.c:216-219, one kill.  kill(0, ...) signals the server's own group and
\* the server has no handler.  A client without a handler dies.
Kill ==
  /\ pc = "kill"
  /\ LET i    == Lowest(todo)
         p    == client_pid_set[i]
         hit  == {c \in Clients : PidOf[c] = p /\ Alive(c)}
     IN  \/ /\ p = ZeroPid
            /\ pc' = "sigusr1" /\ todo' = {}
            /\ UNCHANGED <<sig, clients>>
         \/ /\ p # ZeroPid
            /\ Loop("kill", todo \ {i}, "select")
            /\ \/ /\ hit = {}
                  /\ UNCHANGED <<sig, clients>>
               \/ \E c \in hit :
                    IF Handlers(c)
                    THEN /\ sig' = [sig EXCEPT ![c] = TRUE]
                         /\ UNCHANGED clients
                    ELSE /\ End(c)
                         /\ UNCHANGED sig
  /\ UNCHANGED <<tables, monitor_fd_set, client_pid_set, req, data_socket, outbox,
                 open_fds, backlog, ip_shm, outOfStep, inputs, down, up>>

-----------------------------------------------------------------------------
(* Data from clients (server.c:240-268).                                   *)
Readable(c) == up[c] # <<>> \/ cpc[c] = "gone"

\* select found no connection and no console input.
SelectClients ==
  /\ pc = "select" /\ backlog = <<>>
  /\ LET S == {i \in ClientSlots : Readable(monitor_fd_set[i])}
     IN  S # {} /\ Loop("clients", S, "select")
  /\ UNCHANGED <<tables, monitor_fd_set, client_pid_set, req, data_socket, outbox,
                 open_fds, backlog, ip_shm, outOfStep, inputs, streams, clients>>

\* Mutant: the result without the comparison.
EveryPidAvailable(p) == TRUE
check_available_pid(p) == ~Holds(client_pid_set, p)

\* Mutant: a free slot is taken to hold 0.
AddAtZero(p) == AddTo(client_pid_set, ZeroPid, p)
add_to_pid_set(p) == AddTo(client_pid_set, NoPid, p)

\* One read of up to 128 bytes: the pids that have queued up come in one piece
\* and the first counts.  A peer that closed without reading all it was sent
\* makes the read fail; one that had read everything makes it return 0 bytes.
\* A pid that is not in the set is a client that connects, any other one that
\* disconnects.  (FD_ISSET of the -1 in a free slot tests a bit select never sets
\* while no descriptor is 63.)
ReadClient ==
  /\ pc = "clients"
  /\ LET i        == Lowest(todo)
         c        == monitor_fd_set[i]
         temp_pid == IF up[c] # <<>> THEN Head(up[c]) ELSE ZeroPid
     IN  IF up[c] = <<>> /\ down[c] # <<>>
         THEN /\ pc' = "econnreset" /\ todo' = {}
              /\ UNCHANGED <<client_pid_set, monitor_fd_set, up>>
         ELSE /\ up' = [up EXCEPT ![c] = <<>>]
              /\ IF check_available_pid(temp_pid)
                 THEN /\ client_pid_set' = add_to_pid_set(temp_pid)
                      /\ UNCHANGED monitor_fd_set
                 ELSE /\ client_pid_set' = RemoveFrom(client_pid_set, NoPid, temp_pid)
                      /\ monitor_fd_set' = RemoveFrom(monitor_fd_set, NoFd, c)
              /\ Loop("clients", todo \ {i}, "select")
  /\ UNCHANGED <<tables, req, data_socket, outbox, open_fds, backlog, ip_shm,
                 outOfStep, inputs, down, sig, clients>>

-----------------------------------------------------------------------------
(* server.c signal_handler: SIGINT stops whatever was under way, Q goes to *)
(* every client, the process ends.                                         *)
SigInt ==
  /\ Up /\ pc # "quit" /\ "server" \in Faults
  /\ Loop("quit", ClientSlots, "exited")
  /\ UNCHANGED <<tables, monitor_fd_set, client_pid_set, req, data_socket, outbox,
                 open_fds, backlog, ip_shm, outOfStep, inputs, streams, clients>>

QuitWrite ==
  /\ pc = "quit"
  /\ LET i == Lowest(todo)
     IN  WriteTo(monitor_fd_set[i], Plain("QUIT"),
                 Loop("quit", todo \ {i}, "exited") /\ UNCHANGED req)
  /\ UNCHANGED <<tables, monitor_fd_set, client_pid_set, data_socket, outbox,
                 open_fds, backlog, ip_shm, outOfStep, inputs, up, sig, clients>>

-----------------------------------------------------------------------------
(* The client (client.c).                                                  *)
\* connect: the process id of a process that has ended may be used again.
Start(c) ==
  /\ cpc[c] = "off"
  /\ \A d \in Clients : Alive(d) => PidOf[d] # PidOf[c]
  /\ Up /\ Len(backlog) < Backlog
  /\ backlog' = Append(backlog, c)
  /\ cpc' = [cpc EXCEPT ![c] = "connected"]
  /\ UNCHANGED <<pc, tables, monitor_fd_set, client_pid_set, todo, req, data_socket,
                 outbox, open_fds, ip_shm, outOfStep, inputs, streams, copy, creq,
                 dangling>>

\* The write is a SIGPIPE when the server has gone.
SendPid(c) ==
  /\ cpc[c] = "connected"
  /\ IF Up THEN /\ up' = [up EXCEPT ![c] = Append(@, PidOf[c])]
                /\ cpc' = [cpc EXCEPT ![c] = "sent"]
                /\ UNCHANGED <<copy, creq, dangling>>
           ELSE End(c) /\ UNCHANGED up
  /\ UNCHANGED <<server, down, sig>>

\* The two signal() calls.
InstallHandlers(c) ==
  /\ cpc[c] = "sent"
  /\ cpc' = [cpc EXCEPT ![c] = "idle"]
  /\ UNCHANGED <<server, streams, copy, creq, dangling>>

\* Mutant: the signal is held back (blocked) while messages are read.
ReadFirst(c) ==
  /\ cpc[c] = "idle" /\ down[c] # <<>>
  /\ creq' = [creq EXCEPT ![c] = Head(down[c])]
  /\ down' = [down EXCEPT ![c] = Tail(@)]
  /\ cpc' = [cpc EXCEPT ![c] = "got"]
  /\ UNCHANGED <<server, up, sig, copy, dangling>>

\* A pending signal is handled before the read returns.  The line parses as it
\* did at the server (InputLine: but for the byte after mask_check).  From a server that has
\* ended come 0 bytes, and ret_val is not looked at.
Read(c) ==
  /\ cpc[c] = "idle" /\ ~sig[c]
  /\ \/ /\ down[c] # <<>>
        /\ creq' = [creq EXCEPT ![c] = Head(down[c])]
        /\ down' = [down EXCEPT ![c] = Tail(@)]
     \/ /\ down[c] = <<>> /\ ~Up
        /\ creq' = [creq EXCEPT ![c] = EmptyCreate]
        /\ UNCHANGED down
  /\ cpc' = [cpc EXCEPT ![c] = "got"]
  /\ UNCHANGED <<server, up, sig, copy, dangling>>

\* Mutant: the loop body runs again on the same request.
DoneAgain(c) ==
  /\ cpc' = [cpc EXCEPT ![c] = "got"]
  /\ UNCHANGED creq

\* The end of the loop body: msg_inf is freed.
Done(c) ==
  /\ cpc' = [cpc EXCEPT ![c] = "idle"]
  /\ creq' = [creq EXCEPT ![c] = Invalid]

\* The switch up to the call that changes a list (a FLUSH or INVALID request is
\* done with here).  With a head that dangles the process may end or may not.
Begin(c) ==
  /\ cpc[c] = "got" /\ creq[c].op \notin {"QUIT", "SHOW"}
  /\ \/ dangling[c] /\ End(c)
     \/ /\ IF creq[c].op \in TableOps /\ Accepts(copy[c], creq[c])
           THEN /\ cpc' = [cpc EXCEPT ![c] = "applying"]
                /\ UNCHANGED <<copy, creq>>
           ELSE /\ copy' = [copy EXCEPT ![c] =
                     IF creq[c].op \in TableOps THEN @ ELSE Apply(@, creq[c])]
                /\ Done(c)
        /\ UNCHANGED dangling
  /\ UNCHANGED <<server, streams>>

\* SHOW maps the objects of the listed MAC addresses as the server's does.
Show(c) ==
  /\ cpc[c] = "got" /\ creq[c].op = "SHOW"
  /\ ip_shm' = ShowOpens(copy[c])
  /\ \/ (dangling[c] \/ ~ShowOk(copy[c])) /\ End(c)
     \/ /\ ShowOk(copy[c])
        /\ Done(c)
        /\ UNCHANGED <<copy, dangling>>
  /\ UNCHANGED <<pc, tables, monitor_fd_set, client_pid_set, todo, req, data_socket,
                 outbox, open_fds, backlog, outOfStep, inputs, streams>>

\* The list is changed and "head = ..." stores what was computed from the head
\* read in Begin.
Finish(c) ==
  /\ cpc[c] = "applying"
  /\ copy' = [copy EXCEPT ![c] = Change(@, creq[c])]
  /\ Done(c)
  /\ UNCHANGED <<server, streams, dangling>>

\* Mutant: "goto DISCONNECT" is forgotten.
QuitStays(c) ==
  /\ cpc[c] = "got" /\ creq[c].op = "QUIT"
  /\ copy' = [copy EXCEPT ![c] = EmptyTables]
  /\ Done(c)
  /\ UNCHANGED <<server, streams, dangling>>

Quit(c) ==
  /\ cpc[c] = "got" /\ creq[c].op = "QUIT"
  /\ End(c)
  /\ UNCHANGED <<server, streams>>

\* Mutant: only the routing table is flushed.
FlushRoutesOnly(c) ==
  /\ sig[c] /\ Handlers(c)
  /\ sig' = [sig EXCEPT ![c] = FALSE]
  /\ copy' = [copy EXCEPT ![c].rt = <<>>]
  /\ UNCHANGED <<server, down, up, cpc, creq, dangling>>

\* signal_handler(SIGUSR1): both lists are freed.  If the main loop is past
\* reading a head that was not NULL, it goes on with the freed nodes and stores
\* their address: the head dangles.
FlushHandler(c) ==
  /\ sig[c] /\ Handlers(c)
  /\ sig' = [sig EXCEPT ![c] = FALSE]
  /\ LET used == IF creq[c].tbl = "MAC" THEN copy[c].mac ELSE copy[c].rt
     IN  dangling' = [dangling EXCEPT ![c] =
                        @ \/ (cpc[c] = "applying" /\ used # <<>>)]
  /\ copy' = [copy EXCEPT ![c] = EmptyTables]
  /\ UNCHANGED <<server, down, up, cpc, creq>>

\* signal_handler(SIGINT) writes the pid again; without the handler the process
\* just ends.
Interrupt(c) ==
  /\ Alive(c) /\ "interrupt" \in Faults
  /\ up' = IF Handlers(c) /\ Up THEN [up EXCEPT ![c] = Append(@, PidOf[c])] ELSE up
  /\ End(c)
  /\ UNCHANGED <<server, down, sig>>

Crash(c) ==
  /\ Alive(c) /\ "crash" \in Faults
  /\ End(c)
  /\ UNCHANGED <<server, streams>>

-----------------------------------------------------------------------------
\* What runs by itself once the system calls it waits for can return; the rest
\* is up to the people at the keyboards.
ServerStep ==
  \/ Accept \/ SendTable \/ Store \/ Broadcast \/ Kill \/ SelectClients
  \/ ReadClient \/ QuitWrite

Answer == AnswerStored \/ AnswerRejected \/ AnswerBlank

ClientStep(c) ==
  \/ SendPid(c) \/ InstallHandlers(c) \/ Read(c) \/ Begin(c) \/ Show(c)
  \/ Finish(c) \/ Quit(c) \/ FlushHandler(c)

Next ==
  \/ ServerStep \/ Console \/ Answer \/ SigInt
  \/ \E c \in Clients : ClientStep(c) \/ Start(c) \/ Interrupt(c) \/ Crash(c)

Spec == Init /\ [][Next]_vars

FairSpec == Spec /\ WF_vars(ServerStep) /\ \A c \in Clients : WF_vars(ClientStep(c))
-----------------------------------------------------------------------------
(* Properties.                                                             *)
Monitored(c) == Holds(monitor_fd_set, c)

\* A flush the server has made and c's process has not seen yet.
FlushPending(c) ==
  \/ sig[c]
  \/ pc = "kill" /\ \E i \in todo : client_pid_set[i] = PidOf[c]

\* The requests between the server's tables and c's, oldest first.
Pending(c) ==
  (IF cpc[c] \in {"got", "applying"} THEN <<creq[c]>> ELSE <<>>)
  \o down[c]
  \o (IF pc = "sendtab" /\ data_socket = c THEN outbox ELSE <<>>)
  \o (IF pc = "bcast" /\ \E i \in todo : monitor_fd_set[i] = c
      THEN <<req>> ELSE <<>>)

View(c) == IF FlushPending(c) THEN EmptyTables ELSE copy[c]

\* The clients the server keeps in step.
Members ==
  IF pc \in Stopped \cup {"quit"} THEN {}
  ELSE {c \in open_fds : /\ Monitored(c) /\ Alive(c)
                         /\ c \notin outOfStep /\ ~dangling[c]}

\* The replication (server.c:225-234, client.c:69-140): whatever is still on its
\* way, a client that applies it ends with exactly the server's two tables, in
\* the server's order, although it was accepted in the middle of the history and
\* although the broadcast is a loop of separate writes.  The exceptions are the
\* clients a flush found not at rest, those of an unanswered IP prompt, and those
\* that joined a table with an entry that has no text.
InStep == \A c \in Members : Replay(View(c), Pending(c)) = tables

\* SIGUSR1 frees the lists a client may be in the middle of changing
\* (client.c:30-33).  A flush that finds the client at rest never leaves it with
\* a head that points to freed nodes, whatever it is sent next.
FlushAtRestIsSafe == \A c \in Clients : dangling[c] => c \in outOfStep

\* The slot arrays stay usable through every order of connections, exits and
\* crashes: no descriptor and no pid in two slots (a second copy would be written
\* or signalled twice and never removed), console and master socket always
\* watched, and only open descriptors watched.
SlotArraysSound ==
  /\ Distinct(monitor_fd_set, NoFd) /\ Distinct(client_pid_set, NoPid)
  /\ Holds(monitor_fd_set, Stdin) /\ Holds(monitor_fd_set, Master)
  /\ \A i \in ClientSlots : monitor_fd_set[i] \in open_fds

\* The server does not end by itself: for a SIGPIPE, a failed read or a signal of
\* its own some client must have ended, and its own SHOW never maps an empty
\* object (the IP is stored before the MAC address is listed, and stored again
\* whenever the object is truncated).
ServerEndHasACause ==
  /\ pc \in {"sigpipe", "econnreset", "sigusr1"} => \E c \in Clients : cpc[c] = "gone"
  /\ pc # "sigbus"

\* A client whose pid the server has read is one a FLUSH reaches (server.c:216).
\* Two things undo this: a process that ended and had the same process id, whose
\* entry or late message is taken for the client's, and three processes that
\* ended, since fewer cannot leave so many entries that the pid array is full while
\* the descriptor array, two of whose slots are not for clients, has room.
LiveClientsRegistered ==
  \A c \in open_fds :
    Monitored(c) /\ Alive(c) /\ cpc[c] # "connected" /\ up[c] = <<>> =>
      \/ Holds(client_pid_set, PidOf[c])
      \/ \E d \in Clients \ {c} : cpc[d] = "gone" /\ PidOf[d] = PidOf[c]
      \/ Cardinality({d \in Clients : cpc[d] = "gone"}) >= 3

\* "Server work 24*7" (server.c:91): without a SIGINT the server keeps running.
ServerKeepsServing == Up

\* RtSync implements the abstract specification: the loop of writes is one update
\* of all members' queues.
Abstract == INSTANCE ReplicatedTable WITH
  table <- tables,
  members <- Members,
  view <- [c \in Clients |-> IF c \in Members THEN View(c) ELSE EmptyTables],
  pend <- [c \in Clients |-> IF c \in Members THEN Pending(c) ELSE <<>>]

Implements == Abstract!Spec

\* Every process that connects is accepted, unless it or the server ends or the
\* server waits for an IP to be typed.
ConnectionsAccepted ==
  \A c \in Clients :
    cpc[c] = "connected" ~>
      (c \in open_fds \/ cpc[c] = "gone" \/ ~Up \/ pc \in {"prompt", "quit"})

\* A member with requests on the way has none at some later time, or is no member
\* any more: the reads, the signal handler and the two-step updates of all
\* clients and the blocking writes of the server never wait for one another in a
\* circle.
MembersCatchUp ==
  \A c \in Clients :
    c \in Members ~> (c \notin Members \/ (Pending(c) = <<>> /\ ~FlushPending(c)))

\* When the server ends through its SIGINT handler, every client it monitors ends
\* as well: Q is behind whatever was still in the stream.
QuitStopsClients ==
  \A c \in Clients : (pc = "exited" /\ Monitored(c)) ~> cpc[c] = "gone"
=============================================================================
