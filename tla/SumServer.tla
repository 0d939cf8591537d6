----------------------------- MODULE SumServer ------------------------------
(***************************************************************************)
(* The servers of IPC_udm/Socket that add numbers up, with their clients:  *)
(*   sums    Unix_domain/server_mplexing.c: a client sends addends and 0,  *)
(*           and is answered their sum;                                    *)
(*   single  Unix_domain/server.c: the same for one client at a time;      *)
(*   pairs   Network/TCP_server.c: a client sends pairs, each is answered  *)
(*           its sum, up to (0, 0).                                        *)
(* One process serves all clients, over the descriptor array of FdSet with *)
(* an accumulator per slot.  A read takes all that a stream holds and      *)
(* looks at its first number or pair; the end of a stream reads as zeros.  *)
(***************************************************************************)
EXTENDS FdSet, Sequences, FiniteSets, FiniteSetsExt

CONSTANTS Clients, Kinds,
          Numbers,           \* what clients type
          MAX_CLIENTS_SUPPORT,
          Free, Console, Master, None,
          FdLimit,           \* descriptors of a process
          MaxTyped           \* per client: bound on its messages before its last

Slots == 1..MAX_CLIENTS_SUPPORT

ASSUME SumAssumption ==
  /\ Kinds \subseteq {"sums", "single", "pairs"}
  /\ 0 \in Numbers /\ Numbers \subseteq Int
  /\ MAX_CLIENTS_SUPPORT \in Nat \ {0, 1}
  /\ {Free, Console, Master} \cap Clients = {}
  /\ Free \notin {Console, Master} /\ Console # Master
  /\ None \notin Int
  /\ FdLimit \in Nat /\ FdLimit > MAX_CLIENTS_SUPPORT
  /\ MaxTyped \in [Clients -> Nat]

VARIABLES
  kind,
  pc,                        \* select, loop over the readable slots, answer, ended
  ended,                     \* what has ended the server
  monitor_fd_set, client_response, todo,
  backlog, open,             \* connections to accept, and accepted and not closed
  up, answer,                \* per client: bytes on their way to and from the server
  client, typed,             \* per client: where it is, messages typed
  total, merged              \* bookkeeping: what its answer should be; clients of which
                             \* a read took more than one message

server  == <<pc, ended, monitor_fd_set, client_response, todo>>
history == <<total, merged>>
vars    == <<kind, server, backlog, open, up, answer, client, typed, history>>

\* A message is a sequence of one number, or of two.
Messages == IF kind = "pairs" THEN Numbers \X Numbers ELSE {<<n>> : n \in Numbers}
Value(m) == IF kind = "pairs" THEN m[1] + m[2] ELSE m[1]
Zeros(m) == \A i \in DOMAIN m : m[i] = 0
EndOfStream == IF kind = "pairs" THEN <<0, 0>> ELSE <<0>>

Init ==
  /\ kind \in Kinds
  /\ pc = "select" /\ ended = "no"
  /\ LET none == AllFree(Slots, Free)
     IN  monitor_fd_set = CASE kind = "sums"   -> AddTo(AddTo(none, Free, Console), Free, Master)
                            [] kind = "pairs"  -> AddTo(none, Free, Master)
                            [] kind = "single" -> none
  /\ client_response = [i \in Slots |-> 0]
  /\ todo = {} /\ backlog = <<>> /\ open = {}
  /\ up = [c \in Clients |-> <<>>] /\ answer = [c \in Clients |-> None]
  /\ client = [c \in Clients |-> "start"] /\ typed = [c \in Clients |-> 0]
  /\ total = [c \in Clients |-> 0] /\ merged = {}

-----------------------------------------------------------------------------
(* Clients.                                                                *)
Connect(c) ==
  /\ client[c] = "start" /\ pc # "ended"
  /\ client' = [client EXCEPT ![c] = "typing"]
  /\ backlog' = Append(backlog, c)
  /\ UNCHANGED <<kind, server, open, up, answer, typed, history>>

Waiting(c) == c \in {backlog[i] : i \in DOMAIN backlog}
HungUp(c)  == pc = "ended" \/ (c \notin open /\ ~Waiting(c))

\* One number, or one pair.  Over a connection that is closed a write is the end of the
\* client; the first of the TCP client's may still seem to work.
Send(c, m) ==
  /\ client[c] = "typing" /\ m \in Messages
  /\ ~Zeros(m) => typed[c] < MaxTyped[c]
  /\ UNCHANGED <<kind, server, backlog, open, answer, merged>>
  /\ IF HungUp(c)
     THEN /\ client' \in {[client EXCEPT ![c] = "cut"]} \cup
               (IF kind = "pairs"
                THEN {[client EXCEPT ![c] = IF Zeros(m) THEN "done" ELSE "waiting"]} ELSE {})
          /\ UNCHANGED <<up, typed, total>>
     ELSE /\ up' = [up EXCEPT ![c] = Append(@, m)]
          /\ typed' = [typed EXCEPT ![c] = IF Zeros(m) THEN @ ELSE @ + 1]
          /\ total' = [total EXCEPT ![c] = IF kind = "pairs" THEN Value(m) ELSE @ + Value(m)]
          /\ client' = [client EXCEPT ![c] =
               IF kind = "pairs" THEN IF Zeros(m) THEN "done" ELSE "waiting"
               ELSE IF Zeros(m) THEN "waiting" ELSE "typing"]

\* The read of the answer, or of the end of the stream, which the TCP client does not
\* look for: it prints the answer before and goes on.
Receive(c) ==
  /\ client[c] = "waiting"
  /\ UNCHANGED <<kind, server, backlog, open, up, typed, history>>
  /\ \/ /\ answer[c] # None
        /\ answer' = [answer EXCEPT ![c] = None]
        /\ client' = [client EXCEPT ![c] = IF kind = "pairs" THEN "typing" ELSE "done"]
     \/ /\ answer[c] = None /\ HungUp(c)
        /\ client' = [client EXCEPT ![c] = IF kind = "pairs" THEN "typing" ELSE "cut"]
        /\ UNCHANGED answer

\* Ctrl-C.
Interrupt(c) ==
  /\ client[c] \in {"typing", "waiting"}
  /\ client' = [client EXCEPT ![c] = "gone"]
  /\ UNCHANGED <<kind, server, backlog, open, up, answer, typed, history>>

-----------------------------------------------------------------------------
(* The server.                                                             *)
Ended(c)    == client[c] \in {"gone", "done", "cut"}
Readable(c) == up[c] # <<>> \/ Ended(c)
Ready       == {i \in Slots : monitor_fd_set[i] \in Clients /\ Readable(monitor_fd_set[i])}

\* Descriptors in use besides those of clients: the listening socket, and the console.
Fixed == IF kind = "sums" THEN 2 ELSE 1

Die(cause) ==
  /\ pc' = "ended" /\ ended' = cause
  /\ UNCHANGED <<kind, monitor_fd_set, client_response, todo, backlog, open, up, answer,
                 client, typed, history>>

\* The listening socket is looked at first; server.c is back at accept when it has
\* closed the connection before.
AtAccept == pc = "select" /\ backlog # <<>> /\ (kind = "single" => open = {})

Accept ==
  /\ AtAccept
  /\ IF Cardinality(open) + Fixed < FdLimit
     THEN /\ open' = open \cup {Head(backlog)} /\ backlog' = Tail(backlog)
          /\ monitor_fd_set' = AddTo(monitor_fd_set, Free, Head(backlog))
          /\ UNCHANGED <<kind, pc, ended, client_response, todo, up, answer, client, typed,
                         history>>
     ELSE Die("accept")

Select ==
  /\ pc = "select" /\ ~AtAccept
  /\ Ready # {}
  /\ pc' = "loop" /\ todo' = Ready
  /\ UNCHANGED <<kind, ended, monitor_fd_set, client_response, backlog, open, up, answer,
                 client, typed, history>>

Slot == Min(todo)
Peer == monitor_fd_set[Slot]
GoOn(rest) == todo' = rest /\ pc' = IF rest = {} THEN "select" ELSE "loop"

Close(c) == monitor_fd_set' = RemoveFrom(monitor_fd_set, Free, c) /\ open' = open \ {c}

\* Mutant: an empty sum is nothing to answer.
AsksForSome(m) == Zeros(m) /\ client_response[Slot] # 0
Asks(m)        == Zeros(m)

\* Mutant: the addend takes the place of the sum.
LastAddend(m) == [client_response EXCEPT ![Slot] = Value(m)]

\* The addend is added to what the slot has.
Added(m) == [client_response EXCEPT ![Slot] = @ + Value(m)]

Read ==
  /\ pc = "loop"
  /\ LET m == IF up[Peer] = <<>> THEN EndOfStream ELSE Head(up[Peer])
     IN  IF kind = "pairs"
         THEN /\ UNCHANGED client_response
              /\ IF Asks(m) THEN Close(Peer) /\ GoOn({}) /\ UNCHANGED answer
                 ELSE /\ answer' = [answer EXCEPT ![Peer] = Value(m)]
                      /\ GoOn(todo \ {Slot})
                      /\ UNCHANGED <<monitor_fd_set, open>>
         ELSE /\ UNCHANGED <<monitor_fd_set, open, answer>>
              /\ IF Asks(m) THEN pc' = "answer" /\ UNCHANGED <<client_response, todo>>
                 ELSE /\ client_response' = Added(m)
                      /\ GoOn(todo \ {Slot})
  /\ up' = [up EXCEPT ![Peer] = <<>>]
  /\ merged' = IF Len(up[Peer]) > 1 THEN merged \cup {Peer} ELSE merged
  /\ UNCHANGED <<kind, ended, backlog, client, typed, total>>

\* Mutant: the accumulator keeps its sum.
AnswerOnly ==
  /\ pc = "answer" /\ ~Ended(Peer)
  /\ answer' = [answer EXCEPT ![Peer] = client_response[Slot]]
  /\ Close(Peer) /\ GoOn(todo \ {Slot})
  /\ UNCHANGED <<kind, ended, client_response, backlog, up, client, typed, history>>

\* Mutant: the connection stays open.
AnswerStaysOpen ==
  /\ pc = "answer" /\ ~Ended(Peer)
  /\ answer' = [answer EXCEPT ![Peer] = client_response[Slot]]
  /\ GoOn(todo \ {Slot})
  /\ client_response' = [client_response EXCEPT ![Slot] = 0]
  /\ UNCHANGED <<kind, ended, monitor_fd_set, open, backlog, up, client, typed, history>>

\* The sum is written, the connection closed and the accumulator reset.
Answer ==
  /\ pc = "answer" /\ ~Ended(Peer)
  /\ answer' = [answer EXCEPT ![Peer] = client_response[Slot]]
  /\ Close(Peer) /\ GoOn(todo \ {Slot})
  /\ client_response' = [client_response EXCEPT ![Slot] = 0]
  /\ UNCHANGED <<kind, ended, backlog, up, client, typed, history>>

\* A write to a client that has gone raises SIGPIPE; before it, a printf with a
\* conversion %s and no argument reads whatever address it finds.
AnswerKills ==
  /\ pc = "answer"
  /\ \/ Ended(Peer) /\ Die("pipe")
     \/ Die("format")

Serve == Accept \/ Select \/ Read \/ Answer \/ AnswerKills

Next ==
  \/ \E c \in Clients :
       \/ Connect(c) \/ Receive(c) \/ Interrupt(c)
       \/ \E m \in Messages : Send(c, m)
  \/ Accept \/ Select \/ Read \/ Answer \/ AnswerKills

Spec == Init /\ [][Next]_vars
FairSpec == Spec /\ WF_vars(Serve) /\ \A c \in Clients : WF_vars(Receive(c))
-----------------------------------------------------------------------------
Known == {"start", "typing", "waiting", "done", "gone", "cut"}

TypeOK ==
  /\ kind \in Kinds
  /\ pc \in {"select", "loop", "answer", "ended"}
  /\ ended \in {"no", "accept", "pipe", "format"}
  /\ monitor_fd_set \in [Slots -> Clients \cup {Free, Console, Master}]
  /\ client_response \in [Slots -> Int]
  /\ todo \subseteq Slots /\ open \subseteq Clients
  /\ backlog \in Seq(Clients)
  /\ up \in [Clients -> Seq(Messages)]
  /\ answer \in [Clients -> Int \cup {None}]
  /\ client \in [Clients -> Known] /\ typed \in [Clients -> Nat]
  /\ total \in [Clients -> Int] /\ merged \subseteq Clients

\* A client gets the sum of its own numbers, whoever had its slot or its descriptor
\* before and whatever the other clients send or how they end (server_mplexing.c:171-188)
\* - unless two of its messages were read as one, when the later ones are lost.
AnswerIsSum ==
  \A c \in Clients : answer[c] # None /\ c \notin merged => answer[c] = total[c]

\* SIGPIPE ends a server only after a client was interrupted, and the TCP server never;
\* accept fails only when descriptors have leaked to clients that found the array full.
ServerEndHasACause ==
  /\ ended = "pipe" => kind # "pairs" /\ \E c \in Clients : client[c] = "gone"
  /\ ended = "accept" => \E c \in open : ~Holds(monitor_fd_set, c)

\* A client that is in the array and waits for its answer gets it, or learns that the
\* server has ended, unless its last messages were read as one.  (Then it waits for
\* ever: the 0 that asks for the sum is lost.)
WaiterAnswered ==
  \A c \in Clients :
    client[c] = "waiting" /\ Holds(monitor_fd_set, c) ~> client[c] # "waiting" \/ c \in merged
=============================================================================
