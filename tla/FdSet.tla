------------------------------- MODULE FdSet -------------------------------
(***************************************************************************)
(* The two fixed-size slot arrays of Project/Routing_Table/common.c:       *)
(* monitor_fd_set (descriptors given to select) and client_pid_set         *)
(* (processes that get SIGUSR1).  Both are arrays of MAX_CLIENTS_SUPPORT   *)
(* entries in which -1 marks a free slot; the same four loops work on      *)
(* them.  A slot array is a function from slot numbers; "free" is the mark *)
(* of a free slot.                                                         *)
(***************************************************************************)
EXTENDS Integers

Holds(set, v) == \E i \in DOMAIN set : set[i] = v

\* The slot at which a loop "for(index = 0; ...) if(set[index] == v) ...break"
\* stops.
FirstSlot(set, v) ==
  CHOOSE i \in DOMAIN set :
    /\ set[i] = v
    /\ \A j \in DOMAIN set : j < i => set[j] # v

\* add_to_monitor_fd_set, add_to_pid_set: the first free slot takes v; when no
\* slot is free nothing happens and nobody is told.
AddTo(set, free, v) ==
  IF Holds(set, free) THEN [set EXCEPT ![FirstSlot(set, free)] = v] ELSE set

\* remove_from_monitor_fd_set, remove_from_client_pid_set: the first slot that
\* holds v becomes free.
RemoveFrom(set, free, v) ==
  IF Holds(set, v) THEN [set EXCEPT ![FirstSlot(set, v)] = free] ELSE set

\* init_monitor_fd_set, init_client_pid_set.
AllFree(slots, free) == [i \in slots |-> free]

\* No value but the free mark is in two slots.
Distinct(set, free) ==
  \A i, j \in DOMAIN set : set[i] = set[j] /\ set[i] # free => i = j
=============================================================================
