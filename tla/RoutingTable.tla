---------------------------- MODULE RoutingTable ----------------------------
(***************************************************************************)
(* The routing table of Project/Routing_Table/common.c: a singly linked    *)
(* list, here a sequence of entries.  An entry's key stands for its        *)
(* (destination, mask) strings, the pair every comparison in common.c      *)
(* uses; its via for the (gateway_ip, OIF) strings.                        *)
(***************************************************************************)
EXTENDS Integers, SequencesExt

CONSTANTS Keys, Vias,
          NoKey, NoVia   \* the empty strings of a calloc'ed msg_t

Routes  == [key : Keys, via : Vias]
NoRoute == [key |-> NoKey, via |-> NoVia]

ASSUME RouteAssumption == NoKey \in Keys /\ NoVia \in Vias

\* The opcodes that change a table (types.h FUNCTION).
TableOps == {"CREATE", "UPDATE", "DELETE"}

HasKey(head, k, upto) == \E i \in 1..upto : head[i].key = k

\* Mutant: CREATE looks for no duplicate.
check_condition_open(head, k, op) ==
  CASE op = "CREATE" -> TRUE
    [] op = "UPDATE" -> HasKey(head, k, Len(head))
    [] op = "DELETE" -> head # <<>>

\* CREATE walks "while (ptr->next != NULL)": the last node is never compared.
\* DELETE starts from ret_val = true and no path of a non-empty list clears it.
check_condition(head, k, op) ==
  CASE op = "CREATE" -> ~HasKey(head, k, Len(head) - 1)
    [] op = "UPDATE" -> HasKey(head, k, Len(head))
    [] op = "DELETE" -> head # <<>>

add_last_entry_list(head, e) == Append(head, e)

\* Mutant: the loop stops at the first match.
update_first_entry(head, e) ==
  LET i == SelectInSeq(head, LAMBDA x : x.key = e.key) IN [head EXCEPT ![i] = e]

\* Every matching node is overwritten, not only the first.
update_entry_table(head, e) ==
  [i \in 1..Len(head) |-> IF head[i].key = e.key THEN e ELSE head[i]]

\* The first matching node is unlinked; without one the list is as it was.
remove_node_list(head, e) ==
  RemoveFirstMatch(head, LAMBDA x : x.key = e.key)

flush_routing_table_info == <<>>

\* The case of the opcode switch that is taken when check_condition is true.
EditRoutes(head, e, op) ==
  CASE op = "CREATE" -> add_last_entry_list(head, e)
    [] op = "UPDATE" -> update_entry_table(head, e)
    [] op = "DELETE" -> remove_node_list(head, e)
=============================================================================
