------------------------------ MODULE MacTable ------------------------------
(***************************************************************************)
(* The MAC table of Project/Routing_Table/common_mac.c: the list of MAC    *)
(* addresses whose IP is kept in a POSIX shared memory object of that      *)
(* name.  A sequence of MAC addresses; the list loops are those of         *)
(* common.c with the address itself as the key.                            *)
(***************************************************************************)
EXTENDS Integers, SequencesExt

CONSTANTS Macs, NoMac    \* NoMac: the zeroed buffer of a request without one

ASSUME MacAssumption == NoMac \in Macs

HasMac(head, m, upto) == \E i \in 1..upto : head[i] = m

check_condition_mac(head, m, op) ==
  CASE op = "CREATE" -> ~HasMac(head, m, Len(head) - 1)
    [] op = "UPDATE" -> HasMac(head, m, Len(head))
    [] op = "DELETE" -> head # <<>>

add_last_entry_list_mac(head, m) == Append(head, m)

\* Each matching node's address is overwritten with the same address.
update_entry_table_mac(head, m) ==
  [i \in 1..Len(head) |-> IF head[i] = m THEN m ELSE head[i]]

remove_node_list_mac(head, m) == RemoveFirstMatch(head, LAMBDA x : x = m)

flush_mac_info == <<>>

EditMacs(head, m, op) ==
  CASE op = "CREATE" -> add_last_entry_list_mac(head, m)
    [] op = "UPDATE" -> update_entry_table_mac(head, m)
    [] op = "DELETE" -> remove_node_list_mac(head, m)
=============================================================================
