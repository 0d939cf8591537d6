---------------------------- MODULE MCSumServer -----------------------------
(* SumServer with three clients and three slots: one, two or all of them for  *)
(* clients, depending on the server.  One client has two messages before its  *)
(* last, so that numbers are added up in a slot.                              *)
EXTENDS SumServer

CONSTANTS c1, c2, c3

MCMaxTyped == [c \in Clients |-> IF c = c1 THEN 2 ELSE 1]
=============================================================================
