------------------------------ MODULE MCProCon ------------------------------
(* Three producers and three consumers, as main of pro_con.c starts them, and *)
(* a queue of three.                                                          *)
EXTENDS ProCon, TLC

CONSTANTS TP1, TP2, TP3, TC1, TC2, TC3
=============================================================================
