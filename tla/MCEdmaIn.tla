------------------------------ MODULE MCEdmaIn ------------------------------
(* Images of up to twenty rows, of which a buffer of eight bytes holds      *)
(* none, one, two, three, four or all: every block, in every order. Heights *)
(* below zero, down to where the count of rows is back at zero and past it. *)
EXTENDS EdmaIn

MCImages == [rowBytes : {0, 1, 2, 4, 6, 9}, height : -18..20]
=============================================================================
