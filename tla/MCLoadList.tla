----------------------------- MODULE MCLoadList -----------------------------
(***************************************************************************)
(* Two processes that open load_list, and two firmwares in succession.     *)
(***************************************************************************)
EXTENDS LoadList

CONSTANTS f1, f2, t1, t2, t3, t4
=============================================================================
