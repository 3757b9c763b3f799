---------------------------- MODULE MCConfigVars ----------------------------
(***************************************************************************)
(* Two variables: var_1 of the firmware, with limits 0 and 1, and one that *)
(* takes negative values.  The values written fall below, in and above.    *)
(***************************************************************************)
EXTENDS ConfigTable, TLC

MCId   == 0 :> 1 @@ 1 :> 2
MCMin  == 0 :> 0 @@ 1 :> -2
MCMax  == 0 :> 1 @@ 1 :> 1
MCInit == 0 :> 0 @@ 1 :> 1
MCInts == {-1, 2}
=============================================================================
