---------------------------- MODULE MCCfgAccess ----------------------------
(***************************************************************************)
(* Small instances of CfgAccess: one firmware variable with limits 0 and 1 *)
(* (var_1) or two, a few open files and their processes.                   *)
(***************************************************************************)
EXTENDS CfgAccess, TLC

CONSTANTS f1, f2, f3, p1, p2, t1, t2, t3

\* Nothing tells the transaction structs apart.
TransSymmetry == Permutations(Trans)

\* Nor two files of the same variable that different processes use.
FileSymmetry == Permutations(Trans) \cup Permutations(Fds)

\* The firmware's table.
MCId   == 0 :> 1 @@ 1 :> 2
MCMin  == 0 :> 0 @@ 1 :> 0
MCMax  == 0 :> 1 @@ 1 :> 3
MCInit == 0 :> 0 @@ 1 :> 2

\* Two processes, each with its files.
TwoOwners   == f1 :> p1 @@ f2 :> p2
ThreeOwners == f1 :> p1 @@ f2 :> p2 @@ f3 :> p2

Val(i)  == [ind |-> i, acc |-> "VAL"]
Maxi(i) == [ind |-> i, acc |-> "RD_MAX"]

SamePaths  == f1 :> Val(0) @@ f2 :> Val(0)
TwoPaths   == f1 :> Val(0) @@ f2 :> Val(1)
\* With a file for an index the firmware does not have.
ThreePaths == f1 :> Val(0) @@ f2 :> Maxi(0) @@ f3 :> Val(2)

MCInputs == {UserText(5), JunkText}
OneInput == {UserText(1)}
ZeroInput == {UserText(0)}

\* The buffers of the bus: nothing else bounds the messages under way when files
\* are closed before their response has come.
Room == 2

RoughSpec == Init /\ [][LossyNext /\ Len(toBm') + Len(toLinux') <= Room]_vars
=============================================================================
