----------------------------- MODULE ConfigTable -----------------------------
(***************************************************************************)
(* The firmware's table seen by whoever sends it requests.  The value that *)
(* a write was given is gone when the handler returns, and so a variable   *)
(* is added that remembers it: the reply buffer and that variable tell     *)
(* what the last exchange was.                                             *)
(***************************************************************************)
EXTENDS ConfigVars

VARIABLE given          \* the last request, if it was a write (history)

NoWrite == [seq |-> 0, type |-> "NOP", ind |-> -1, val |-> 0]

GivenInit == CfgInit /\ given = NoWrite

GivenServe == \E r \in Request : /\ config_msg_handler(r)
                                 /\ given' = IF r.type = "WR" THEN r ELSE NoWrite

GivenNext == GivenServe \/ (Local /\ UNCHANGED given)

GivenSpec == GivenInit /\ [][GivenNext]_<<cfgVars, given>>

(***************************************************************************)
(* The table as a set of registers.                                        *)
(***************************************************************************)
\* The value the other side sees of variable i: a variable with a copying read
\* callback publishes the application's location.
Published(i) == IF rdCb[i] = "cpy" THEN Clamp(i, cell[i]) ELSE val[i]

\* The variables that only publish.
ReadOnly == {i \in Idx : rdCb[i] = "cpy" /\ wrCb[i] # "cpy"}

\* What the last request and its reply were about.
Exchanged ==
    IF rep.type \in {"RD_VAL", "RD_MIN", "RD_MAX"}
    THEN [op |-> rep.type, ind |-> rep.ind, val |-> rep.val]
    ELSE IF rep.type = "OK" /\ given.type = "WR"
    THEN [op |-> "WR", ind |-> given.ind, val |-> given.val]
    ELSE [op |-> "none", ind |-> -1, val |-> 0]

Table == INSTANCE VarTable WITH
            Vars <- Idx, Low <- VarMin, High <- VarMax,
            store <- [i \in Idx |-> Published(i)],
            fixed <- ReadOnly,
            last <- Exchanged

\* config_msg_handler with its callbacks implements one limited register per
\* variable, also when the data lives in the application's location: what a read
\* answers is the register, what a write was given is in it afterwards, limited,
\* and no answer about a number comes with one that the reply buffer still held.
ImplementsTable == Table!Spec
=============================================================================
