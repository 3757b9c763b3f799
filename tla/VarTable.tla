------------------------------ MODULE VarTable ------------------------------
(***************************************************************************)
(* What the table of configuration variables promises to whoever reads and *)
(* writes it over the link: one register per variable whose contents       *)
(* always respect its limits.  A read answers with the register as it is   *)
(* and changes nothing; a write leaves what it was given, limited, unless  *)
(* the variable only publishes data of the application.                    *)
(***************************************************************************)
EXTENDS Integers

CONSTANTS Vars,        \* the variables
          Low, High,   \* limits of each variable
          Ints         \* values written over the link

VARIABLES store,       \* the register of each variable
          fixed,       \* variables that take no writes
          last         \* the last exchange: what was done to which variable, and
                       \* the value given by a write or told by an answer

tableVars == <<store, fixed, last>>

Exchange(op, i, v) == [op |-> op, ind |-> i, val |-> v]
Nothing == Exchange("none", -1, 0)

Limited(i, v) == IF v < Low[i] THEN Low[i] ELSE IF v > High[i] THEN High[i] ELSE v

Init == /\ store \in [Vars -> Int]
        /\ \A i \in Vars : store[i] = Limited(i, store[i])
        /\ fixed = {}
        /\ last = Nothing

Read(i) == /\ last' = Exchange("RD_VAL", i, store[i])
           /\ UNCHANGED <<store, fixed>>

ReadLimit(i) == /\ \/ last' = Exchange("RD_MIN", i, Low[i])
                   \/ last' = Exchange("RD_MAX", i, High[i])
                /\ UNCHANGED <<store, fixed>>

Write(i, v) == /\ last' = Exchange("WR", i, v)
               /\ store' = IF i \in fixed THEN store
                           ELSE [store EXCEPT ![i] = Limited(i, v)]
               /\ UNCHANGED fixed

\* Requests that are about something else than a number.
Query == /\ last' = Nothing
         /\ UNCHANGED <<store, fixed>>

\* The application changes what it publishes, or how.
Local(i, v) == /\ store' = [store EXCEPT ![i] = v]
               /\ fixed' \in {fixed, fixed \cup {i}, fixed \ {i}}
               /\ UNCHANGED last

Next == \/ \E i \in Vars : Read(i) \/ ReadLimit(i)
        \/ \E i \in Vars, v \in Ints : Write(i, v)
        \/ \E i \in Vars : \E v \in Low[i] .. High[i] : Local(i, v)
        \/ Query

Spec == Init /\ [][Next]_tableVars
=============================================================================
