------------------------------ MODULE VarStore ------------------------------
(***************************************************************************)
(* What the users of the files are promised: every file operation that     *)
(* needs the firmware takes effect at one instant between its beginning    *)
(* and its end, on a table of limited values, and returns the result of    *)
(* that instant.                                                           *)
(***************************************************************************)
EXTENDS Integers

CONSTANTS Clients,      \* the files
          Vars,         \* variables of the firmware
          Low, High,    \* their limits
          Wishes        \* requests the clients may make

VARIABLES store,        \* value of each variable
          job,          \* what each client has asked for, and how far it is
          out           \* result of each client's last operation

storeVars == <<store, job, out>>

NoJob == [phase |-> "idle", type |-> "none", ind |-> -1, val |-> 0]

Answer(kind, ind, val) == [kind |-> kind, ind |-> ind, val |-> val]
NoAnswer == Answer("none", -1, 0)
Done     == Answer("done", -1, 0)
Failed   == Answer("failed", -1, 0)

Limited(i, v) == IF v < Low[i] THEN Low[i] ELSE IF v > High[i] THEN High[i] ELSE v

\* What a request is answered with, given the table.
Truth(type, i) == CASE type = "RD"     -> Answer("RD_VAL", i, store[i])
                    [] type = "RD_MIN" -> Answer("RD_MIN", i, Low[i])
                    [] type = "RD_MAX" -> Answer("RD_MAX", i, High[i])
                    [] OTHER           -> Answer(type, i, store[i])

Init == /\ store \in [Vars -> Int]
        /\ job = [c \in Clients |-> NoJob]
        /\ out = [c \in Clients |-> NoAnswer]

Ask(c) == /\ job[c].phase = "idle"
          /\ \E w \in Wishes :
                job' = [job EXCEPT ![c] = [phase |-> "asked", type |-> w.type,
                                           ind |-> w.ind, val |-> w.val]]
          /\ UNCHANGED <<store, out>>

ServeWrite(c) == /\ job[c].phase = "asked" /\ job[c].type = "WR"
                 /\ store' = [store EXCEPT ![job[c].ind] = Limited(job[c].ind, job[c].val)]
                 /\ job' = [job EXCEPT ![c] = [phase |-> "served", type |-> "done",
                                               ind |-> -1, val |-> 0]]
                 /\ UNCHANGED out

ServeRead(c) == /\ job[c].phase = "asked" /\ job[c].type # "WR"
                /\ LET a == Truth(job[c].type, job[c].ind)
                   IN  job' = [job EXCEPT ![c] = [phase |-> "served", type |-> a.kind,
                                                  ind |-> a.ind, val |-> a.val]]
                /\ UNCHANGED <<store, out>>

Deliver(c) == /\ job[c].phase = "served"
              /\ out' = [out EXCEPT ![c] = Answer(job[c].type, job[c].ind, job[c].val)]
              /\ job' = [job EXCEPT ![c] = NoJob]
              /\ UNCHANGED store

\* Operations that the firmware is not asked about.
Settle(c) == /\ job[c].phase = "idle"
             /\ \E a \in {NoAnswer, Done, Failed} : out' = [out EXCEPT ![c] = a]
             /\ UNCHANGED <<store, job>>

\* The firmware's application changes a value.
Local(i) == /\ \E v \in Low[i] .. High[i] : store' = [store EXCEPT ![i] = v]
            /\ UNCHANGED <<job, out>>

Next == \/ \E c \in Clients : Ask(c) \/ ServeWrite(c) \/ ServeRead(c) \/ Deliver(c) \/ Settle(c)
        \/ \E i \in Vars : Local(i)

Spec == Init /\ [][Next]_storeVars
=============================================================================
