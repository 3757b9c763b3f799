------------------------------ MODULE CfgAccess ------------------------------
(***************************************************************************)
(* Access to the configuration variables from Linux processes: the files   *)
(* and the link of the kernel module, the rpmsg bus and the firmware's     *)
(* handler.                                                                *)
(***************************************************************************)
EXTENDS CfgMgmt, ConfigVars

vars == <<mgmtVars, cfgVars>>

(***************************************************************************)
(* The firmware serves the requests in order; its application may change   *)
(* values of its own.                                                      *)
(***************************************************************************)
Firmware == /\ toBm # <<>>
            /\ config_msg_handler(Head(toBm))
            /\ toBm' = Tail(toBm)
            /\ toLinux' = Append(toLinux, rep')
            /\ UNCHANGED <<trans, unused, heap, pending, nextSeq, req, at, cb, nVars, fileVars>>

Application == \E id \in Ids, v \in Ints :
                  cfgSetId(id, v, TRUE) /\ UNCHANGED mgmtVars

Init == /\ MgmtInit
        /\ CfgInit
        /\ nVars = NVars

Linux == /\ \/ \E f \in Fds : Begin(f) \/ Continue(f) \/ Interrupt(f)
            \/ Callback
         /\ UNCHANGED cfgVars

\* The lists are linked through the structs themselves: a struct that is cleared and
\* put into unused_list, or put into pending_list, while pending_list still links
\* it breaks both lists.  What the code does from there on is undefined, and no
\* behaviour goes on after it.
Intact == /\ pending \cap unused = {}
          /\ \A f \in Fds : at[f] = "pend" => file[f].t \notin pending

Next == Intact /\ (Linux \/ Firmware \/ Application)

Spec == Init /\ [][Next]_vars

\* The bus delivers, the firmware polls, the callback runs to its end and the
\* kernel schedules every thread that can run.
Fairness == /\ WF_vars(Firmware)
            /\ WF_vars(Callback /\ UNCHANGED cfgVars)
            /\ \A f \in Fds : WF_vars(Continue(f) /\ UNCHANGED cfgVars)

FairSpec == Spec /\ Fairness

\* The same with a bus that may have no buffer for a request.
LossyNext == Next \/ (Intact /\ \E f \in Fds : FailsToSend(f) /\ UNCHANGED cfgVars)

LossySpec == Init /\ [][LossyNext]_vars

(***************************************************************************)
(* Where a transaction struct can be.                                      *)
(***************************************************************************)
IsOpen(f) == file[f].op # "closed"
Held == {file[f].t : f \in {g \in Fds : IsOpen(g)}}

\* The firmware's response to f's request is due or has not been used yet.
Awaiting(f) == \/ file[f].op = "opening" /\ at[f] = "send"
               \/ file[f].op \in {"open", "reading"} /\ file[f].mode # "w" /\ ~ file[f].read
               \/ file[f].op = "closing" /\ at[f] \in {"send", "wait"}

\* The callback has not yet made the struct valid.
Unanswered == pending \cup IF cb.pc = "fill" THEN {cb.t} ELSE {}

(***************************************************************************)
(* Properties.                                                             *)
(***************************************************************************)
TypeOK == MgmtTypeOK /\ CfgTypeOK

\* No transaction struct is in two places: in memory that was never allocated,
\* in unused_list, or with one open file or in pending_list or both
\* (rpmsg_link_alloc_trans, rpmsg_link_return_trans and every path of the file
\* operations).
TransAccounted ==
    /\ unused \cap heap = {}
    /\ (Held \cup pending) \cap (unused \cup heap) = {}
    /\ \A f, g \in Fds : IsOpen(f) /\ IsOpen(g) /\ file[f].t = file[g].t => f = g

\* Nor is one forgotten.
Accounted == unused \cup heap \cup Held
NoLeak == Accounted = Trans

\* When requests fail, and as long as the lists are intact, the only operation
\* that forgets a struct is a close that fails (debugfs_release_var returns early
\* after an error or a signal).
ForgottenByFailedClose ==
    [][\A t \in Accounted \ Accounted' :
          \E f \in Fds : /\ file[f].op = "closing" /\ file[f].t = t
                         /\ out'[f].kind = "failed"]_vars

\* Until the callback makes it valid, a struct that is in pending_list, or that
\* the callback has taken from it, is not recycled, and the file that has it still
\* awaits the response: no text and no validity of one request lands in the struct
\* of another.  (What the callback does after that, the store of err and the look
\* at wq, can find the struct in other hands: NoFalseError.)
NotRecycledUnanswered ==
    /\ Unanswered \cap (unused \cup heap) = {}
    /\ \A f \in Fds : IsOpen(f) /\ file[f].t \in Unanswered
                         => Awaiting(f) /\ ~ Mine(f).valid

\* An operation on a variable that the firmware has is not reported as failed
\* because of another one's response (rpmsg_link.h: err "if access failed").  For
\* files whose text is a number and processes that get no signals.
NoFalseError == \A f \in Fds : Path[f].ind \in Idx => out[f].kind # "failed"

\* A process sleeps on usr_wait_q only while its response is still to come or
\* the callback that stored it has yet to wake the queue.
NoLostWakeup ==
    \A f \in asleep : \/ ~ Mine(f).valid
                      \/ cb.pc = "finish" /\ cb.t = file[f].t /\ CbWakes

\* And while it is still to come, it is under way: the request or the response is
\* on the bus, or the callback has it (debugfs_read_var, debugfs_release_var).
UnderWay(t) == \/ cb.pc = "fill" /\ cb.t = t
               \/ \E k \in 1 .. Len(toBm) : toBm[k].seq = trans[t].seq
               \/ \E k \in 1 .. Len(toLinux) : toLinux[k].seq = trans[t].seq
WaitsForAnswer == \A f \in asleep : Mine(f).valid \/ UnderWay(file[f].t)

\* The inductive invariant behind the last three: which stage of access_var goes
\* with which operation, what a file knows of its own struct at each of them, and
\* that the callback's struct has left pending_list.
OpStage == \A f \in Fds :
    /\ file[f].op \in {"closed", "open"} => at[f] = "out"
    /\ file[f].op = "opening" => at[f] \in {"fill", "seq", "pend", "send"}
    /\ file[f].op = "reading" => at[f] = "wait"
    /\ file[f].op = "closing" => at[f] \in {"fill", "seq", "pend", "send", "wait"}

Places == /\ unused \cap heap = {}
          /\ \A f \in Fds : IsOpen(f) => file[f].t \notin unused \cup heap
          /\ \A f, g \in Fds : IsOpen(f) /\ IsOpen(g) /\ file[f].t = file[g].t => f = g

Flight == /\ pending \cap (unused \cup heap) = {}
          /\ cb.pc = "fill" => cb.t \notin pending \cup unused \cup heap
          /\ \A f \in Fds : /\ IsOpen(f)
                            /\ \/ file[f].t \in pending
                               \/ cb.pc = "fill" /\ cb.t = file[f].t
                            => Awaiting(f) /\ ~ Mine(f).valid

Ready == \A f \in Fds :
    /\ file[f].op \in {"opening", "reading"} => file[f].mode # "w" /\ ~ file[f].read
    /\ at[f] \in {"fill", "seq", "pend"} => ~ Mine(f).valid

WakeUp == /\ NoLostWakeup
          /\ \A f \in asleep : at[f] = "wait"
          /\ \A f \in Fds : \/ file[f].op = "closing"
                            \/ IsOpen(f) /\ file[f].mode # "w"
                            => Mine(f).wq

SafeInv == OpStage /\ Places /\ Flight /\ Ready /\ WakeUp

\* When requests fail and files are closed unread, that invariant is lost only by the
\* close of an unread file, by a close whose write could not be sent, or by the open
\* for reading and writing whose query could not be sent: debugfs_release_var and
\* debugfs_open_var go on with a struct that pending_list links.  No signal, no
\* preemption and no other file does it.
ClosesUnread(f) == /\ file[f].op = "open" /\ Awaiting(f)
                   /\ file'[f].op \in {"closing", "closed"}
GoesOnUnsent(f) == /\ at[f] = "send" /\ UNCHANGED toBm
                   /\ \/ file[f].op = "closing" /\ file'[f].op = "closed"
                      \/ file[f].op = "opening" /\ file[f].mode = "rw" /\ file'[f].op = "open"
SafeUnlessReleased ==
    [][SafeInv => SafeInv' \/ \E f \in Fds : ClosesUnread(f) \/ GoesOnUnsent(f)]_vars

\* A read of a variable that exists returns the text of that variable and of the
\* access type of the file, whatever other files have requests under way
\* (sequence numbers).
OwnData ==
    \A f \in Fds : file[f].read /\ Path[f].ind \in Idx =>
                                   /\ out[f].ind = Path[f].ind
                                   /\ out[f].kind = IF Path[f].acc = "VAL" THEN "RD_VAL"
                                                                           ELSE Path[f].acc

\* The text of an error response is handed out as if it were data only between
\* the two stores of the callback for that very file: valid is set before err
\* (cfg_mgmt_rpmsg_cb, debugfs_read_var; rpmsg_link.h: err "if access failed").
ErrorWindow ==
    [][\A f \in Fds : out'[f].kind \in ErrorTexts /\ out'[f] # out[f]
                        => cb.pc = "finish" /\ cb.t = file[f].t]_vars

\* Closing a file that was opened for writing and written to sends the write of
\* its text to its variable (debugfs_release_var: "write the value back if the
\* file was opened for writing").
CloseWritesBack ==
    \A f \in Fds : file[f].op = "closing" /\ at[f] = "send" =>
        /\ req.type = "WR"
        /\ req.ind = Path[f].ind
        /\ req.val = Mine(f).text.val

\* An operation the firmware has to answer comes to its end.
Finishes == \A f \in Fds :
               file[f].op \in {"opening", "reading", "closing"}
                  ~> file[f].op \in {"open", "closed"}

(***************************************************************************)
(* The files implement VarStore.  A request is the client's from the time  *)
(* access_var has built it; it is served when the firmware has put the     *)
(* response on the bus.                                                    *)
(***************************************************************************)
Asked(f) == [phase |-> "asked", type |-> Wanted(f), ind |-> Path[f].ind,
             val |-> IF Wanted(f) = "WR" THEN Mine(f).text.val ELSE 0]

Served(m) == IF m.type = "OK"
             THEN [phase |-> "served", type |-> "done", ind |-> -1, val |-> 0]
             ELSE [phase |-> "served", type |-> m.type, ind |-> m.ind, val |-> m.val]

Stored(f) == IF file[f].op = "closing"
             THEN [phase |-> "served", type |-> "done", ind |-> -1, val |-> 0]
             ELSE [phase |-> "served", type |-> Mine(f).text.kind,
                   ind |-> Mine(f).text.ind, val |-> Mine(f).text.val]

NoJob == [phase |-> "idle", type |-> "none", ind |-> -1, val |-> 0]

Job(f) ==
    IF at[f] \in {"seq", "pend"} THEN Asked(f)
    ELSE IF ~ Awaiting(f) THEN NoJob
    ELSE IF Mine(f).valid THEN Stored(f)
    ELSE IF cb.pc = "fill" /\ cb.t = file[f].t THEN Served(cb.msg)
    ELSE IF \E k \in 1 .. Len(toLinux) : toLinux[k].seq = Mine(f).seq
         THEN Served(toLinux[CHOOSE k \in 1 .. Len(toLinux) : toLinux[k].seq = Mine(f).seq])
    ELSE Asked(f)

Wishes == [type : {"RD", "RD_MIN", "RD_MAX", "DESC"}, ind : Idx, val : {0}]
             \cup [type : {"WR"}, ind : Idx, val : {text.val : text \in Inputs}]

Store == INSTANCE VarStore WITH
            Clients <- Fds, Vars <- Idx, Low <- VarMin, High <- VarMax,
            store <- val, job <- [f \in Fds |-> Job(f)]

\* Reads and writes through the files are linearizable: debugfs_open_var,
\* debugfs_read_var, debugfs_release_var, the link and the firmware together
\* implement a table of limited registers.
ImplementsStore == Store!Spec
=============================================================================
