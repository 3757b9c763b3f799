------------------------------ MODULE LoadList ------------------------------
(***************************************************************************)
(* The list of the variables: the file load_list of the kernel module      *)
(* (cfg_mgmt_main.c), whose open counts the firmware's variables, asks for *)
(* their names and makes the files, and what happens to list and link when *)
(* the firmware is stopped and started again (probe and remove).           *)
(*                                                                         *)
(* The four directories are made, filled and removed together: one of them *)
(* stands for all.                                                         *)
(***************************************************************************)
EXTENDS RpmsgLink, FiniteSets

CONSTANTS Alone,        \* whether the list is loaded by one process at a time
          Sizes,        \* numbers of variables a firmware can have
          SameTable,    \* whether each firmware has as many as the one before
          MaxGen,       \* how often the firmware is started again
          Disturbances  \* what can go wrong with the request for a name

ASSUME AloneAssumption == Alone \in BOOLEAN /\ SameTable \in BOOLEAN
ASSUME SizesAssumption == Sizes \subseteq Nat /\ MaxGen \in Nat
ASSUME DisturbancesAssumption == Disturbances \subseteq {"signal", "send"}

VARIABLES load,         \* each open of load_list
          asleep,       \* those that sleep on usr_wait_q
          nreq,         \* sequence number in the static request of get_n_vars
          up,           \* whether the channel exists
          gen, size,    \* the firmware that runs and its number of variables
          valAccess,    \* whether val_access points to an array
          made,         \* whether debugfs has the directory val
          dir,          \* val_dir_p
          files         \* files of variables in debugfs

loadVars == <<load, asleep, nreq>>
modVars == <<up, gen, size, valAccess, made, dir, files>>
vars == <<linkVars, loadVars, modVars>>

Load == [op : {"closed", "count", "name", "open"}, t : Trans \cup {NoTrans},
         i : Nat, n : Nat]
NotOpen == [op |-> "closed", t |-> NoTrans, i |-> 0, n |-> 0]

\* debugfs_create_file with a null parent makes the file in debugfs' root.
Dirs == {"null", "val"}
VarFile == [dir : Dirs, name : Text, ind : Nat]

Mine(f) == trans[load[f].t]
Said(kind) == [kind |-> kind, ind |-> -1, val |-> 0]

\* The open ends with a text to be read.
Ended(s, kind) == [s EXCEPT !.text = Said(kind), !.valid = TRUE, !.rnw = TRUE]
EndOpen(f, kind) == /\ trans' = [trans EXCEPT ![load[f].t] = Ended(@, kind)]
                    /\ load' = [load EXCEPT ![f].op = "open"]

(***************************************************************************)
(* debugfs_open_ll, to the call of get_n_vars.                             *)
(***************************************************************************)
Loading(f) == load[f].op \in {"count", "name"}

MayOpen(f) == /\ up /\ load[f].op = "closed" /\ MayEnter
              /\ Alone /\ ~ valAccess => ~ \E g \in Fds : Loading(g)

\* (Variant: private_data is not set.)
OpenedBare(f, op, t) == load' = [load EXCEPT ![f] = [NotOpen EXCEPT !.op = op]]
Opened(f, op, t) == load' = [load EXCEPT ![f] = [NotOpen EXCEPT !.op = op, !.t = t]]

OpenLoaded(f) ==
    /\ MayOpen(f) /\ valAccess
    /\ \E t \in Trans :
          /\ Alloc(t)
          /\ trans' = [trans EXCEPT ![t] = Ended(Zeroed, "sorry")]
          /\ Opened(f, "open", t)
    /\ UNCHANGED <<pending, nextSeq, req, at, cb, nVars, toBm, toLinux, asleep, nreq, modVars>>

\* Bound: memory has room for the file's struct and that of get_n_vars.
OpenLoad(f) ==
    /\ MayOpen(f) /\ ~ valAccess /\ Cardinality(unused \cup heap) > 1
    /\ \E t \in Trans :
          /\ Alloc(t)
          /\ trans' = [trans EXCEPT ![t] = Zeroed]
          /\ Opened(f, "count", t)
    /\ at' = [at EXCEPT ![f] = "seq"]
    /\ UNCHANGED <<pending, nextSeq, req, cb, nVars, toBm, toLinux, asleep, nreq, modVars>>

(***************************************************************************)
(* get_n_vars.  Its struct is in no file and is never returned.            *)
(***************************************************************************)
CountSeq(f) == /\ load[f].op = "count" /\ at[f] = "seq"
               /\ nreq' = nextSeq
               /\ nextSeq' = (nextSeq + 1) % SeqMod
               /\ at' = [at EXCEPT ![f] = "pend"]
               /\ UNCHANGED <<trans, unused, heap, pending, req, cb, nVars, toBm, toLinux,
                              load, asleep, modVars>>

CountPend(f) ==
    /\ load[f].op = "count" /\ at[f] = "pend"
    /\ \E t \in Trans :
          /\ Alloc(t)
          /\ trans' = [trans EXCEPT ![t] = [Zeroed EXCEPT !.seq = nreq, !.wq = TRUE]]
          /\ pending' = pending \cup {t}
    /\ at' = [at EXCEPT ![f] = "send"]
    /\ UNCHANGED <<nextSeq, req, cb, nVars, toBm, toLinux, loadVars, modVars>>

CountSend(f) ==
    /\ load[f].op = "count" /\ at[f] = "send"
    /\ toBm' = Append(toBm, [seq |-> nreq, type |-> "N_VARS", ind |-> -1, val |-> 0])
    /\ at' = [at EXCEPT ![f] = "wait"]
    /\ UNCHANGED <<trans, unused, heap, pending, nextSeq, req, cb, nVars, toLinux,
                   loadVars, modVars>>

(***************************************************************************)
(* wait_event_interruptible(usr_wait_q, n_vars >= 0 or trans_p->valid).    *)
(***************************************************************************)
Waiting(f) == at[f] = "wait" /\ f \notin asleep

Due(f) == IF load[f].op = "count" THEN nVars >= 0 ELSE Mine(f).valid

Sleep(f) == /\ Waiting(f) /\ ~ Due(f)
            /\ asleep' = asleep \cup {f}
            /\ UNCHANGED <<linkVars, load, nreq, modVars>>

Wake == /\ CbFinish
        /\ asleep' = IF CbWakes THEN {} ELSE asleep
        /\ UNCHANGED <<load, nreq, modVars>>

Callback == \/ (CbMatch \/ CbDrop \/ CbFill) /\ UNCHANGED <<loadVars, modVars>>
            \/ Wake

(***************************************************************************)
(* debugfs_open_ll from the return of get_n_vars to its loop.              *)
(***************************************************************************)
NoVariables(f) ==
    /\ load[f].op = "count" /\ Waiting(f) /\ nVars = 0
    /\ EndOpen(f, "sorry")
    /\ at' = [at EXCEPT ![f] = "out"]
    /\ UNCHANGED <<unused, heap, pending, nextSeq, req, cb, nVars, toBm, toLinux,
                   asleep, nreq, modVars>>

\* What each turn of the loop does to the struct first.
\* (Variants: it is still valid from the turn before; it has no wait queue.)
TurnStale(s)   == [s EXCEPT !.dirty = FALSE, !.rnw = TRUE, !.wq = TRUE]
TurnNoQueue(s) == [s EXCEPT !.dirty = FALSE, !.rnw = TRUE, !.valid = FALSE]
Turn(s) == [s EXCEPT !.dirty = FALSE, !.rnw = TRUE, !.valid = FALSE, !.wq = TRUE]

\* A directory that debugfs has cannot be made again: val_dir_p is null then,
\* for every process.
MakeDir == /\ valAccess' = TRUE /\ made' = TRUE
           /\ dir' = IF made THEN "null" ELSE "val"

StartLoop(f) ==
    /\ load[f].op = "count" /\ Waiting(f) /\ nVars > 0 /\ MayEnter
    /\ MakeDir
    /\ IF made THEN /\ EndOpen(f, "sorry")
                    /\ at' = [at EXCEPT ![f] = "out"]
       ELSE /\ load' = [load EXCEPT ![f].op = "name", ![f].n = nVars]
            /\ trans' = [trans EXCEPT ![load[f].t] = Turn(@)]
            /\ at' = [at EXCEPT ![f] = "fill"]
    /\ UNCHANGED <<unused, heap, pending, nextSeq, req, cb, nVars, toBm, toLinux,
                   asleep, nreq, up, gen, size, files>>

(***************************************************************************)
(* The loop: access_var(i, ACC_NAME, trans_p), the wait, the files.        *)
(***************************************************************************)
Asks(f) == /\ load[f].op = "name"
           /\ \/ FillRequest(f, "NAME", load[f].i, 0)
              \/ TakeSeq(f)
              \/ AddPending(f, load[f].t)
              \/ SendRequest(f, "wait")
           /\ UNCHANGED <<loadVars, modVars>>

\* (Variant: the last variable is left out.)
LastTurnEarly(f) == load[f].i + 2 >= load[f].n
LastTurn(f) == load[f].i + 1 = load[f].n

NextTurn(f) == IF LastTurn(f) THEN /\ EndOpen(f, "ok")
                                   /\ at' = [at EXCEPT ![f] = "out"]
               ELSE /\ load' = [load EXCEPT ![f].i = @ + 1]
                    /\ trans' = [trans EXCEPT ![load[f].t] = Turn(@)]
                    /\ at' = [at EXCEPT ![f] = "fill"]

MakeFile(f) ==
    /\ load[f].op = "name" /\ Waiting(f) /\ Mine(f).valid /\ MayEnter
    /\ files' = files \cup {[dir |-> dir, name |-> Mine(f).text, ind |-> load[f].i]}
    /\ NextTurn(f)
    /\ UNCHANGED <<unused, heap, pending, nextSeq, req, cb, nVars, toBm, toLinux,
                   asleep, nreq, up, gen, size, valAccess, made, dir>>

(***************************************************************************)
(* A signal ends either wait, and the bus may have no buffer for a         *)
(* request.  The struct of the request stays in pending_list; that of a    *)
(* name is the open file's.                                                *)
(***************************************************************************)
Interrupted(f) ==
    /\ at[f] = "wait" /\ ~ Due(f)
    /\ EndOpen(f, "sorry")
    /\ at' = [at EXCEPT ![f] = "out"]
    /\ asleep' = asleep \ {f}
    /\ UNCHANGED <<unused, heap, pending, nextSeq, req, cb, nVars, toBm, toLinux, nreq, modVars>>

CountFails(f) ==
    /\ load[f].op = "count"
    /\ \/ Interrupted(f)
       \/ /\ FailToSend(f) /\ EndOpen(f, "sorry")
          /\ UNCHANGED <<unused, heap, pending, nextSeq, req, cb, nVars, toBm, toLinux,
                         asleep, nreq, modVars>>

\* A name that could not be asked for is left out, and the loop goes on.
NameFails(f) ==
    /\ load[f].op = "name"
    /\ \/ "signal" \in Disturbances /\ Interrupted(f)
       \/ /\ "send" \in Disturbances /\ at[f] = "send" /\ NextTurn(f)
          /\ UNCHANGED <<unused, heap, pending, nextSeq, req, cb, nVars, toBm, toLinux,
                         asleep, nreq, modVars>>

\* debugfs_release_var: nothing was written.
Close(f) == /\ load[f].op = "open"
            /\ Return(load[f].t)
            /\ load' = [load EXCEPT ![f] = NotOpen]
            /\ UNCHANGED <<pending, nextSeq, req, at, cb, nVars, toBm, toLinux,
                           asleep, nreq, modVars>>

(***************************************************************************)
(* The firmware's answers: the number of its variables, and the name of    *)
(* one (here the name tells the firmware it comes from).                   *)
(***************************************************************************)
Answer(m) ==
    IF m.type = "N_VARS" THEN [m EXCEPT !.val = size]
    ELSE IF m.ind < size THEN [m EXCEPT !.val = gen]
    ELSE [m EXCEPT !.type = "ID_ERR"]

Firmware == /\ toBm # <<>>
            /\ toLinux' = Append(toLinux, Answer(Head(toBm)))
            /\ toBm' = Tail(toBm)
            /\ UNCHANGED <<trans, unused, heap, pending, nextSeq, req, at, cb, nVars,
                           loadVars, modVars>>

(***************************************************************************)
(* cfg_mgmt_remove when the firmware is stopped, cfg_mgmt_probe when it is *)
(* started again.  The firmware is stopped when no file is open and no     *)
(* callback runs; the messages under way go with the channel.              *)
(***************************************************************************)
Quiet == /\ \A f \in Fds : load[f].op = "closed"
         /\ cb.pc = "idle"

\* rpmsg_link_exit.
\* (Variant: the structs of unused_list are freed, and stay in it.)
ExitKeeps == unused' = unused
ExitEmpties == unused' = {}

Remove == /\ up /\ gen < MaxGen /\ Quiet
          /\ heap' = heap \cup unused \cup pending
          /\ ExitEmpties /\ pending' = {}
          /\ valAccess' = FALSE /\ made' = FALSE
          /\ files' = {e \in files : e.dir = "null"}
          /\ up' = FALSE
          /\ toBm' = <<>> /\ toLinux' = <<>>
          /\ UNCHANGED <<trans, nextSeq, req, at, cb, nVars, loadVars, gen, size, dir>>

\* n_vars keeps its value.
Probe == /\ ~ up
         /\ \E s \in SUBSET heap : /\ Cardinality(s) = Cardinality(Pool)
                                   /\ unused' = unused \cup s /\ heap' = heap \ s
         /\ gen' = gen + 1
         /\ size' \in IF SameTable THEN {size} ELSE Sizes
         /\ up' = TRUE
         /\ UNCHANGED <<trans, pending, nextSeq, req, at, cb, nVars, toBm, toLinux, loadVars,
                        valAccess, made, dir, files>>

Init == /\ LinkInit /\ nVars = -1
        /\ load = [f \in Fds |-> NotOpen] /\ asleep = {} /\ nreq = 0
        /\ up = TRUE /\ gen = 0 /\ size \in Sizes
        /\ valAccess = FALSE /\ made = FALSE /\ dir = "null" /\ files = {}

Begin(f) == OpenLoaded(f) \/ OpenLoad(f) \/ Close(f)
Continue(f) == \/ CountSeq(f) \/ CountPend(f) \/ CountSend(f)
               \/ Sleep(f) \/ NoVariables(f) \/ StartLoop(f)
               \/ Asks(f) \/ MakeFile(f)

Modules == \/ \E f \in Fds : \/ Begin(f) \/ Continue(f)
                              \/ CountFails(f) \/ NameFails(f)
           \/ Callback
           \/ Remove \/ Probe

\* The lists are linked through the structs: a struct that is put into unused_list,
\* or into pending_list again, while pending_list still links it breaks both lists,
\* and no behaviour goes on after it.
Intact == /\ pending \cap unused = {}
          /\ \A f \in Fds : load[f].op = "name" /\ at[f] = "pend"
                               => load[f].t \notin pending

Next == Intact /\ (Modules \/ Firmware)

Spec == Init /\ [][Next]_vars

\* The kernel schedules every thread that can run, the bus delivers, the firmware
\* polls.
FairSpec == /\ Spec
            /\ WF_vars(Intact /\ Firmware) /\ WF_vars(Intact /\ Callback)
            /\ \A f \in Fds : WF_vars(Intact /\ Continue(f))

(***************************************************************************)
(* Properties.                                                             *)
(***************************************************************************)
TypeOK == /\ LinkTypeOK
          /\ load \in [Fds -> Load]
          /\ \A f \in Fds : load[f].op # "closed" => load[f].t \in Trans
          /\ asleep \subseteq Fds /\ nreq \in Nat
          /\ up \in BOOLEAN /\ gen \in 0 .. MaxGen /\ size \in Sizes
          /\ valAccess \in BOOLEAN /\ made \in BOOLEAN /\ dir \in Dirs
          /\ files \subseteq VarFile

NameOf(g, i) == [kind |-> "NAME", ind |-> i, val |-> g]
Table(d) == {[dir |-> d, name |-> NameOf(gen, i), ind |-> i] : i \in 0 .. size - 1}

\* Every file is in the module's directory and has the name that the firmware
\* which runs has for its index, also when the list is loaded again after the
\* firmware was started again (cfg_mgmt_remove, the stale n_vars).
FilesNamed == up => files \subseteq Table("val")

\* "ok" is read from load_list only when every variable has its files, but for one
\* that could not be asked for: its struct is then still in pending_list, and as
\* another turn of the loop breaks the lists it is the last ("we can keep the other
\* variables and simply create no files for this index").
AllButLast == {e \in Table("val") : e.ind < size - 1}
OkComplete == \A f \in Fds :
    load[f].op = "open" /\ Mine(f).text = Said("ok")
        => \/ files = Table("val")
           \/ load[f].t \in pending /\ files = AllButLast

\* All files are made in the module's own directory, where cfg_mgmt_remove finds
\* them ("create the necessary debugfs directories and files").
FilesInPlace == \A e \in files : e.dir # "null"

\* Where a transaction struct can be: with an open file, under way (in pending_list
\* or with the callback, which has not made it valid yet), or free.
IsOpen(f) == load[f].op # "closed"
Held == {load[f].t : f \in {g \in Fds : IsOpen(g)}}
Flying(t) == t \in pending \/ (cb.pc = "fill" /\ cb.t = t)
Unanswered == {t \in Trans : Flying(t)}

\* A struct under way is never free, nor is that of an open file, no two files share
\* one and none asks with a struct that is still under way, across rpmsg_link_exit
\* and rpmsg_link_init.
TransAccounted ==
    /\ unused \cap heap = {}
    /\ (Held \cup Unanswered) \cap (unused \cup heap) = {}
    /\ \A f, g \in Fds : IsOpen(f) /\ IsOpen(g) /\ load[f].t = load[g].t => f = g
    /\ \A f \in Fds : load[f].op = "name" /\ at[f] \in {"fill", "seq", "pend"}
                         => ~ Flying(load[f].t)

\* The inductive invariant behind that.  If the struct under way is a file's, the
\* file waits for a name that has not come, or has given up the wait.
Places == /\ unused \cap heap = {}
          /\ \A f \in Fds : IsOpen(f) => load[f].t \notin unused \cup heap
          /\ \A f, g \in Fds : IsOpen(f) /\ IsOpen(g) /\ load[f].t = load[g].t => f = g

Flight == /\ \A t \in unused \cup heap : ~ Flying(t)
          /\ cb.pc = "fill" => cb.t \notin pending
          /\ \A f \in Fds : IsOpen(f) /\ Flying(load[f].t)
                => \/ load[f].op = "open"
                   \/ load[f].op = "name" /\ at[f] \in {"send", "wait"} /\ ~ Mine(f).valid
          /\ \A f \in Fds : load[f].op = "name" /\ at[f] \in {"fill", "seq", "pend"} => ~ Mine(f).valid

SafeInv == Places /\ Flight

\* It is lost only by what debugfs_open_ll and debugfs_release_var do after a failure:
\* the close of a list whose struct is still under way (a signal has ended the wait
\* for a name, or the last name was not sent), and the turn of the loop after a name
\* that was not sent ("we can keep the other variables").  No restart of the
\* firmware, no get_n_vars and no second process does it.
ClosesCut(f) == /\ load[f].op = "open" /\ load'[f].op = "closed"
                /\ Flying(load[f].t)
SkipsName(f) == /\ load[f].op = "name" /\ load'[f].op = "name"
                /\ Flying(load[f].t) /\ load'[f].i = load[f].i + 1
SafeUnlessCut ==
    [][SafeInv => SafeInv' \/ \E f \in Fds : ClosesCut(f) \/ SkipsName(f)]_vars

\* The only structs that are lost for good are those that get_n_vars has used, one
\* for each call of it.
Lost == Trans \ (unused \cup heap \cup Held \cup Unanswered)
OnlyCountsLeak == \A t \in Lost : trans[t].wq /\ ~ trans[t].rnw

\* An open of load_list comes to its end, as long as the lists are intact.
Loads == \A f \in Fds : Loading(f) ~> ~ Loading(f) \/ ~ Intact
=============================================================================
