------------------------------- MODULE CfgMgmt -------------------------------
(***************************************************************************)
(* The debugfs files of the kernel module (kernel_mod/cfg_mgmt_main.c).    *)
(* Opening a file for reading sends the query, reading waits for the       *)
(* response, writing fills the buffer and closing sends what was written.  *)
(* Each process has one system call at a time in progress; a file has one  *)
(* transaction struct from open to release.                                *)
(***************************************************************************)
EXTENDS RpmsgLink

CONSTANTS Owner,        \* the process that uses each file
          Path,         \* index and access type of each file
          Modes,        \* ways the files are opened
          Inputs,       \* texts written to them
          Patient,      \* whether files opened for reading are read before closing
          Signals       \* whether waiting processes receive signals

UserText(v) == [kind |-> "user", ind |-> -1, val |-> v]
JunkText == [kind |-> "junk", ind |-> -1, val |-> 0]

AccessTypes == {"VAL", "RD_MIN", "RD_MAX", "DESC"}

ASSUME OwnerAssumption == DOMAIN Owner = Fds
ASSUME PathAssumption == Path \in [Fds -> [ind : Nat, acc : AccessTypes]]
ASSUME ModesAssumption == Modes \subseteq {"r", "w", "rw"}
ASSUME InputsAssumption ==
    \A text \in Inputs : \/ text = JunkText
                         \/ text.val \in Int /\ text = UserText(text.val)
ASSUME ClientAssumption == Patient \in BOOLEAN /\ Signals \in BOOLEAN

VARIABLES file,         \* each struct file: what goes on with it
          asleep,       \* files whose process sleeps on usr_wait_q
          out           \* what the last operation on each file returned

fileVars == <<file, asleep, out>>
mgmtVars == <<linkVars, fileVars>>

Ops == {"closed", "opening", "open", "reading", "closing"}
File == [op : Ops, mode : {"r", "w", "rw"}, t : Trans \cup {NoTrans}, read : BOOLEAN]
Closed == [op |-> "closed", mode |-> "r", t |-> NoTrans, read |-> FALSE]

Results == [kind : TextKinds \cup {"none", "done", "failed"}, ind : Int, val : Int]
Result(k) == [kind |-> k, ind |-> -1, val |-> 0]

Mine(f) == trans[file[f].t]

Idle(f) == \A g \in Fds : Owner[g] = Owner[f] => file[g].op \in {"closed", "open"}

(***************************************************************************)
(* debugfs_open_var.                                                       *)
(***************************************************************************)
\* (Variant: private_data is not set.)
OpenedBare(f, op, mode, t) ==
    /\ file' = [file EXCEPT ![f] = [op |-> op, mode |-> mode, t |-> file[f].t, read |-> FALSE]]
    /\ out' = [out EXCEPT ![f] = Result("none")]
Opened(f, op, mode, t) ==
    /\ file' = [file EXCEPT ![f] = [op |-> op, mode |-> mode, t |-> t, read |-> FALSE]]
    /\ out' = [out EXCEPT ![f] = Result("none")]

OpenToWrite(f) ==
    /\ file[f].op = "closed" /\ Idle(f) /\ "w" \in Modes
    /\ \E t \in Trans :
          /\ Alloc(t)
          /\ trans' = [trans EXCEPT ![t] = [Zeroed EXCEPT !.valid = TRUE]]
          /\ Opened(f, "open", "w", t)
    /\ UNCHANGED <<pending, nextSeq, req, at, cb, nVars, toBm, toLinux, asleep>>

OpenToRead(f, mode) ==
    /\ file[f].op = "closed" /\ Idle(f)
    /\ \E t \in Trans :
          /\ Alloc(t)
          /\ trans' = [trans EXCEPT ![t] = [Zeroed EXCEPT !.rnw = TRUE, !.wq = TRUE]]
          /\ Opened(f, "opening", mode, t)
    /\ Enter(f)
    /\ UNCHANGED <<pending, nextSeq, req, cb, nVars, toBm, toLinux, asleep>>

\* if (!ret) return ret: a query that is under way ends the open.
OpenSends(f) == /\ file[f].op = "opening"
                /\ SendRequest(f, "out")
                /\ file' = [file EXCEPT ![f].op = "open"]
                /\ UNCHANGED <<asleep, out>>

\* One that could not be sent does not: the file opens all the same.
OpenFailsToSend(f) ==
    /\ file[f].op = "opening"
    /\ FailToSend(f)
    /\ trans' = IF file[f].mode = "rw"
                THEN [trans EXCEPT ![file[f].t] = [@ EXCEPT !.rnw = FALSE, !.valid = TRUE]]
                ELSE trans
    /\ file' = [file EXCEPT ![f].op = "open"]
    /\ UNCHANGED <<unused, heap, pending, nextSeq, req, cb, nVars, toBm, toLinux, asleep, out>>

(***************************************************************************)
(* The switch of access_var, for the file's inode and transaction.         *)
(***************************************************************************)
Wanted(f) == IF Path[f].acc # "VAL" THEN Path[f].acc
             ELSE IF Mine(f).rnw THEN "RD" ELSE "WR"

Parses(f) == Wanted(f) = "WR" => Mine(f).text.kind # "junk"

Fill(f) ==
    /\ FillRequest(f, Wanted(f), Path[f].ind,
                   IF Wanted(f) = "WR" THEN Mine(f).text.val ELSE 0)
    /\ Parses(f)
    /\ UNCHANGED fileVars

Number(f) == TakeSeq(f) /\ UNCHANGED fileVars
Pend(f)   == AddPending(f, file[f].t) /\ UNCHANGED fileVars

(***************************************************************************)
(* wait_event_interruptible(usr_wait_q, trans_p->valid): the condition is  *)
(* checked after the process has joined the queue.                         *)
(***************************************************************************)
Waiting(f) == at[f] = "wait" /\ f \notin asleep

Sleep(f) == /\ Waiting(f) /\ ~ Mine(f).valid
            /\ asleep' = asleep \cup {f}
            /\ UNCHANGED <<linkVars, file, out>>

Leave(f) == at' = [at EXCEPT ![f] = "out"]

\* wake_up_interruptible at the end of the callback wakes the whole queue.
\* (Variant: it wakes one process, whichever that is.)
WakeOne == /\ CbFinish
           /\ IF CbWakes /\ asleep # {} THEN \E f \in asleep : asleep' = asleep \ {f}
                                        ELSE asleep' = asleep
           /\ UNCHANGED <<file, out>>
Wake == /\ CbFinish
        /\ asleep' = IF CbWakes THEN {} ELSE asleep
        /\ UNCHANGED <<file, out>>

Callback == \/ (CbMatch \/ CbDrop \/ CbFill) /\ UNCHANGED fileVars
            \/ Wake

(***************************************************************************)
(* debugfs_read_var.                                                       *)
(***************************************************************************)
StartRead(f) ==
    /\ file[f].op = "open" /\ file[f].mode # "w" /\ ~ file[f].read /\ Idle(f)
    /\ file' = [file EXCEPT ![f].op = "reading"]
    /\ at' = [at EXCEPT ![f] = "wait"]
    /\ UNCHANGED <<trans, unused, heap, pending, nextSeq, req, cb, nVars, toBm, toLinux, asleep, out>>

FinishRead(f) ==
    /\ file[f].op = "reading" /\ Waiting(f) /\ Mine(f).valid
    /\ out' = [out EXCEPT ![f] = IF Mine(f).err THEN Result("failed") ELSE Mine(f).text]
    /\ file' = [file EXCEPT ![f].op = "open", ![f].read = TRUE]
    /\ Leave(f)
    /\ UNCHANGED <<trans, unused, heap, pending, nextSeq, req, cb, nVars, toBm, toLinux, asleep>>

\* A signal ends the wait; the read may be tried again.
InterruptRead(f) ==
    /\ Signals /\ file[f].op = "reading" /\ at[f] = "wait" /\ ~ Mine(f).valid
    /\ file' = [file EXCEPT ![f].op = "open"]
    /\ asleep' = asleep \ {f}
    /\ Leave(f)
    /\ UNCHANGED <<trans, unused, heap, pending, nextSeq, req, cb, nVars, toBm, toLinux, out>>

(***************************************************************************)
(* debugfs_write_var.                                                      *)
(***************************************************************************)
Write(f) ==
    /\ file[f].op = "open" /\ file[f].mode # "r" /\ Idle(f)
    /\ \E text \in Inputs :
          trans' = [trans EXCEPT ![file[f].t] = [@ EXCEPT !.text = text, !.dirty = TRUE]]
    /\ UNCHANGED <<unused, heap, pending, nextSeq, req, at, cb, nVars, toBm, toLinux, fileVars>>

(***************************************************************************)
(* debugfs_release_var.                                                    *)
(***************************************************************************)
ToWriteBack(f) == file[f].mode # "r" /\ Mine(f).dirty

MayClose(f) == /\ file[f].op = "open" /\ Idle(f)
               /\ Patient => file[f].mode = "w" \/ file[f].read

Released(f, k) == /\ file' = [file EXCEPT ![f] = Closed]
                  /\ out' = [out EXCEPT ![f] = Result(k)]

\* Nothing to write back, or a limit or description that cannot be written.
Close(f) ==
    /\ MayClose(f)
    /\ ToWriteBack(f) => Path[f].acc # "VAL"
    /\ Return(file[f].t)
    /\ Released(f, IF ToWriteBack(f) THEN "failed" ELSE "done")
    /\ UNCHANGED <<pending, nextSeq, req, at, cb, nVars, toBm, toLinux, asleep>>

\* The struct is prepared for the response to the write request.
\* (Variants: it stays valid from the open; it is given no wait queue; it still
\* says what a file opened for reading wants.)
PreparedToRead(s)  == [s EXCEPT !.wq = TRUE, !.valid = FALSE, !.rnw = TRUE]
PreparedValid(s)   == [s EXCEPT !.wq = TRUE]
PreparedNoQueue(s) == [s EXCEPT !.valid = FALSE]
Prepared(s)        == [s EXCEPT !.wq = TRUE, !.valid = FALSE]

WriteBack(f) ==
    /\ MayClose(f) /\ ToWriteBack(f) /\ Path[f].acc = "VAL"
    /\ trans' = [trans EXCEPT ![file[f].t] = Prepared(@)]
    /\ file' = [file EXCEPT ![f].op = "closing"]
    /\ Enter(f)
    /\ UNCHANGED <<unused, heap, pending, nextSeq, req, cb, nVars, toBm, toLinux, asleep, out>>

RejectClose(f) ==
    /\ file[f].op = "closing" /\ ~ Parses(f)
    /\ RejectRequest(f, Path[f].ind)
    /\ Return(file[f].t)
    /\ Released(f, "failed")
    /\ UNCHANGED <<pending, nextSeq, cb, nVars, toBm, toLinux, asleep>>

CloseSends(f) == /\ file[f].op = "closing"
                 /\ SendRequest(f, "wait")
                 /\ UNCHANGED fileVars

CloseFailsToSend(f) ==
    /\ file[f].op = "closing"
    /\ FailToSend(f)
    /\ Return(file[f].t)
    /\ Released(f, "failed")
    /\ UNCHANGED <<pending, nextSeq, req, cb, nVars, toBm, toLinux, asleep>>

\* After an error the struct is not returned.
FinishClose(f) ==
    /\ file[f].op = "closing" /\ Waiting(f) /\ Mine(f).valid
    /\ IF Mine(f).err THEN /\ Released(f, "failed")
                           /\ UNCHANGED <<trans, unused, heap>>
                      ELSE /\ Released(f, "done")
                           /\ Return(file[f].t)
    /\ Leave(f)
    /\ UNCHANGED <<pending, nextSeq, req, cb, nVars, toBm, toLinux, asleep>>

\* Nor is it when a signal ends the wait.
\* (Variant: the struct is returned, although the response is still to come.)
InterruptCloseReturns(f) ==
    /\ Signals /\ file[f].op = "closing" /\ at[f] = "wait" /\ ~ Mine(f).valid
    /\ Released(f, "failed")
    /\ Return(file[f].t)
    /\ asleep' = asleep \ {f}
    /\ Leave(f)
    /\ UNCHANGED <<pending, nextSeq, req, cb, nVars, toBm, toLinux>>
InterruptClose(f) ==
    /\ Signals /\ file[f].op = "closing" /\ at[f] = "wait" /\ ~ Mine(f).valid
    /\ Released(f, "failed")
    /\ asleep' = asleep \ {f}
    /\ Leave(f)
    /\ UNCHANGED <<trans, unused, heap, pending, nextSeq, req, cb, nVars, toBm, toLinux>>

(***************************************************************************)
(* Operations a process starts, and steps that its kernel thread takes.    *)
(***************************************************************************)
Begin(f) == \/ OpenToWrite(f)
            \/ \E mode \in Modes \ {"w"} : OpenToRead(f, mode)
            \/ StartRead(f) \/ Write(f)
            \/ Close(f) \/ WriteBack(f)

Continue(f) == \/ Fill(f) \/ Number(f) \/ Pend(f)
               \/ OpenSends(f)  \/ CloseSends(f)
               \/ RejectClose(f)
               \/ Sleep(f) \/ FinishRead(f) \/ FinishClose(f)

Interrupt(f) == InterruptRead(f) \/ InterruptClose(f)

FailsToSend(f) == OpenFailsToSend(f) \/ CloseFailsToSend(f)

MgmtInit == /\ LinkInit
            /\ file = [f \in Fds |-> Closed]
            /\ asleep = {}
            /\ out = [f \in Fds |-> Result("none")]

\* Every variable of the files has its type: struct file and the wait queue.
MgmtTypeOK == /\ LinkTypeOK
              /\ file \in [Fds -> File]
              /\ \A f \in Fds : file[f].op # "closed" => file[f].t \in Trans
              /\ asleep \subseteq Fds
              /\ out \in [Fds -> Results]
=============================================================================
