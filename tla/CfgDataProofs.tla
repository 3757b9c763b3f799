---------------------------- MODULE CfgDataProofs ----------------------------
(***************************************************************************)
(* Proofs about the data that passes through the variable files: whose     *)
(* response it is, what a request asks for, when an error can be read, and *)
(* that no struct is forgotten.                                            *)
(***************************************************************************)
EXTENDS CfgAccessProofs, FiniteSetTheorems, SequenceTheorems

(***************************************************************************)
(* A file that was opened for reading and has not been read.               *)
(***************************************************************************)
Reads(f) == file[f].op \in {"opening", "open", "reading"} /\ file[f].mode # "w" /\ ~ file[f].read

IsError(s) == s.text.kind \in ErrorTexts
InFinish(f) == cb.pc = "finish" /\ cb.t = file[f].t

\* The text of an error is in the struct of such a file only together with err, or
\* while the callback is between the two stores.
ErrorOf(f) == /\ ~ Mine(f).valid => ~ IsError(Mine(f))
              /\ IsError(Mine(f)) => Mine(f).err \/ InFinish(f)
              /\ IsError(Mine(f)) /\ InFinish(f) => cb.msg.type \in ErrorTexts
ErrInv == \A f \in Fds : Reads(f) => ErrorOf(f)

(***************************************************************************)
(* Without preemption one file at a time is in access_var, and what it has *)
(* put into the static request stays there.                                *)
(***************************************************************************)
Lone == \A f, g \in Fds : InAccess(f) /\ InAccess(g) => f = g

\* With files that are opened either for reading or for writing.
Direction == \A f \in Fds :
    /\ IsOpen(f) => file[f].mode \in {"r", "w"} /\ (Mine(f).rnw <=> file[f].mode = "r")
    /\ file[f].op = "opening" => file[f].mode = "r"
    /\ file[f].op = "closing" => file[f].mode = "w" /\ Path[f].acc = "VAL"

Asks(f) == IF Path[f].acc # "VAL" THEN Path[f].acc
           ELSE IF file[f].mode = "r" THEN "RD" ELSE "WR"
Told(f) == IF Path[f].acc = "VAL" THEN "RD_VAL" ELSE Path[f].acc

Asking(f) == req.type = Asks(f) /\ req.ind = Path[f].ind
ReqInv == \A f \in Fds : at[f] \in {"seq", "pend", "send"} => Asking(f)

(***************************************************************************)
(* Sequence numbers.  The responses and then the requests under way carry  *)
(* numbers that go up by one; a request that access_var has numbered but   *)
(* not sent has the latest.                                                *)
(***************************************************************************)
Numbered == \E f \in Fds : at[f] \in {"pend", "send"}
Listed == \E f \in Fds : at[f] = "send"
One(b) == IF b THEN 1 ELSE 0

\* How many numbers ago s was given out, when n is the next.
Age(n, s) == IF s < n THEN n - s ELSE n - s + SeqMod

SeqNrs == 0 .. SeqMod - 1
Aged(s, age) == s \in SeqNrs /\ Age(nextSeq, s) = age

Window ==
    /\ nextSeq \in SeqNrs
    /\ \A k \in 1 .. Len(toBm) : Aged(toBm[k].seq, Len(toBm) - k + 1 + One(Numbered))
    /\ \A k \in 1 .. Len(toLinux) :
          Aged(toLinux[k].seq, Len(toLinux) - k + 1 + Len(toBm) + One(Numbered))
    /\ Numbered => Aged(req.seq, 1)

SeqsUnderWay == {toBm[k].seq : k \in 1 .. Len(toBm)} \cup {toLinux[k].seq : k \in 1 .. Len(toLinux)}

\* Every message under way has a struct of its own in pending_list, and every struct
\* there a sequence number of its own.
Paired == /\ Len(toBm) + Len(toLinux) + One(Listed) <= Cardinality(pending)
          /\ \A t \in pending : \/ trans[t].seq \in SeqsUnderWay
                                \/ Listed /\ trans[t].seq = req.seq
          /\ \A t, u \in pending : trans[t].seq = trans[u].seq => t = u
          /\ \A f \in Fds : at[f] = "send" => file[f].t \in pending /\ Mine(f).seq = req.seq

(***************************************************************************)
(* What is under way for a file that has been opened for reading, and what *)
(* has come.                                                               *)
(***************************************************************************)
Says(m, type, f) == m.type = type /\ m.ind = Path[f].ind

OwnOf(f) ==
    /\ file[f].t \in pending =>
          /\ \A k \in 1 .. Len(toBm) : toBm[k].seq = Mine(f).seq => Says(toBm[k], Asks(f), f)
          /\ \A k \in 1 .. Len(toLinux) : toLinux[k].seq = Mine(f).seq => Says(toLinux[k], Told(f), f)
    /\ cb.pc = "fill" /\ cb.t = file[f].t => Says(cb.msg, Told(f), f)
    /\ Mine(f).valid => /\ Mine(f).text.kind = Told(f) /\ Mine(f).text.ind = Path[f].ind
                        /\ ~ Mine(f).err
                        /\ InFinish(f) => cb.msg.type = Told(f)

OwnInv == \A f \in Fds : Reads(f) /\ Path[f].ind \in Idx => OwnOf(f)

DataInv == Window /\ Paired /\ OwnInv /\ OwnData

(***************************************************************************)
(* A step of one file leaves the other files and their structs alone.      *)
(***************************************************************************)
FileStep(f) == Begin(f) \/ Continue(f) \/ Interrupt(f)

LEMMA Shapes2 ==
    ASSUME TypeInv
    PROVE  /\ trans \in [Trans -> Struct] /\ at \in [Fds -> Stages] /\ file \in [Fds -> File]
           /\ out \in [Fds -> Results] /\ req \in LinkRequest
           /\ pending \subseteq Trans /\ unused \subseteq Trans /\ heap \subseteq Trans
           /\ toBm \in Seq(LinkRequest) /\ toLinux \in Seq(LinkResponse)
           /\ cb \in [pc : {"idle", "fill", "finish"}, t : Trans \cup {NoTrans}, msg : LinkResponse]
           /\ cb.pc # "idle" => cb.t \in Trans
           /\ \A f \in Fds : IsOpen(f) => file[f].t \in Trans
BY DEF TypeInv, TypeOK, MgmtTypeOK, LinkTypeOK, IsOpen

LEMMA OthersStay ==
    ASSUME TypeInv, NEW f \in Fds, FileStep(f)
    PROVE  /\ \A g \in Fds \ {f} : file'[g] = file[g] /\ at'[g] = at[g] /\ out'[g] = out[g]
           /\ cb' = cb /\ toLinux' = toLinux
<1> USE Shapes2
<1>1. CASE Begin(f)
  BY <1>1 DEF Begin, OpenToWrite, OpenToRead, Opened, Enter, StartRead, Write, Close, WriteBack, Released, fileVars
<1>2. CASE Fill(f) \/ Number(f) \/ Pend(f) \/ OpenSends(f) \/ CloseSends(f) \/ Sleep(f)
  BY <1>2 DEF Fill, FillRequest, Number, TakeSeq, Pend, AddPending, OpenSends, CloseSends, SendRequest,
              Sleep, fileVars, linkVars
<1>3. CASE RejectClose(f) \/ FinishRead(f) \/ FinishClose(f) \/ Interrupt(f)
  BY <1>3 DEF RejectClose, RejectRequest, FinishRead, FinishClose, Interrupt, InterruptRead, InterruptClose,
              Leave, Released
<1>. QED BY <1>1, <1>2, <1>3 DEF FileStep, Continue

\* The struct that a step changes is the file's own, or one that was nobody's.
LEMMA OwnStruct ==
    ASSUME TypeInv, NEW f \in Fds, FileStep(f)
    PROVE  \/ trans' = trans
           \/ \E t \in Trans : /\ (t \in unused \cup heap) \/ (IsOpen(f) /\ t = file[f].t)
                               /\ \A u \in Trans \ {t} : trans'[u] = trans[u]
<1> USE Shapes2
<1>1. CASE OpenToWrite(f)
  BY <1>1 DEF OpenToWrite, Alloc
<1>2. CASE \E mode \in Modes \ {"w"} : OpenToRead(f, mode)
  BY <1>2 DEF OpenToRead, Alloc
<1>3. CASE Write(f) \/ WriteBack(f) \/ Close(f)
  <2>1. IsOpen(f) /\ file[f].t \in Trans
    BY <1>3 DEF Write, WriteBack, Close, MayClose, IsOpen
  <2>. QED BY <1>3, <2>1 DEF Write, WriteBack, Close, Return
<1>4. CASE RejectClose(f) \/ FinishClose(f)
  <2>1. IsOpen(f) /\ file[f].t \in Trans
    BY <1>4 DEF RejectClose, FinishClose, IsOpen
  <2>. QED BY <1>4, <2>1 DEF RejectClose, FinishClose, Return
<1>5. CASE Pend(f)
  <2>1. IsOpen(f) /\ file[f].t \in Trans
    BY <1>5, StageOpen DEF Pend, AddPending, IsOpen
  <2>. QED BY <1>5, <2>1 DEF Pend, AddPending
<1>6. CASE \/ StartRead(f) \/ Fill(f) \/ Number(f) \/ OpenSends(f) \/ CloseSends(f) \/ Sleep(f)
           \/ FinishRead(f) \/ Interrupt(f)
  BY <1>6 DEF StartRead, Fill, FillRequest, Number, TakeSeq, OpenSends, CloseSends, SendRequest, Sleep, linkVars,
              FinishRead, Interrupt, InterruptRead, InterruptClose
<1>. QED BY <1>1, <1>2, <1>3, <1>4, <1>5, <1>6 DEF FileStep, Begin, Continue

LEMMA OtherStructs ==
    ASSUME Inv, NEW f \in Fds, FileStep(f)
    PROVE  /\ \A g \in Fds \ {f} : IsOpen(g) => trans'[file[g].t] = trans[file[g].t]
           /\ \A t \in pending : (t = file[f].t /\ IsOpen(f)) \/ trans'[t] = trans[t]
<1>1. \A g \in Fds \ {f} : IsOpen(g) =>
         /\ file[g].t \in Trans /\ file[g].t \notin unused \cup heap
         /\ IsOpen(f) => file[g].t # file[f].t
  BY Shapes2 DEF Inv, SafeInv, Places
<1>2. \A t \in pending : t \in Trans /\ t \notin unused \cup heap
  BY Shapes2 DEF Inv, SafeInv, Flight
<1>. QED BY <1>1, <1>2, OwnStruct DEF Inv

(***************************************************************************)
(* Errors.                                                                 *)
(***************************************************************************)
LEMMA ErrFile ==
    ASSUME Inv, ErrInv, NEW f \in Fds, FileStep(f)
    PROVE  ErrInv'
<1> USE Shapes2 DEF Inv
<1>1. ASSUME NEW g \in Fds \ {f}, Reads(g)' PROVE ErrorOf(g)'
  <2>1. file'[g] = file[g] /\ cb' = cb
    BY OthersStay
  <2>2. Reads(g) /\ IsOpen(g)
    BY <1>1, <2>1 DEF Reads, IsOpen
  <2>3. Mine(g)' = Mine(g)
    BY <2>1, <2>2, OtherStructs DEF Mine
  <2>. QED BY <2>1, <2>2, <2>3 DEF ErrInv, ErrorOf, InFinish
<1>2. ASSUME Reads(f)' PROVE ErrorOf(f)'
  <2>0. cb' = cb
    BY OthersStay
  <2>1. CASE OpenToWrite(f)
    BY <1>2, <2>1 DEF OpenToWrite, Opened, Reads
  <2>2. ASSUME NEW mode \in Modes \ {"w"}, OpenToRead(f, mode) PROVE ErrorOf(f)'
    <3>1. PICK t \in Trans : /\ trans' = [trans EXCEPT ![t] = [Zeroed EXCEPT !.rnw = TRUE, !.wq = TRUE]]
                             /\ Opened(f, "opening", mode, t)
      BY <2>2 DEF OpenToRead
    <3>2. file'[f].t = t /\ Mine(f)'.text.kind = "empty"
      BY <3>1, ZeroedType DEF Opened, Mine, Zeroed, NoText, Struct
    <3>. QED BY <3>2 DEF ErrorOf, IsError, ErrorTexts
  <2>3. CASE Write(f)
    <3>1. PICK text \in Inputs :
             trans' = [trans EXCEPT ![file[f].t] = [@ EXCEPT !.text = text, !.dirty = TRUE]]
      BY <2>3 DEF Write
    <3>2. text.kind \notin ErrorTexts
      BY InputsAssumption DEF UserText, JunkText, ErrorTexts
    <3>3. file' = file /\ file[f].t \in Trans
      BY <2>3 DEF Write, fileVars, IsOpen
    <3>4. Mine(f)'.text = text
      BY <3>1, <3>3 DEF Mine, Struct
    <3>. QED BY <3>2, <3>4 DEF ErrorOf, IsError
  <2>4. CASE Close(f) \/ RejectClose(f) \/ FinishClose(f) \/ InterruptClose(f)
    BY <1>2, <2>4 DEF Close, RejectClose, FinishClose, InterruptClose, Released, Closed, Reads
  <2>5. CASE WriteBack(f)
    BY <1>2, <2>5 DEF WriteBack, Reads, File
  <2>6. CASE FinishRead(f)
    BY <1>2, <2>6 DEF FinishRead, Reads, File
  <2>7. CASE Pend(f)
    <3>1. file' = file /\ trans' = [trans EXCEPT ![file[f].t].seq = req.seq] /\ file[f].t \in Trans
      BY <2>7, StageOpen DEF Pend, AddPending, fileVars
    <3>2. Mine(f)'.text = Mine(f).text /\ Mine(f)'.valid = Mine(f).valid /\ Mine(f)'.err = Mine(f).err
      BY <3>1 DEF Mine, Struct
    <3>. QED BY <1>2, <2>0, <3>1, <3>2 DEF ErrInv, ErrorOf, Reads, InFinish, IsError
  <2>8. CASE StartRead(f) \/ OpenSends(f) \/ InterruptRead(f)
    <3>0. /\ trans' = trans /\ file[f].op \in {"opening", "open", "reading"}
          /\ \E op \in {"open", "reading"} : file' = [file EXCEPT ![f].op = op]
      BY <2>8 DEF StartRead, OpenSends, SendRequest, InterruptRead
    <3>1. /\ trans' = trans /\ file'[f].t = file[f].t /\ Reads(f)
      BY <1>2, <3>0 DEF Reads, File
    <3>. QED BY <2>0, <3>1 DEF ErrInv, ErrorOf, InFinish, Mine
  <2>9. CASE Fill(f) \/ Number(f) \/ CloseSends(f) \/ Sleep(f)
    <3>1. trans' = trans /\ file' = file
      BY <2>9 DEF Fill, FillRequest, Number, TakeSeq, CloseSends, SendRequest, Sleep, linkVars, fileVars
    <3>. QED BY <1>2, <2>0, <3>1 DEF ErrInv, ErrorOf, InFinish, Mine, Reads
  <2>. QED BY <2>1, <2>2, <2>3, <2>4, <2>5, <2>6, <2>7, <2>8, <2>9
       DEF FileStep, Begin, Continue, Interrupt
<1>. QED BY <1>1, <1>2 DEF ErrInv

LEMMA FilledIs ==
    ASSUME NEW s \in Struct, NEW m \in LinkResponse
    PROVE  /\ Filled(s, m).valid /\ Filled(s, m).seq = s.seq /\ Filled(s, m).rnw = s.rnw
           /\ m.type \in ValueTexts => /\ Filled(s, m).text.kind = m.type
                                       /\ Filled(s, m).text.ind = m.ind
                                       /\ ~ Filled(s, m).err
           /\ m.type \in ErrorTexts => Filled(s, m).text.kind = m.type
           /\ m.type \notin ErrorTexts /\ IsError(Filled(s, m)) => IsError(s)
           /\ m.type \notin ErrorTexts /\ Filled(s, m).err => s.err
BY DEF Filled, Struct, IsError, ValueTexts, NumberTexts, ErrorTexts

LEMMA FinishedIs ==
    ASSUME NEW s \in Struct, NEW m \in LinkResponse
    PROVE  /\ Finished(s, m).valid = s.valid /\ Finished(s, m).text = s.text
           /\ Finished(s, m).seq = s.seq /\ Finished(s, m).rnw = s.rnw
           /\ m.type \in ErrorTexts => Finished(s, m).err
           /\ m.type \notin ErrorTexts /\ Finished(s, m).err => s.err
BY DEF Finished, Struct, ErrorTexts

LEMMA ErrCallback ==
    ASSUME Inv, ErrInv, Callback
    PROVE  ErrInv'
<1> USE Shapes2 DEF Inv
<1>1. file' = file
  BY DEF Callback, Wake, fileVars
<1> SUFFICES ASSUME NEW f \in Fds, Reads(f) PROVE ErrorOf(f)'
  BY <1>1 DEF ErrInv, Reads
<1>2. ErrorOf(f) /\ IsOpen(f) /\ file[f].t \in Trans /\ Mine(f) \in Struct
  BY DEF ErrInv, Reads, IsOpen, Mine
<1>3. CASE CbMatch
  <2>1. trans' = trans /\ cb'.pc = "fill" /\ cb.pc = "idle"
    BY <1>3 DEF CbMatch
  <2>. QED BY <1>1, <1>2, <2>1 DEF ErrorOf, Mine, InFinish
<1>4. CASE CbDrop
  BY <1>1, <1>2, <1>4 DEF CbDrop, ErrorOf, Mine, InFinish
<1>5. CASE CbFill
  <2>1. /\ cb.pc = "fill" /\ cb.t \in Trans /\ cb.msg \in LinkResponse
        /\ trans' = [trans EXCEPT ![cb.t] = Filled(trans[cb.t], cb.msg)]
        /\ cb'.pc = "finish" /\ cb'.t = cb.t /\ cb'.msg = cb.msg
    BY <1>5 DEF CbFill
  <2>2. CASE cb.t = file[f].t
    <3>1. Mine(f)' = Filled(Mine(f), cb.msg) /\ InFinish(f)' /\ ~ Mine(f).valid
      BY <1>1, <1>2, <2>1, <2>2 DEF Mine, InFinish, SafeInv, Flight
    <3>2. ~ IsError(Mine(f))
      BY <1>2, <3>1 DEF ErrorOf
    <3>3. /\ Filled(Mine(f), cb.msg).valid
          /\ cb.msg.type \notin ErrorTexts /\ IsError(Filled(Mine(f), cb.msg)) => IsError(Mine(f))
      BY <1>2, <2>1, FilledIs
    <3>. QED BY <2>1, <3>1, <3>2, <3>3 DEF ErrorOf
  <2>3. CASE cb.t # file[f].t
    BY <1>1, <1>2, <2>1, <2>3 DEF ErrorOf, Mine, InFinish
  <2>. QED BY <2>2, <2>3
<1>6. CASE Wake
  <2>1. /\ cb.pc = "finish" /\ cb.t \in Trans /\ cb.msg \in LinkResponse
        /\ trans' = [trans EXCEPT ![cb.t] = Finished(trans[cb.t], cb.msg)]
        /\ cb'.pc = "idle"
    BY <1>6 DEF Wake, CbFinish, CbIdle
  <2>2. CASE cb.t = file[f].t
    <3>1. Mine(f)' = Finished(Mine(f), cb.msg) /\ InFinish(f) /\ ~ InFinish(f)'
      BY <1>1, <1>2, <2>1, <2>2 DEF Mine, InFinish
    <3>2. /\ Finished(Mine(f), cb.msg).valid = Mine(f).valid
          /\ Finished(Mine(f), cb.msg).text = Mine(f).text
          /\ cb.msg.type \in ErrorTexts => Finished(Mine(f), cb.msg).err
      BY <1>2, <2>1, FinishedIs
    <3>. QED BY <1>2, <3>1, <3>2 DEF ErrorOf, IsError
  <2>3. CASE cb.t # file[f].t
    BY <1>1, <1>2, <2>1, <2>3 DEF ErrorOf, Mine, InFinish
  <2>. QED BY <2>2, <2>3
<1>. QED BY <1>3, <1>4, <1>5, <1>6 DEF Callback

\* Only the end of a read hands out the text of a struct.
LEMMA HandsOut ==
    ASSUME Inv, [Next]_vars, NEW f \in Fds, out'[f] # out[f], out'[f].kind \in ErrorTexts
    PROVE  FinishRead(f)
<1> USE Shapes2 DEF Inv
<1>1. PICK g \in Fds : FileStep(g)
  BY DEF Next, Linux, Firmware, Application, Callback, Wake, vars, mgmtVars, fileVars, FileStep
<1>2. g = f
  BY <1>1, OthersStay
<1>3. CASE OpenToWrite(f) \/ \E mode \in Modes \ {"w"} : OpenToRead(f, mode)
  BY <1>3 DEF OpenToWrite, OpenToRead, Opened, Result, ErrorTexts
<1>4. ASSUME NEW k \in {"done", "failed"}, Released(f, k) PROVE FALSE
  BY <1>4 DEF Released, Result, ErrorTexts
<1>5. CASE Close(f) \/ RejectClose(f) \/ FinishClose(f) \/ InterruptClose(f)
  BY <1>4, <1>5 DEF Close, RejectClose, FinishClose, InterruptClose
<1>6. CASE \/ StartRead(f) \/ Write(f) \/ WriteBack(f) \/ Fill(f) \/ Number(f) \/ Pend(f) \/ OpenSends(f)
           \/ CloseSends(f) \/ Sleep(f) \/ InterruptRead(f)
  BY <1>6 DEF StartRead, Write, WriteBack, Fill, Number, Pend, OpenSends, CloseSends, Sleep, InterruptRead, fileVars
<1>. QED BY <1>1, <1>2, <1>3, <1>5, <1>6 DEF FileStep, Begin, Continue, Interrupt

LEMMA ErrStep ==
    ASSUME Inv, ErrInv, [Next]_vars
    PROVE  ErrInv'
<1>1. CASE UNCHANGED <<trans, cb, file>>
  BY <1>1 DEF ErrInv, ErrorOf, Reads, Mine, InFinish
<1>2. (\E f \in Fds : FileStep(f)) \/ Callback \/ UNCHANGED <<trans, cb, file>>
  BY DEF Next, Linux, Firmware, Application, vars, mgmtVars, linkVars, fileVars, FileStep
<1>. QED BY <1>1, <1>2, ErrFile, ErrCallback

\* Whatever the preemption, the signals and the modes of the files: the text of an
\* error response reaches a reader as data only while cfg_mgmt_rpmsg_cb is between
\* its stores to valid and to err of that very struct.
THEOREM ErrorWindowHolds == ASSUME Patient PROVE Spec => ErrorWindow
<1>1. Init => ErrInv
  BY DEF Init, MgmtInit, Closed, ErrInv, Reads
<1>2. Inv /\ ErrInv /\ [Next]_vars => ErrInv'
  BY ErrStep
<1>3. Spec => [](Inv /\ ErrInv)
  BY <1>1, <1>2, InitSafe, InvHolds, PTL DEF Spec
<1>4. Inv /\ ErrInv /\ [Next]_vars =>
         [\A f \in Fds : out'[f].kind \in ErrorTexts /\ out'[f] # out[f]
                           => cb.pc = "finish" /\ cb.t = file[f].t]_vars
  <2> SUFFICES ASSUME Inv, ErrInv, [Next]_vars, NEW f \in Fds,
                      out'[f].kind \in ErrorTexts, out'[f] # out[f]
               PROVE  InFinish(f)
    BY DEF InFinish
  <2>1. FinishRead(f)
    BY HandsOut
  <2>2. file[f].op = "reading" /\ Reads(f)
    BY <2>1 DEF FinishRead, Reads, Inv, SafeInv, Ready
  <2>3. ~ Mine(f).err /\ IsError(Mine(f))
    BY <2>1, Shapes2 DEF FinishRead, IsError, Inv, Result, ErrorTexts
  <2>. QED BY <2>2, <2>3 DEF ErrInv, ErrorOf
<1>. QED BY <1>3, <1>4, PTL DEF Spec, ErrorWindow

(***************************************************************************)
(* The static request of access_var, without preemption.                   *)
(***************************************************************************)
OneWay == Patient /\ ~ Preempt /\ "rw" \notin Modes

LEMMA Entering ==
    ASSUME ~ Preempt, Inv, NEW f \in Fds, FileStep(f)
    PROVE  \/ InAccess(f)' => InAccess(f)
           \/ (\A g \in Fds : ~ InAccess(g)) /\ at'[f] = "fill"
<1> USE Shapes2 DEF Inv
<1>1. CASE WriteBack(f) \/ \E mode \in Modes \ {"w"} : OpenToRead(f, mode)
  BY <1>1 DEF WriteBack, OpenToRead, Enter, MayEnter
<1>2. CASE OpenToWrite(f) \/ StartRead(f) \/ Write(f) \/ Close(f)
  BY <1>2 DEF OpenToWrite, StartRead, Write, Close, InAccess
<1>3. CASE Fill(f) \/ Number(f) \/ Pend(f) \/ OpenSends(f) \/ CloseSends(f) \/ Sleep(f)
  BY <1>3 DEF Fill, FillRequest, Number, TakeSeq, Pend, AddPending, OpenSends, CloseSends, SendRequest, Sleep,
              linkVars, InAccess
<1>4. CASE RejectClose(f) \/ FinishRead(f) \/ FinishClose(f) \/ Interrupt(f)
  BY <1>4 DEF RejectClose, RejectRequest, FinishRead, FinishClose, Interrupt, InterruptRead, InterruptClose,
              Leave, InAccess
<1>. QED BY <1>1, <1>2, <1>3, <1>4 DEF FileStep, Begin, Continue

LEMMA LoneFile ==
    ASSUME ~ Preempt, Inv, Lone, NEW f \in Fds, FileStep(f)
    PROVE  Lone'
<1>1. \A g \in Fds \ {f} : InAccess(g)' <=> InAccess(g)
  BY OthersStay DEF InAccess, Inv
<1>. QED BY <1>1, Entering DEF Lone

LEMMA DirectionFile ==
    ASSUME "rw" \notin Modes, Inv, Direction, NEW f \in Fds, FileStep(f)
    PROVE  Direction'
<1> USE Shapes2 DEF Inv
<1> DEFINE D(g) == /\ IsOpen(g) => file[g].mode \in {"r", "w"} /\ (Mine(g).rnw <=> file[g].mode = "r")
                   /\ file[g].op = "opening" => file[g].mode = "r"
                   /\ file[g].op = "closing" => file[g].mode = "w" /\ Path[g].acc = "VAL"
<1>0. \A g \in Fds : D(g)
  BY DEF Direction
<1>1. ASSUME NEW g \in Fds \ {f} PROVE D(g)'
  <2>1. file'[g] = file[g] /\ (IsOpen(g)' <=> IsOpen(g))
    BY OthersStay DEF IsOpen
  <2>2. IsOpen(g) => Mine(g)' = Mine(g)
    BY <2>1, OtherStructs DEF Mine
  <2>. QED BY <1>0, <2>1, <2>2
<1>2. D(f)'
  <2>1. CASE OpenToWrite(f)
    <3>1. PICK t \in Trans : /\ trans' = [trans EXCEPT ![t] = [Zeroed EXCEPT !.valid = TRUE]]
                             /\ Opened(f, "open", "w", t)
      BY <2>1 DEF OpenToWrite
    <3>2. file'[f] = [op |-> "open", mode |-> "w", t |-> t, read |-> FALSE] /\ ~ trans'[t].rnw
      BY <3>1 DEF Opened, Zeroed
    <3>. QED BY <3>2 DEF Mine
  <2>2. ASSUME NEW mode \in Modes \ {"w"}, OpenToRead(f, mode) PROVE D(f)'
    <3>1. PICK t \in Trans : /\ trans' = [trans EXCEPT ![t] = [Zeroed EXCEPT !.rnw = TRUE, !.wq = TRUE]]
                             /\ Opened(f, "opening", mode, t)
      BY <2>2 DEF OpenToRead
    <3>2. mode = "r"
      BY ModesAssumption
    <3>3. file'[f] = [op |-> "opening", mode |-> "r", t |-> t, read |-> FALSE] /\ trans'[t].rnw
      BY <3>1, <3>2 DEF Opened, Zeroed
    <3>. QED BY <3>3 DEF Mine
  <2>3. CASE Write(f)
    <3>1. file' = file /\ IsOpen(f) /\ Mine(f)'.rnw = Mine(f).rnw
      BY <2>3 DEF Write, fileVars, IsOpen, Mine, Struct
    <3>. QED BY <1>0, <3>1 DEF IsOpen
  <2>4. CASE Close(f) \/ RejectClose(f) \/ FinishClose(f) \/ InterruptClose(f)
    <3>1. file'[f] = Closed
      BY <2>4 DEF Close, RejectClose, FinishClose, InterruptClose, Released
    <3>. QED BY <3>1 DEF Closed, IsOpen
  <2>5. CASE WriteBack(f)
    <3>1. /\ file' = [file EXCEPT ![f].op = "closing"] /\ IsOpen(f) /\ file[f].mode # "r"
          /\ Path[f].acc = "VAL" /\ trans' = [trans EXCEPT ![file[f].t] = Prepared(@)]
      BY <2>5 DEF WriteBack, MayClose, ToWriteBack, IsOpen
    <3>2. file'[f].mode = file[f].mode /\ file'[f].op = "closing" /\ Mine(f)'.rnw = Mine(f).rnw
      BY <3>1 DEF File, Mine, Prepared, Struct
    <3>. QED BY <1>0, <3>1, <3>2 DEF IsOpen
  <2>6. CASE Pend(f)
    <3>1. file' = file /\ trans' = [trans EXCEPT ![file[f].t].seq = req.seq] /\ file[f].t \in Trans
      BY <2>6, StageOpen DEF Pend, AddPending, fileVars
    <3>2. Mine(f)'.rnw = Mine(f).rnw
      BY <3>1 DEF Mine, Struct
    <3>. QED BY <1>0, <3>1, <3>2 DEF IsOpen
  <2>7. CASE StartRead(f) \/ OpenSends(f) \/ InterruptRead(f) \/ FinishRead(f)
    <3>1. /\ trans' = trans /\ IsOpen(f) /\ file'[f].t = file[f].t /\ file'[f].mode = file[f].mode
          /\ file'[f].op \in {"open", "reading"}
      BY <2>7 DEF StartRead, OpenSends, SendRequest, InterruptRead, FinishRead, File, IsOpen
    <3>. QED BY <1>0, <3>1 DEF Mine
  <2>8. CASE Fill(f) \/ Number(f) \/ CloseSends(f) \/ Sleep(f)
    <3>1. trans' = trans /\ file' = file
      BY <2>8 DEF Fill, FillRequest, Number, TakeSeq, CloseSends, SendRequest, Sleep, linkVars, fileVars
    <3>. QED BY <1>0, <3>1 DEF IsOpen, Mine
  <2>. QED BY <2>1, <2>2, <2>3, <2>4, <2>5, <2>6, <2>7, <2>8
       DEF FileStep, Begin, Continue, Interrupt
<1>. QED BY <1>1, <1>2 DEF Direction

LEMMA ReqFile ==
    ASSUME Inv, Lone, Direction, ReqInv, NEW f \in Fds, FileStep(f)
    PROVE  ReqInv'
<1> USE Shapes2 DEF Inv
<1>1. CASE Fill(f)
  <2>1. /\ at[f] = "fill" /\ at' = [at EXCEPT ![f] = "seq"] /\ file' = file
        /\ req'.type = Wanted(f) /\ req'.ind = Path[f].ind
    BY <1>1 DEF Fill, FillRequest, fileVars, LinkRequest
  <2>2. IsOpen(f)
    BY <2>1, StageOpen DEF IsOpen
  <2>3. Wanted(f) = Asks(f)
    BY <2>2 DEF Direction, Wanted, Asks
  <2>4. \A g \in Fds \ {f} : ~ InAccess(g)
    BY <2>1 DEF Lone, InAccess
  <2>. QED BY <2>1, <2>3, <2>4 DEF ReqInv, Asking, Asks, InAccess
<1>2. CASE RejectClose(f)
  <2>1. at[f] = "fill" /\ at' = [at EXCEPT ![f] = "out"]
    BY <1>2 DEF RejectClose, RejectRequest
  <2>2. \A g \in Fds \ {f} : ~ InAccess(g)
    BY <2>1 DEF Lone, InAccess
  <2>. QED BY <2>1, <2>2 DEF ReqInv, InAccess
<1>3. CASE Number(f)
  <2>1. /\ at[f] = "seq" /\ at' = [at EXCEPT ![f] = "pend"] /\ file' = file
        /\ req'.type = req.type /\ req'.ind = req.ind
    BY <1>3 DEF Number, TakeSeq, fileVars, LinkRequest
  <2>. QED BY <2>1 DEF ReqInv, Asking, Asks
<1>4. CASE Pend(f) \/ CloseSends(f) \/ Sleep(f)
  <2>1. /\ req' = req /\ file' = file
        /\ at' = at \/ (at[f] \in {"pend", "send"} /\ \E s \in {"send", "wait"} : at' = [at EXCEPT ![f] = s])
    BY <1>4 DEF Pend, AddPending, CloseSends, SendRequest, Sleep, linkVars, fileVars
  <2>. QED BY <2>1 DEF ReqInv, Asking, Asks
<1>5. CASE ~ (Fill(f) \/ RejectClose(f) \/ Number(f) \/ Pend(f) \/ CloseSends(f) \/ Sleep(f))
  <2>1. req' = req /\ at'[f] \notin {"seq", "pend", "send"}
    <3>1. CASE Begin(f)
      <4>1. at[f] \in {"out", "wait"} \/ file[f].op \in {"opening", "reading", "closing"}
        BY DEF SafeInv, OpStage, File, Ops
      <4>. QED BY <3>1, <4>1 DEF Begin, OpenToWrite, OpenToRead, Enter, StartRead, Write, Close, MayClose, WriteBack
    <3>2. CASE Continue(f) \/ Interrupt(f)
      BY <1>5, <3>2 DEF Continue, OpenSends, SendRequest, FinishRead, FinishClose, Interrupt, InterruptRead,
                        InterruptClose, Leave
    <3>. QED BY <3>1, <3>2 DEF FileStep
  <2>2. \A g \in Fds \ {f} : at'[g] = at[g] /\ file'[g] = file[g]
    BY OthersStay
  <2>. QED BY <2>1, <2>2 DEF ReqInv, Asking, Asks
<1>. QED BY <1>1, <1>2, <1>3, <1>4, <1>5

LEMMA CallbackRnw ==
    ASSUME TypeInv, Callback
    PROVE  /\ UNCHANGED <<file, at, req, out, nextSeq, toBm, unused, heap>>
           /\ \A t \in Trans : trans'[t].rnw = trans[t].rnw /\ trans'[t].seq = trans[t].seq
<1> USE Shapes2
<1>1. CASE CbMatch /\ UNCHANGED fileVars
  BY <1>1 DEF CbMatch, fileVars
<1>2. CASE CbDrop /\ UNCHANGED fileVars
  BY <1>2 DEF CbDrop, fileVars
<1>3. CASE CbFill /\ UNCHANGED fileVars
  <2>1. /\ cb.t \in Trans /\ cb.msg \in LinkResponse
        /\ trans' = [trans EXCEPT ![cb.t] = Filled(trans[cb.t], cb.msg)]
        /\ UNCHANGED <<file, at, req, out, nextSeq, toBm, unused, heap>>
    BY <1>3 DEF CbFill, fileVars
  <2>. QED BY <2>1, FilledIs
<1>4. CASE Wake
  <2>1. /\ cb.t \in Trans /\ cb.msg \in LinkResponse
        /\ trans' = [trans EXCEPT ![cb.t] = Finished(trans[cb.t], cb.msg)]
        /\ UNCHANGED <<file, at, req, out, nextSeq, toBm, unused, heap>>
    BY <1>4 DEF Wake, CbFinish
  <2>. QED BY <2>1, FinishedIs
<1>. QED BY <1>1, <1>2, <1>3, <1>4 DEF Callback

WayInv == Lone /\ Direction /\ ReqInv

LEMMA WayStep ==
    ASSUME OneWay, Inv, WayInv, [Next]_vars
    PROVE  WayInv'
<1>1. CASE \E f \in Fds : FileStep(f)
  BY <1>1, LoneFile, DirectionFile, ReqFile DEF OneWay, WayInv
<1>2. CASE Callback
  <2>1. /\ UNCHANGED <<file, at, req>>
        /\ \A f \in Fds : IsOpen(f) => Mine(f)'.rnw = Mine(f).rnw
    BY <1>2, CallbackRnw, Shapes2 DEF Mine, Inv
  <2>. QED BY <2>1 DEF WayInv, Lone, InAccess, Direction, IsOpen, ReqInv, Asking, Asks
<1>3. CASE UNCHANGED <<trans, file, at, req>>
  BY <1>3 DEF WayInv, Lone, InAccess, Direction, IsOpen, Mine, ReqInv, Asking, Asks
<1>4. (\E f \in Fds : FileStep(f)) \/ Callback \/ UNCHANGED <<trans, file, at, req>>
  BY DEF Next, Linux, Firmware, Application, vars, mgmtVars, linkVars, fileVars, FileStep
<1>. QED BY <1>1, <1>2, <1>3, <1>4

LEMMA WayInit == Init => WayInv
BY DEF Init, MgmtInit, LinkInit, Closed, WayInv, Lone, InAccess, Direction, IsOpen, ReqInv

LEMMA WayHolds == ASSUME OneWay PROVE Spec => [](Inv /\ WayInv)
<1>1. Patient
  BY DEF OneWay
<1>2. Inv /\ WayInv /\ [Next]_vars => WayInv'
  BY WayStep
<1>. QED BY <1>1, <1>2, WayInit, InvHolds, PTL DEF Spec



(***************************************************************************)
(* Sequence numbers.  There are more of them than transaction structs, so  *)
(* a number is not given out again while its message is under way.         *)
(***************************************************************************)
FewStructs == IsFiniteSet(Trans) /\ Cardinality(Trans) <= SeqMod

LEMMA NextNumber ==
    ASSUME NEW n \in SeqNrs
    PROVE  (n + 1) % SeqMod = IF n + 1 = SeqMod THEN 0 ELSE n + 1
BY SeqAssumption, SMTT(30) DEF SeqNrs

LEMMA Ages ==
    ASSUME NEW n \in SeqNrs, NEW s \in SeqNrs, NEW m, m = IF n + 1 = SeqMod THEN 0 ELSE n + 1
    PROVE  /\ m \in SeqNrs
           /\ Age(m, n) = 1
           /\ Age(n, s) \in 1 .. SeqMod
           /\ Age(n, s) < SeqMod => Age(m, s) = Age(n, s) + 1
BY SeqAssumption DEF SeqNrs, Age

\* The steps of a file that touch neither the numbers nor the lists and channels.
LEMMA QuietFile ==
    ASSUME Inv, Patient, NEW f \in Fds, FileStep(f),
           ~ (Number(f) \/ Pend(f) \/ OpenSends(f) \/ CloseSends(f))
    PROVE  /\ UNCHANGED <<nextSeq, toBm, toLinux, pending, cb>> /\ req'.seq = req.seq
           /\ \A g \in Fds : \/ at'[g] = at[g] /\ (at[g] = "send" => file'[g].t = file[g].t)
                             \/ at[g] \notin {"pend", "send"} /\ at'[g] \notin {"pend", "send"}
           /\ \A t \in pending : trans'[t].seq = trans[t].seq
<1> USE Shapes2 DEF Inv
<1>1. UNCHANGED <<nextSeq, toBm, toLinux, pending, cb>> /\ req'.seq = req.seq
  <2>1. CASE Begin(f)
    BY <2>1 DEF Begin, OpenToWrite, OpenToRead, StartRead, Write, Close, WriteBack
  <2>2. CASE Fill(f) \/ Sleep(f)
    BY <2>2 DEF Fill, FillRequest, Sleep, linkVars, LinkRequest
  <2>3. CASE RejectClose(f)
    BY <2>3 DEF RejectClose, RejectRequest, LinkRequest
  <2>4. CASE FinishRead(f) \/ FinishClose(f) \/ Interrupt(f)
    BY <2>4 DEF FinishRead, FinishClose, Interrupt, InterruptRead, InterruptClose
  <2>. QED BY <2>1, <2>2, <2>3, <2>4 DEF FileStep, Continue
<1>2. \/ at'[f] = at[f] /\ (at[f] = "send" => file'[f].t = file[f].t)
      \/ at[f] \notin {"pend", "send"} /\ at'[f] \notin {"pend", "send"}
  <2>1. CASE Begin(f)
    <3>1. at[f] = "out"
      BY <2>1 DEF SafeInv, OpStage, Begin, OpenToWrite, OpenToRead, StartRead, Write, Close, MayClose, WriteBack
    <3>. QED BY <2>1, <3>1 DEF Begin, OpenToWrite, OpenToRead, Enter, StartRead, Write, Close, WriteBack
  <2>2. CASE Fill(f) \/ Sleep(f)
    BY <2>2 DEF Fill, FillRequest, Sleep, linkVars, fileVars
  <2>3. CASE RejectClose(f)
    BY <2>3 DEF RejectClose, RejectRequest
  <2>4. CASE FinishRead(f) \/ FinishClose(f) \/ Interrupt(f)
    BY <2>4 DEF FinishRead, FinishClose, Interrupt, InterruptRead, InterruptClose, Leave, Waiting
  <2>. QED BY <2>1, <2>2, <2>3, <2>4 DEF FileStep, Continue
<1>3. \A g \in Fds \ {f} : at'[g] = at[g] /\ file'[g] = file[g]
  BY OthersStay
<1>4. ASSUME NEW t \in pending PROVE trans'[t].seq = trans[t].seq
  <2>1. (t = file[f].t /\ IsOpen(f)) \/ trans'[t] = trans[t]
    BY OtherStructs
  <2> SUFFICES ASSUME t = file[f].t, IsOpen(f) PROVE trans'[t].seq = trans[t].seq
    BY <2>1
  <2>2. t \in Trans /\ t \notin unused \cup heap /\ Awaiting(f) /\ ~ Mine(f).valid
    BY DEF SafeInv, Flight
  <2>3. ~ Close(f) /\ ~ RejectClose(f) /\ ~ FinishClose(f)
    BY <2>2 DEF Awaiting, Close, MayClose, RejectClose, RejectRequest, FinishClose
  <2>4. ~ Begin(f) \/ Write(f) \/ StartRead(f) \/ WriteBack(f)
    BY <2>3 DEF Begin, IsOpen, OpenToWrite, OpenToRead
  <2>5. CASE Write(f) \/ WriteBack(f)
    <3>1. CASE Write(f)
      <4>1. \E text \in Inputs : trans' = [trans EXCEPT ![t] = [@ EXCEPT !.text = text, !.dirty = TRUE]]
        BY <3>1 DEF Write
      <4>. QED BY <2>2, <4>1 DEF Struct
    <3>2. CASE WriteBack(f)
      BY <2>2, <3>2 DEF WriteBack, Prepared, Struct
    <3>. QED BY <2>5, <3>1, <3>2
  <2>6. CASE ~ (Write(f) \/ WriteBack(f))
    <3>1. trans' = trans
      BY <2>3, <2>4, <2>6 DEF FileStep, StartRead, Continue, Fill, FillRequest, Sleep, linkVars, FinishRead, Interrupt,
                              InterruptRead, InterruptClose
    <3>. QED BY <3>1
  <2>. QED BY <2>5, <2>6
<1>. QED BY <1>1, <1>2, <1>3, <1>4


\* Its messages being where they were, a quiet step leaves the numbers in order.
LEMMA QuietSeq ==
    ASSUME Window, Paired, UNCHANGED <<nextSeq, toBm, toLinux, pending>>, req'.seq = req.seq,
           \A g \in Fds : \/ at'[g] = at[g] /\ (at[g] = "send" => file'[g].t = file[g].t)
                          \/ at[g] \notin {"pend", "send"} /\ at'[g] \notin {"pend", "send"},
           \A t \in pending : trans'[t].seq = trans[t].seq
    PROVE  Window' /\ Paired'
<1>1. (Numbered' <=> Numbered) /\ (Listed' <=> Listed)
  BY DEF Numbered, Listed
<1>2. One(Numbered)' = One(Numbered) /\ One(Listed)' = One(Listed)
  BY <1>1 DEF One
<1>3. Window'
  BY <1>1, <1>2 DEF Window, Aged
<1>4. SeqsUnderWay' = SeqsUnderWay
  BY DEF SeqsUnderWay
<1>. QED BY <1>1, <1>2, <1>3, <1>4 DEF Paired, Mine

LEMMA NumberSeq ==
    ASSUME FewStructs, Inv, Lone, Window, Paired, NEW f \in Fds, Number(f)
    PROVE  Window' /\ Paired'
<1> USE Shapes2 DEF Inv
<1>1. /\ at[f] = "seq" /\ at' = [at EXCEPT ![f] = "pend"] /\ file' = file
      /\ req'.seq = nextSeq /\ nextSeq' = (nextSeq + 1) % SeqMod
      /\ UNCHANGED <<trans, pending, toBm, toLinux>>
  BY DEF Number, TakeSeq, fileVars, LinkRequest
<1>2. \A g \in Fds \ {f} : at[g] \notin {"pend", "send"}
  BY <1>1 DEF Lone, InAccess
<1>3. ~ Numbered /\ ~ Listed /\ Numbered' /\ ~ Listed'
  BY <1>1, <1>2 DEF Numbered, Listed
<1>4. /\ One(Numbered) = 0 /\ One(Listed) = 0 /\ One(Numbered)' = 1 /\ One(Listed)' = 0
  BY <1>3 DEF One
<1>5. IsOpen(f) /\ file[f].t \in Trans /\ file[f].t \notin pending
  BY <1>1, StageOpen DEF SafeInv, Flight, Awaiting, IsOpen, OpStage
<1>6. Len(toBm) \in Nat /\ Len(toLinux) \in Nat /\ SeqMod \in Nat
  BY SeqAssumption
<1>7. Len(toBm) + Len(toLinux) < SeqMod
  <2>1. /\ Cardinality(pending) \in Nat /\ Cardinality(Trans) \in Nat
        /\ Cardinality(pending) <= Cardinality(Trans)
        /\ Cardinality(pending) = Cardinality(Trans) => pending = Trans
    BY FS_Subset, FS_CardinalityType DEF FewStructs
  <2>2. Cardinality(pending) < SeqMod
    BY <1>5, <1>6, <2>1 DEF FewStructs
  <2>3. Len(toBm) + Len(toLinux) + 0 <= Cardinality(pending)
    BY <1>4 DEF Paired
  <2>. QED BY <1>6, <2>1, <2>2, <2>3
<1>8. nextSeq \in SeqNrs /\ nextSeq' = IF nextSeq + 1 = SeqMod THEN 0 ELSE nextSeq + 1
  BY <1>1, NextNumber DEF Window
<1>9. ASSUME NEW s, NEW age \in Nat, Aged(s, age), age < SeqMod
      PROVE  s \in SeqNrs /\ Age(nextSeq', s) = age + 1
  BY <1>8, <1>9, Ages DEF Aged
<1>10. ASSUME NEW k \in 1 .. Len(toBm)
       PROVE  toBm[k].seq \in SeqNrs /\ Age(nextSeq', toBm[k].seq) = Len(toBm) - k + 1 + 1
  <2>1. Aged(toBm[k].seq, Len(toBm) - k + 1)
    BY <1>4, <1>6 DEF Window
  <2>2. Len(toBm) - k + 1 \in Nat /\ Len(toBm) - k + 1 < SeqMod
    BY <1>6, <1>7
  <2>. QED BY <1>9, <2>1, <2>2
<1>11. ASSUME NEW k \in 1 .. Len(toLinux)
       PROVE  /\ toLinux[k].seq \in SeqNrs
              /\ Age(nextSeq', toLinux[k].seq) = Len(toLinux) - k + 1 + Len(toBm) + 1
  <2>1. Aged(toLinux[k].seq, Len(toLinux) - k + 1 + Len(toBm))
    BY <1>4, <1>6 DEF Window
  <2>2. Len(toLinux) - k + 1 + Len(toBm) \in Nat /\ Len(toLinux) - k + 1 + Len(toBm) < SeqMod
    BY <1>6, <1>7
  <2>. QED BY <1>9, <2>1, <2>2
<1>12. nextSeq' \in SeqNrs /\ Age(nextSeq', req'.seq) = 1
  BY <1>1, <1>8, Ages
<1>13. Window'
  BY <1>1, <1>4, <1>8, <1>10, <1>11, <1>12 DEF Window, Aged
<1>14. Paired'
  <2>1. SeqsUnderWay' = SeqsUnderWay
    BY <1>1 DEF SeqsUnderWay
  <2>. QED BY <1>1, <1>2, <1>3, <1>4, <2>1 DEF Paired, Mine
<1>. QED BY <1>13, <1>14

\* A number that has just been given out is nobody else's.
LEMMA FreshSeq ==
    ASSUME Inv, Window, Paired, Numbered
    PROVE  /\ req.seq \notin SeqsUnderWay
           /\ ~ Listed => \A t \in pending : trans[t].seq # req.seq
<1> USE Shapes2 DEF Inv
<1>1. Len(toBm) \in Nat /\ Len(toLinux) \in Nat /\ One(Numbered) = 1 /\ Age(nextSeq, req.seq) = 1
  BY DEF One, Window, Aged
<1>2. ASSUME NEW k \in 1 .. Len(toBm) PROVE toBm[k].seq # req.seq
  <2>1. Age(nextSeq, toBm[k].seq) = Len(toBm) - k + 1 + 1
    BY <1>1 DEF Window, Aged
  <2>. QED BY <1>1, <2>1
<1>3. ASSUME NEW k \in 1 .. Len(toLinux) PROVE toLinux[k].seq # req.seq
  <2>1. Age(nextSeq, toLinux[k].seq) = Len(toLinux) - k + 1 + Len(toBm) + 1
    BY <1>1 DEF Window, Aged
  <2>. QED BY <1>1, <2>1
<1>4. req.seq \notin SeqsUnderWay
  BY <1>2, <1>3 DEF SeqsUnderWay
<1>. QED BY <1>4 DEF Paired

LEMMA PendSeq ==
    ASSUME FewStructs, Inv, Lone, Window, Paired, NEW f \in Fds, Pend(f)
    PROVE  Window' /\ Paired'
<1> USE Shapes2 DEF Inv
<1>1. /\ at[f] = "pend" /\ at' = [at EXCEPT ![f] = "send"] /\ file' = file
      /\ trans' = [trans EXCEPT ![file[f].t].seq = req.seq] /\ pending' = pending \cup {file[f].t}
      /\ UNCHANGED <<nextSeq, req, toBm, toLinux>>
  BY DEF Pend, AddPending, fileVars
<1>2. \A g \in Fds \ {f} : at[g] \notin {"pend", "send"}
  BY <1>1 DEF Lone, InAccess
<1>3. Numbered /\ ~ Listed /\ Numbered' /\ Listed'
  BY <1>1, <1>2 DEF Numbered, Listed
<1>4. One(Numbered)' = One(Numbered) /\ One(Listed) = 0 /\ One(Listed)' = 1
  BY <1>3 DEF One
<1>5. IsOpen(f) /\ file[f].t \in Trans /\ file[f].t \notin pending
  BY <1>1, StageOpen DEF SafeInv, Flight, Awaiting, IsOpen, OpStage
<1>6. Window'
  BY <1>1, <1>3, <1>4 DEF Window, Aged
<1>7. Cardinality(pending) \in Nat /\ Cardinality(pending') = Cardinality(pending) + 1
  <2>1. IsFiniteSet(pending)
    BY FS_Subset DEF FewStructs
  <2>. QED BY <1>1, <1>5, <2>1, FS_AddElement, FS_CardinalityType
<1>8. Len(toBm)' + Len(toLinux)' + One(Listed)' <= Cardinality(pending')
  <2>1. Len(toBm) \in Nat /\ Len(toLinux) \in Nat /\ Len(toBm) + Len(toLinux) + 0 <= Cardinality(pending)
    BY <1>4 DEF Paired
  <2>. QED BY <1>1, <1>4, <1>7, <2>1
<1>9. trans'[file[f].t].seq = req.seq /\ \A t \in pending : trans'[t].seq = trans[t].seq
  BY <1>1, <1>5 DEF Struct
<1>10. \A t \in pending : trans[t].seq # req.seq
  BY <1>3, FreshSeq
<1>11. SeqsUnderWay' = SeqsUnderWay
  BY <1>1 DEF SeqsUnderWay
<1>12. Paired'
  <2>1. ASSUME NEW t \in pending' PROVE trans'[t].seq \in SeqsUnderWay' \/ (Listed' /\ trans'[t].seq = req'.seq)
    BY <1>1, <1>3, <1>9, <1>11 DEF Paired
  <2>2. ASSUME NEW t \in pending', NEW u \in pending', trans'[t].seq = trans'[u].seq PROVE t = u
    BY <1>1, <1>9, <1>10, <2>2 DEF Paired
  <2>3. ASSUME NEW g \in Fds, at'[g] = "send" PROVE file'[g].t \in pending' /\ Mine(g)'.seq = req'.seq
    BY <1>1, <1>2, <1>9, <2>3 DEF Mine
  <2>. QED BY <1>8, <2>1, <2>2, <2>3 DEF Paired
<1>. QED BY <1>6, <1>12


LEMMA SendSeq ==
    ASSUME Inv, Lone, Window, Paired, NEW f \in Fds, OpenSends(f) \/ CloseSends(f)
    PROVE  Window' /\ Paired'
<1> USE Shapes2 DEF Inv
<1>1. /\ at[f] = "send" /\ at'[f] \in {"out", "wait"} /\ \A g \in Fds \ {f} : at'[g] = at[g]
      /\ toBm' = Append(toBm, req)
      /\ UNCHANGED <<trans, pending, nextSeq, req, toLinux>>
  BY DEF OpenSends, CloseSends, SendRequest
<1>2. \A g \in Fds \ {f} : at[g] \notin {"pend", "send"}
  BY <1>1 DEF Lone, InAccess
<1>3. Numbered /\ Listed /\ ~ Numbered' /\ ~ Listed'
  BY <1>1, <1>2 DEF Numbered, Listed
<1>4. /\ One(Numbered) = 1 /\ One(Listed) = 1 /\ One(Numbered)' = 0 /\ One(Listed)' = 0
  BY <1>3 DEF One
<1>5. /\ Len(toBm) \in Nat /\ Len(toLinux) \in Nat /\ Len(toBm') = Len(toBm) + 1
      /\ toBm'[Len(toBm) + 1] = req /\ \A k \in 1 .. Len(toBm) : toBm'[k] = toBm[k]
  BY <1>1
<1>6. ASSUME NEW k \in 1 .. Len(toBm') PROVE Aged(toBm'[k].seq, Len(toBm') - k + 1 + 0)
  <2>1. CASE k = Len(toBm) + 1
    <3>1. Aged(req.seq, 1)
      BY <1>3 DEF Window
    <3>2. Len(toBm') - k + 1 + 0 = 1
      BY <1>5, <2>1
    <3>. QED BY <1>5, <2>1, <3>1, <3>2
  <2>2. CASE k \in 1 .. Len(toBm)
    <3>1. Aged(toBm[k].seq, Len(toBm) - k + 1 + 1)
      BY <1>4, <2>2 DEF Window
    <3>2. Len(toBm') - k + 1 + 0 = Len(toBm) - k + 1 + 1
      BY <1>5, <2>2
    <3>. QED BY <1>5, <2>2, <3>1, <3>2
  <2>. QED BY <1>5, <2>1, <2>2
<1>7. ASSUME NEW k \in 1 .. Len(toLinux)
      PROVE  Aged(toLinux[k].seq, Len(toLinux) - k + 1 + Len(toBm') + 0)
  <2>1. Aged(toLinux[k].seq, Len(toLinux) - k + 1 + Len(toBm) + 1)
    BY <1>4 DEF Window
  <2>2. Len(toLinux) - k + 1 + Len(toBm') + 0 = Len(toLinux) - k + 1 + Len(toBm) + 1
    BY <1>5
  <2>. QED BY <2>1, <2>2
<1>8. Window'
  BY <1>1, <1>3, <1>4, <1>6, <1>7 DEF Window, Aged
<1>9. SeqsUnderWay \subseteq SeqsUnderWay' /\ req.seq \in SeqsUnderWay'
  <2>1. \A k \in 1 .. Len(toBm) : k \in 1 .. Len(toBm')
    BY <1>5
  <2>2. Len(toBm) + 1 \in 1 .. Len(toBm')
    BY <1>5
  <2>. QED BY <1>1, <1>5, <2>1, <2>2 DEF SeqsUnderWay
<1>10. Len(toBm)' + Len(toLinux)' + One(Listed)' <= Cardinality(pending)'
  <2>1. Len(toBm) + Len(toLinux) + 1 <= Cardinality(pending)
    BY <1>4 DEF Paired
  <2>2. Len(toBm) + 1 + Len(toLinux) + 0 = Len(toBm) + Len(toLinux) + 1
    BY <1>5
  <2>. QED BY <1>1, <1>4, <1>5, <2>1, <2>2
<1>11. Paired'
  BY <1>1, <1>2, <1>3, <1>9, <1>10 DEF Paired
<1>. QED BY <1>8, <1>11

\* The firmware answers with the number of the request.
LEMMA ReplySeq ==
    ASSUME TypeInv, Firmware
    PROVE  /\ toBm \in Seq(LinkRequest) /\ toBm # <<>> /\ toLinux' = Append(toLinux, rep')
           /\ toBm' = Tail(toBm) /\ rep'.seq = Head(toBm).seq /\ rep'.ind = Head(toBm).ind
           /\ UNCHANGED <<trans, unused, heap, pending, nextSeq, req, at, cb, file, asleep, out>>
<1>1. config_msg_handler(Head(toBm))
  BY DEF Firmware
<1>2. rep'.seq = Head(toBm).seq /\ rep'.ind = Head(toBm).ind
  <2> DEFINE r == Head(toBm)
  <2>1. \A type, v : Reply(r, type, v) => rep'.seq = r.seq /\ rep'.ind = r.ind
    BY DEF Reply
  <2>2. CASE HandleNop(r) \/ HandleNVars(r) \/ HandleBadIndex(r) \/ HandleWrite(r)
    BY <2>1, <2>2 DEF HandleNop, HandleNVars, HandleBadIndex, HandleWrite
  <2>3. CASE HandleRead(r) \/ HandleText(r) \/ HandleUnknown(r) \/ HandleLimit(r)
    BY <2>1, <2>3 DEF HandleRead, HandleText, HandleUnknown, HandleLimit
  <2>. QED BY <1>1, <2>2, <2>3 DEF config_msg_handler
<1>. QED BY <1>2, Shapes2 DEF Firmware, fileVars

LEMMA FirmwareSeq ==
    ASSUME Inv, Window, Paired, Firmware
    PROVE  Window' /\ Paired'
<1> USE Shapes2 DEF Inv
<1>1. /\ toBm # <<>> /\ toLinux' = Append(toLinux, rep') /\ toBm' = Tail(toBm) /\ rep'.seq = toBm[1].seq
      /\ UNCHANGED <<trans, pending, nextSeq, req, at, file>>
  BY ReplySeq
<1>2. /\ Len(toBm) \in Nat /\ Len(toLinux) \in Nat /\ Len(toBm) # 0
      /\ Len(toBm') = Len(toBm) - 1 /\ Len(toLinux') = Len(toLinux) + 1
      /\ \A k \in 1 .. Len(toBm') : toBm'[k] = toBm[k + 1]
      /\ \A k \in 1 .. Len(toLinux) : toLinux'[k] = toLinux[k]
      /\ toLinux'[Len(toLinux) + 1] = rep'
  BY <1>1
<1>3. (Numbered' <=> Numbered) /\ (Listed' <=> Listed)
  BY <1>1 DEF Numbered, Listed
<1>4. One(Numbered)' = One(Numbered) /\ One(Listed)' = One(Listed) /\ One(Numbered) \in Nat /\ One(Listed) \in Nat
  BY <1>3 DEF One
<1> DEFINE one == One(Numbered)
<1>5. ASSUME NEW k \in 1 .. Len(toBm') PROVE Aged(toBm'[k].seq, Len(toBm') - k + 1 + one)
  <2>1. k + 1 \in 1 .. Len(toBm) /\ Len(toBm') - k + 1 + one = Len(toBm) - (k + 1) + 1 + one
    BY <1>2, <1>4
  <2>2. Aged(toBm[k + 1].seq, Len(toBm) - (k + 1) + 1 + one)
    BY <2>1 DEF Window
  <2>. QED BY <1>2, <2>1, <2>2
<1>6. ASSUME NEW k \in 1 .. Len(toLinux')
      PROVE  Aged(toLinux'[k].seq, Len(toLinux') - k + 1 + Len(toBm') + one)
  <2>1. CASE k = Len(toLinux) + 1
    <3>1. 1 \in 1 .. Len(toBm) /\ Len(toLinux') - k + 1 + Len(toBm') + one = Len(toBm) - 1 + 1 + one
      BY <1>2, <1>4, <2>1
    <3>2. Aged(toBm[1].seq, Len(toBm) - 1 + 1 + one)
      BY <3>1 DEF Window
    <3>. QED BY <1>1, <1>2, <2>1, <3>1, <3>2
  <2>2. CASE k \in 1 .. Len(toLinux)
    <3>1. Len(toLinux') - k + 1 + Len(toBm') + one = Len(toLinux) - k + 1 + Len(toBm) + one
      BY <1>2, <1>4, <2>2
    <3>2. Aged(toLinux[k].seq, Len(toLinux) - k + 1 + Len(toBm) + one)
      BY <2>2 DEF Window
    <3>. QED BY <1>2, <2>2, <3>1, <3>2
  <2>. QED BY <1>2, <2>1, <2>2
<1>7. Window'
  BY <1>1, <1>3, <1>4, <1>5, <1>6 DEF Window, Aged
<1>8. SeqsUnderWay \subseteq SeqsUnderWay'
  <2>1. ASSUME NEW k \in 1 .. Len(toBm) PROVE toBm[k].seq \in SeqsUnderWay'
    <3>1. CASE k = 1
      <4>1. Len(toLinux) + 1 \in 1 .. Len(toLinux')
        BY <1>2
      <4>. QED BY <1>1, <1>2, <3>1, <4>1 DEF SeqsUnderWay
    <3>2. CASE k # 1
      <4>1. k - 1 \in 1 .. Len(toBm') /\ (k - 1) + 1 = k
        BY <1>2, <3>2
      <4>2. toBm'[k - 1] = toBm[k]
        BY <1>2, <4>1
      <4>. QED BY <4>1, <4>2 DEF SeqsUnderWay
    <3>. QED BY <3>1, <3>2
  <2>2. ASSUME NEW k \in 1 .. Len(toLinux) PROVE toLinux[k].seq \in SeqsUnderWay'
    <3>1. k \in 1 .. Len(toLinux')
      BY <1>2
    <3>. QED BY <1>2, <3>1 DEF SeqsUnderWay
  <2>. QED BY <2>1, <2>2 DEF SeqsUnderWay
<1>9. Len(toBm') + Len(toLinux') = Len(toBm) + Len(toLinux)
  BY <1>2
<1>10. Paired'
  BY <1>1, <1>3, <1>4, <1>8, <1>9 DEF Paired, Mine
<1>. QED BY <1>7, <1>10

LEMMA CallbackSeq ==
    ASSUME FewStructs, Inv, Window, Paired, Callback
    PROVE  Window' /\ Paired'
<1> USE Shapes2 DEF Inv
<1>1. UNCHANGED <<file, at, req, nextSeq, toBm>> /\ \A t \in Trans : trans'[t].seq = trans[t].seq
  BY CallbackRnw
<1>2. CASE UNCHANGED <<toLinux, pending>>
  BY <1>1, <1>2, QuietSeq
<1>3. CASE (CbMatch \/ CbDrop) /\ UNCHANGED fileVars
  <2>1. toLinux # <<>> /\ toLinux' = Tail(toLinux) /\ trans' = trans
    BY <1>3 DEF CbMatch, CbDrop
  <2>2. /\ Len(toBm) \in Nat /\ Len(toLinux) \in Nat /\ Len(toLinux) # 0 /\ Len(toLinux') = Len(toLinux) - 1
        /\ \A k \in 1 .. Len(toLinux') : toLinux'[k] = toLinux[k + 1]
    BY <2>1
  <2>3. (Numbered' <=> Numbered) /\ (Listed' <=> Listed)
    BY <1>1 DEF Numbered, Listed
  <2>4. One(Numbered)' = One(Numbered) /\ One(Listed)' = One(Listed) /\ One(Numbered) \in Nat /\ One(Listed) \in Nat
    BY <2>3 DEF One
  <2> DEFINE one == One(Numbered)
  <2>5. ASSUME NEW k \in 1 .. Len(toLinux')
        PROVE  Aged(toLinux'[k].seq, Len(toLinux') - k + 1 + Len(toBm) + one)
    <3>1. /\ k + 1 \in 1 .. Len(toLinux)
          /\ Len(toLinux') - k + 1 + Len(toBm) + one = Len(toLinux) - (k + 1) + 1 + Len(toBm) + one
      BY <2>2, <2>4
    <3>2. Aged(toLinux[k + 1].seq, Len(toLinux) - (k + 1) + 1 + Len(toBm) + one)
      BY <3>1 DEF Window
    <3>. QED BY <2>2, <3>1, <3>2
  <2>6. Window'
    BY <1>1, <2>3, <2>4, <2>5 DEF Window, Aged
  <2>7. \A s \in SeqsUnderWay : s = Head(toLinux).seq \/ s \in SeqsUnderWay'
    <3>1. ASSUME NEW k \in 1 .. Len(toLinux), toLinux[k].seq # Head(toLinux).seq
          PROVE  toLinux[k].seq \in SeqsUnderWay'
      <4>1. k # 1
        BY <2>1, <3>1
      <4>2. k - 1 \in 1 .. Len(toLinux') /\ (k - 1) + 1 = k
        BY <2>2, <4>1
      <4>3. toLinux'[k - 1] = toLinux[k]
        BY <2>2, <4>2
      <4>. QED BY <4>2, <4>3 DEF SeqsUnderWay
    <3>. QED BY <1>1, <3>1 DEF SeqsUnderWay
  <2>8. CASE pending' = pending /\ ~ \E t \in Trans : Matches(t, Head(toLinux))
    <3>1. \A t \in pending : trans[t].seq # Head(toLinux).seq
      BY <2>8 DEF Matches
    <3>2. Len(toBm)' + Len(toLinux)' + One(Listed)' <= Cardinality(pending)'
      <4>1. Len(toBm) + Len(toLinux) + One(Listed) <= Cardinality(pending) /\ Cardinality(pending) \in Nat
        BY FS_Subset, FS_CardinalityType DEF Paired, FewStructs
      <4>. QED BY <1>1, <2>2, <2>4, <2>8, <4>1
    <3>3. Paired'
      BY <1>1, <2>1, <2>3, <2>7, <2>8, <3>1, <3>2 DEF Paired, Mine
    <3>. QED BY <2>6, <3>3
  <2>9. ASSUME NEW u \in pending, trans[u].seq = Head(toLinux).seq, pending' = pending \ {u}
        PROVE  Window' /\ Paired'
    <3>1. IsFiniteSet(pending)
      BY FS_Subset DEF FewStructs
    <3>2. Cardinality(pending) \in Nat /\ Cardinality(pending') = Cardinality(pending) - 1
      BY <2>9, <3>1, FS_RemoveElement, FS_CardinalityType
    <3>3. Len(toBm)' + Len(toLinux)' + One(Listed)' <= Cardinality(pending)'
      <4>1. Len(toBm) + Len(toLinux) + One(Listed) <= Cardinality(pending)
        BY DEF Paired
      <4>. QED BY <1>1, <2>2, <2>4, <3>2, <4>1
    <3>4. \A t \in pending' : t \in pending /\ trans[t].seq # Head(toLinux).seq
      BY <2>9 DEF Paired
    <3>5. ASSUME NEW g \in Fds, at[g] = "send" PROVE file[g].t # u
      <4>1. Numbered /\ Mine(g).seq = req.seq
        BY <3>5 DEF Numbered, Paired
      <4>2. req.seq \notin SeqsUnderWay
        BY <4>1, FreshSeq
      <4>3. 1 \in 1 .. Len(toLinux) /\ Head(toLinux) = toLinux[1]
        BY <2>1, <2>2
      <4>. QED BY <2>9, <4>1, <4>2, <4>3 DEF SeqsUnderWay, Mine
    <3>6. Paired'
      BY <1>1, <2>1, <2>3, <2>7, <2>9, <3>3, <3>4, <3>5 DEF Paired, Mine
    <3>. QED BY <2>6, <3>6
  <2>. QED BY <1>3, <2>8, <2>9 DEF CbMatch, CbDrop, Matches, Unlink
<1>. QED BY <1>2, <1>3 DEF Callback, CbFill, Wake, CbFinish


(***************************************************************************)
(* What a read returns.                                                    *)
(***************************************************************************)
LEMMA ToldIsValue ==
    ASSUME NEW f \in Fds
    PROVE  Told(f) \in ValueTexts /\ Told(f) \notin ErrorTexts
BY PathAssumption DEF Told, AccessTypes, ValueTexts, NumberTexts, ErrorTexts

\* A message that gets in line changes nothing for a struct with another number.
LEMMA OwnKept ==
    ASSUME OwnInv, NEW g \in Fds, Reads(g)', file'[g] = file[g], Mine(g)' = Mine(g), cb' = cb, toLinux' = toLinux,
           toBm \in Seq(LinkRequest), file[g].t \in pending' => file[g].t \in pending,
           \/ toBm' = toBm
           \/ toBm' = Append(toBm, req) /\ (file[g].t \in pending => Mine(g).seq # req.seq),
           Path[g].ind \in Idx
    PROVE  OwnOf(g)'
<1>1. Reads(g) /\ OwnOf(g)
  BY DEF Reads, OwnInv
<1>2. Asks(g)' = Asks(g) /\ Told(g)' = Told(g)
  BY DEF Asks, Told
<1>3. ASSUME file'[g].t \in pending', NEW k \in 1 .. Len(toBm'), toBm'[k].seq = Mine(g)'.seq
      PROVE  Says(toBm'[k], Asks(g), g)
  <2>1. file[g].t \in pending
    BY <1>3
  <2>2. CASE toBm' = toBm
    BY <1>1, <1>3, <2>1, <2>2 DEF OwnOf
  <2>3. CASE toBm' = Append(toBm, req) /\ Mine(g).seq # req.seq
    <3>1. \/ k \in 1 .. Len(toBm) /\ toBm'[k] = toBm[k]
          \/ toBm'[k] = req
      BY <1>3, <2>3
    <3>. QED BY <1>1, <1>3, <2>1, <2>3, <3>1 DEF OwnOf
  <2>. QED BY <2>1, <2>2, <2>3
<1>4. file'[g].t \in pending' => \A k \in 1 .. Len(toLinux') : toLinux'[k].seq = Mine(g)'.seq => Says(toLinux'[k], Told(g), g)
  BY <1>1 DEF OwnOf
<1>. QED BY <1>1, <1>2, <1>3, <1>4 DEF OwnOf, InFinish, Says

\* What a step of another file may do to the lists.
LEMMA ListsKept ==
    ASSUME Patient, Inv, Paired, NEW f \in Fds, FileStep(f), NEW g \in Fds \ {f}, IsOpen(g)
    PROVE  /\ file[g].t \in pending' => file[g].t \in pending
           /\ \/ toBm' = toBm
              \/ toBm' = Append(toBm, req) /\ (file[g].t \in pending => Mine(g).seq # req.seq)
<1> USE Shapes2 DEF Inv
<1>1. CASE ~ (Number(f) \/ Pend(f) \/ OpenSends(f) \/ CloseSends(f))
  BY <1>1, QuietFile
<1>2. CASE Number(f)
  BY <1>2 DEF Number, TakeSeq
<1>3. CASE Pend(f)
  <2>1. at[f] = "pend" /\ pending' = pending \cup {file[f].t} /\ toBm' = toBm
    BY <1>3 DEF Pend, AddPending
  <2>2. IsOpen(f)
    BY <2>1, StageOpen DEF IsOpen
  <2>. QED BY <2>1, <2>2 DEF SafeInv, Places
<1>4. CASE OpenSends(f) \/ CloseSends(f)
  <2>1. at[f] = "send" /\ toBm' = Append(toBm, req) /\ pending' = pending
    BY <1>4 DEF OpenSends, CloseSends, SendRequest
  <2>2. IsOpen(f) /\ file[f].t # file[g].t
    BY <2>1, StageOpen DEF IsOpen, SafeInv, Places
  <2>3. file[f].t \in pending /\ trans[file[f].t].seq = req.seq
    BY <2>1 DEF Paired, Mine
  <2>. QED BY <2>1, <2>2, <2>3 DEF Paired, Mine
<1>. QED BY <1>1, <1>2, <1>3, <1>4

LEMMA OwnFile ==
    ASSUME OneWay, Inv, WayInv, Window, Paired, OwnInv, NEW f \in Fds, FileStep(f)
    PROVE  OwnInv'
<1> USE Shapes2 DEF Inv
<1>1. ASSUME NEW g \in Fds \ {f}, Reads(g)', Path[g].ind \in Idx PROVE OwnOf(g)'
  <2>1. file'[g] = file[g] /\ cb' = cb /\ toLinux' = toLinux
    BY OthersStay
  <2>2. Reads(g) /\ IsOpen(g)
    BY <1>1, <2>1 DEF Reads, IsOpen
  <2>3. Mine(g)' = Mine(g)
    BY <2>1, <2>2, OtherStructs DEF Mine
  <2>4. /\ file[g].t \in pending' => file[g].t \in pending
        /\ \/ toBm' = toBm
           \/ toBm' = Append(toBm, req) /\ (file[g].t \in pending => Mine(g).seq # req.seq)
    BY <2>2, ListsKept DEF OneWay
  <2>. QED BY <1>1, <2>1, <2>3, <2>4, OwnKept
<1>2. ASSUME Reads(f)', Path[f].ind \in Idx PROVE OwnOf(f)'
  <2>0. cb' = cb /\ toLinux' = toLinux
    BY OthersStay
  <2>1. CASE OpenToWrite(f)
    BY <1>2, <2>1 DEF OpenToWrite, Opened, Reads
  <2>2. ASSUME NEW mode \in Modes \ {"w"}, OpenToRead(f, mode) PROVE OwnOf(f)'
    <3>1. PICK t \in Trans : /\ Alloc(t)
                             /\ trans' = [trans EXCEPT ![t] = [Zeroed EXCEPT !.rnw = TRUE, !.wq = TRUE]]
                             /\ Opened(f, "opening", mode, t)
      BY <2>2 DEF OpenToRead
    <3>2. file'[f].t = t /\ ~ Mine(f)'.valid /\ pending' = pending
      BY <2>2, <3>1 DEF OpenToRead, Opened, Mine, Zeroed
    <3>3. t \in unused \cup heap
      BY <3>1 DEF Alloc
    <3>4. t \notin pending /\ ~ (cb.pc = "fill" /\ cb.t = t)
      BY <3>3 DEF SafeInv, Flight
    <3>. QED BY <2>0, <3>2, <3>4 DEF OwnOf
  <2>3. CASE Write(f)
    <3>1. file' = file /\ file[f].mode # "r" /\ IsOpen(f)
      BY <2>3 DEF Write, fileVars, IsOpen
    <3>. QED BY <1>2, <3>1 DEF Reads, WayInv, Direction
  <2>4. CASE Close(f) \/ RejectClose(f) \/ FinishClose(f) \/ InterruptClose(f)
    BY <1>2, <2>4 DEF Close, RejectClose, FinishClose, InterruptClose, Released, Closed, Reads
  <2>5. CASE WriteBack(f)
    BY <1>2, <2>5 DEF WriteBack, Reads, File
  <2>6. CASE FinishRead(f)
    BY <1>2, <2>6 DEF FinishRead, Reads, File
  <2>7. CASE Pend(f)
    <3>1. /\ at[f] = "pend" /\ file' = file /\ file[f].t \in Trans /\ toBm' = toBm
          /\ trans' = [trans EXCEPT ![file[f].t].seq = req.seq]
      BY <2>7, StageOpen DEF Pend, AddPending, fileVars
    <3>2. /\ Mine(f)'.text = Mine(f).text /\ Mine(f)'.valid = Mine(f).valid /\ Mine(f)'.err = Mine(f).err
          /\ Mine(f)'.seq = req.seq
      BY <3>1 DEF Mine, Struct
    <3>3. req.seq \notin SeqsUnderWay
      BY <3>1, FreshSeq DEF Numbered
    <3>4. Reads(f) /\ OwnOf(f)
      BY <1>2, <3>1 DEF Reads, OwnInv
    <3>5. /\ \A k \in 1 .. Len(toBm) : toBm[k].seq # Mine(f)'.seq
          /\ \A k \in 1 .. Len(toLinux) : toLinux[k].seq # Mine(f)'.seq
      BY <3>2, <3>3 DEF SeqsUnderWay
    <3>6. Told(f)' = Told(f)
      BY DEF Told
    <3>. QED BY <2>0, <3>1, <3>2, <3>4, <3>5, <3>6 DEF OwnOf, InFinish, Says
  <2>8. CASE OpenSends(f)
    <3>1. /\ at[f] = "send" /\ file[f].op = "opening" /\ file' = [file EXCEPT ![f].op = "open"]
          /\ trans' = trans /\ pending' = pending /\ toBm' = Append(toBm, req)
      BY <2>8 DEF OpenSends, SendRequest
    <3>2. file'[f].t = file[f].t /\ file'[f].mode = file[f].mode /\ Reads(f)
      BY <1>2, <3>1 DEF Reads, File
    <3>3. OwnOf(f) /\ Says(req, Asks(f), f)
      BY <1>2, <3>1, <3>2 DEF OwnInv, WayInv, ReqInv, Asking, Says
    <3>4. Asks(f)' = Asks(f) /\ Told(f)' = Told(f) /\ Mine(f)' = Mine(f)
      BY <3>1, <3>2 DEF Asks, Told, Mine
    <3>5. ASSUME NEW k \in 1 .. Len(toBm'), file[f].t \in pending, toBm'[k].seq = Mine(f).seq
          PROVE  Says(toBm'[k], Asks(f), f)
      <4>1. (k \in 1 .. Len(toBm) /\ toBm'[k] = toBm[k]) \/ toBm'[k] = req
        BY <3>1, <3>5
      <4>. QED BY <3>3, <3>5, <4>1 DEF OwnOf
    <3>. QED BY <2>0, <3>1, <3>2, <3>3, <3>4, <3>5 DEF OwnOf, InFinish, Says
  <2>9. CASE StartRead(f) \/ InterruptRead(f) \/ Fill(f) \/ Number(f) \/ CloseSends(f) \/ Sleep(f)
    <3>1. /\ trans' = trans /\ pending' = pending /\ (file[f].op = "closing" \/ toBm' = toBm)
          /\ file' = file \/ (file[f].op \in {"open", "reading"} /\ \E op \in {"open", "reading"} : file' = [file EXCEPT ![f].op = op])
      BY <2>9 DEF StartRead, InterruptRead, Fill, FillRequest, Number, TakeSeq, CloseSends, SendRequest, Sleep,
                  linkVars, fileVars
    <3>2. Reads(f) /\ file'[f].t = file[f].t /\ file'[f].mode = file[f].mode
      BY <1>2, <3>1 DEF Reads, File
    <3>3. OwnOf(f) /\ toBm' = toBm
      BY <1>2, <3>1, <3>2 DEF OwnInv, Reads
    <3>4. Asks(f)' = Asks(f) /\ Told(f)' = Told(f) /\ Mine(f)' = Mine(f)
      BY <3>1, <3>2 DEF Asks, Told, Mine
    <3>. QED BY <2>0, <3>1, <3>2, <3>3, <3>4 DEF OwnOf, InFinish, Says
  <2>. QED BY <2>1, <2>2, <2>3, <2>4, <2>5, <2>6, <2>7, <2>8, <2>9
       DEF FileStep, Begin, Continue, Interrupt
<1>. QED BY <1>1, <1>2 DEF OwnInv


LEMMA OwnFirmware ==
    ASSUME Inv, WayInv, OwnInv, Firmware
    PROVE  OwnInv'
<1> USE Shapes2 DEF Inv
<1>1. /\ toBm # <<>> /\ toLinux' = Append(toLinux, rep') /\ toBm' = Tail(toBm)
      /\ rep'.seq = toBm[1].seq /\ rep'.ind = toBm[1].ind
      /\ UNCHANGED <<trans, pending, cb, file>>
  BY ReplySeq
<1> SUFFICES ASSUME NEW f \in Fds, Reads(f), Path[f].ind \in Idx PROVE OwnOf(f)'
  BY <1>1 DEF OwnInv, Reads
<1>2. OwnOf(f) /\ Mine(f)' = Mine(f) /\ Told(f)' = Told(f) /\ Asks(f)' = Asks(f)
  BY <1>1 DEF OwnInv, Mine, Told, Asks
<1>3. Says(toBm[1], Asks(f), f) => Says(rep', Told(f), f)
  <2> SUFFICES ASSUME Says(toBm[1], Asks(f), f) PROVE rep'.type = Told(f)
    BY <1>1 DEF Says
  <2> DEFINE r == Head(toBm)
  <2>1. r.type = Asks(f) /\ r.ind \in Idx /\ config_msg_handler(r)
    BY DEF Says, Firmware
  <2>2. r.type \in {"RD", "RD_MIN", "RD_MAX", "DESC"} /\ Told(f) = IF r.type = "RD" THEN "RD_VAL" ELSE r.type
    <3>1. file[f].mode = "r"
      BY DEF Reads, IsOpen, WayInv, Direction
    <3>2. Path[f].acc \in {"VAL", "RD_MIN", "RD_MAX", "DESC"}
      BY PathAssumption DEF AccessTypes
    <3>. QED BY <2>1, <3>1, <3>2 DEF Asks, Told
  <2>3. HandleRead(r) \/ HandleLimit(r) \/ HandleText(r)
    BY <2>1, <2>2 DEF config_msg_handler, HandleNop, HandleNVars, HandleBadIndex, HandleWrite, HandleUnknown
  <2>. QED BY <2>2, <2>3 DEF HandleRead, HandleLimit, HandleText, Reply
<1>4. ASSUME file[f].t \in pending, NEW k \in 1 .. Len(toBm'), toBm'[k].seq = Mine(f).seq
      PROVE  Says(toBm'[k], Asks(f), f)
  <2>1. k + 1 \in 1 .. Len(toBm) /\ toBm'[k] = toBm[k + 1]
    BY <1>1
  <2>. QED BY <1>2, <1>4, <2>1 DEF OwnOf
<1>5. ASSUME file[f].t \in pending, NEW k \in 1 .. Len(toLinux'), toLinux'[k].seq = Mine(f).seq
      PROVE  Says(toLinux'[k], Told(f), f)
  <2>1. (k \in 1 .. Len(toLinux) /\ toLinux'[k] = toLinux[k]) \/ toLinux'[k] = rep'
    BY <1>1
  <2>2. toBm[1].seq = Mine(f).seq => Says(toBm[1], Asks(f), f)
    <3>1. 1 \in 1 .. Len(toBm)
      BY <1>1
    <3>. QED BY <1>2, <1>5, <3>1 DEF OwnOf
  <2>. QED BY <1>1, <1>2, <1>3, <1>5, <2>1, <2>2 DEF OwnOf
<1>. QED BY <1>1, <1>2, <1>4, <1>5 DEF OwnOf, InFinish, Says

LEMMA OwnCallback ==
    ASSUME Inv, Paired, OwnInv, Callback
    PROVE  OwnInv'
<1> USE Shapes2 DEF Inv
<1>1. UNCHANGED <<file, toBm>> /\ \A t \in Trans : trans'[t].seq = trans[t].seq
  BY CallbackRnw
<1> SUFFICES ASSUME NEW f \in Fds, Reads(f), Path[f].ind \in Idx PROVE OwnOf(f)'
  BY <1>1 DEF OwnInv, Reads
<1>2. OwnOf(f) /\ Told(f)' = Told(f) /\ Asks(f)' = Asks(f) /\ IsOpen(f) /\ file[f].t \in Trans /\ Mine(f) \in Struct
  BY <1>1 DEF OwnInv, Told, Asks, Reads, IsOpen, Mine
<1>3. CASE (CbMatch \/ CbDrop) /\ UNCHANGED fileVars
  <2>1. toLinux # <<>> /\ toLinux' = Tail(toLinux) /\ trans' = trans /\ cb.pc = "idle" /\ pending' \subseteq pending
    BY <1>3 DEF CbMatch, CbDrop, Unlink
  <2>2. ASSUME file[f].t \in pending', NEW k \in 1 .. Len(toLinux'), toLinux'[k].seq = Mine(f).seq
        PROVE  Says(toLinux'[k], Told(f), f)
    <3>1. k + 1 \in 1 .. Len(toLinux) /\ toLinux'[k] = toLinux[k + 1]
      BY <2>1
    <3>. QED BY <1>2, <2>1, <2>2, <3>1 DEF OwnOf
  <2>3. cb'.pc = "fill" /\ cb'.t = file[f].t => Says(cb'.msg, Told(f), f) /\ ~ Mine(f).valid
    <3> SUFFICES ASSUME cb'.pc = "fill", cb'.t = file[f].t PROVE Says(cb'.msg, Told(f), f) /\ ~ Mine(f).valid
      OBVIOUS
    <3>1. file[f].t \in pending /\ Mine(f).seq = toLinux[1].seq /\ cb'.msg = toLinux[1]
      BY <1>3, <2>1 DEF CbMatch, CbDrop, Matches, Mine
    <3>2. 1 \in 1 .. Len(toLinux)
      BY <2>1
    <3>. QED BY <1>2, <3>1, <3>2 DEF OwnOf, SafeInv, Flight
  <2>4. cb'.pc # "finish" /\ Mine(f)' = Mine(f)
    BY <1>1, <1>3, <2>1 DEF CbMatch, CbDrop, Mine
  <2>. QED BY <1>1, <1>2, <2>1, <2>2, <2>3, <2>4 DEF OwnOf, InFinish, Says
<1>4. CASE CbFill /\ UNCHANGED fileVars
  <2>1. /\ cb.pc = "fill" /\ cb.t \in Trans /\ cb.msg \in LinkResponse
        /\ trans' = [trans EXCEPT ![cb.t] = Filled(trans[cb.t], cb.msg)]
        /\ cb'.pc = "finish" /\ cb'.t = cb.t /\ cb'.msg = cb.msg
        /\ UNCHANGED <<pending, toLinux>>
    BY <1>4 DEF CbFill
  <2>2. CASE cb.t = file[f].t
    <3>1. Mine(f)' = Filled(Mine(f), cb.msg) /\ Says(cb.msg, Told(f), f)
      BY <1>1, <1>2, <2>1, <2>2 DEF Mine, OwnOf
    <3>2. cb.msg.type \in ValueTexts
      BY <3>1, ToldIsValue DEF Says
    <3>3. /\ Filled(Mine(f), cb.msg).text.kind = cb.msg.type /\ Filled(Mine(f), cb.msg).text.ind = cb.msg.ind
          /\ ~ Filled(Mine(f), cb.msg).err
      BY <1>2, <2>1, <3>2, FilledIs
    <3>4. file[f].t \notin pending
      BY <2>1, <2>2 DEF SafeInv, Flight
    <3>. QED BY <1>1, <1>2, <2>1, <3>1, <3>3, <3>4 DEF OwnOf, InFinish, Says
  <2>3. CASE cb.t # file[f].t
    <3>1. Mine(f)' = Mine(f) /\ ~ InFinish(f)' /\ cb'.t # file[f].t
      BY <1>1, <1>2, <2>1, <2>3 DEF Mine, InFinish
    <3>. QED BY <1>1, <1>2, <2>1, <3>1 DEF OwnOf
  <2>. QED BY <2>2, <2>3
<1>5. CASE Wake
  <2>1. /\ cb.pc = "finish" /\ cb.t \in Trans /\ cb.msg \in LinkResponse
        /\ trans' = [trans EXCEPT ![cb.t] = Finished(trans[cb.t], cb.msg)]
        /\ cb'.pc = "idle" /\ UNCHANGED <<pending, toLinux>>
    BY <1>5 DEF Wake, CbFinish, CbIdle
  <2>2. CASE cb.t = file[f].t
    <3>1. Mine(f)' = Finished(Mine(f), cb.msg) /\ InFinish(f) /\ ~ InFinish(f)'
      BY <1>1, <1>2, <2>1, <2>2 DEF Mine, InFinish
    <3>2. /\ Finished(Mine(f), cb.msg).valid = Mine(f).valid
          /\ Finished(Mine(f), cb.msg).text = Mine(f).text
          /\ Finished(Mine(f), cb.msg).seq = Mine(f).seq
          /\ cb.msg.type \notin ErrorTexts /\ Finished(Mine(f), cb.msg).err => Mine(f).err
      BY <1>2, <2>1, FinishedIs
    <3>. QED BY <1>1, <1>2, <2>1, <3>1, <3>2, ToldIsValue DEF OwnOf
  <2>3. CASE cb.t # file[f].t
    <3>1. Mine(f)' = Mine(f) /\ ~ InFinish(f)'
      BY <1>1, <1>2, <2>1, <2>3 DEF Mine, InFinish
    <3>. QED BY <1>1, <1>2, <2>1, <3>1 DEF OwnOf
  <2>. QED BY <2>2, <2>3
<1>. QED BY <1>3, <1>4, <1>5 DEF Callback

\* Only the end of a read makes a result of the text of a struct.
LEMMA OutFile ==
    ASSUME Inv, WayInv, OwnInv, OwnData, NEW f \in Fds, FileStep(f)
    PROVE  OwnData'
<1> USE Shapes2 DEF Inv
<1>1. ASSUME NEW g \in Fds \ {f} PROVE file'[g] = file[g] /\ out'[g] = out[g]
  BY OthersStay
<1>2. ASSUME file'[f].read, Path[f].ind \in Idx
      PROVE  out'[f].ind = Path[f].ind /\ out'[f].kind = IF Path[f].acc = "VAL" THEN "RD_VAL" ELSE Path[f].acc
  <2>1. CASE FinishRead(f)
    <3>1. /\ file[f].op = "reading" /\ Mine(f).valid
          /\ out'[f] = IF Mine(f).err THEN Result("failed") ELSE Mine(f).text
      BY <2>1 DEF FinishRead
    <3>2. Reads(f)
      BY <3>1 DEF SafeInv, Ready, Reads
    <3>3. OwnOf(f)
      BY <1>2, <3>2 DEF OwnInv
    <3>. QED BY <3>1, <3>3 DEF OwnOf, Told
  <2>2. CASE OpenToWrite(f) \/ \E mode \in Modes \ {"w"} : OpenToRead(f, mode)
    BY <1>2, <2>2 DEF OpenToWrite, OpenToRead, Opened
  <2>3. CASE Close(f) \/ RejectClose(f) \/ FinishClose(f) \/ InterruptClose(f)
    BY <1>2, <2>3 DEF Close, RejectClose, FinishClose, InterruptClose, Released, Closed
  <2>4. CASE StartRead(f) \/ WriteBack(f) \/ OpenSends(f) \/ InterruptRead(f)
    <3>1. out' = out /\ \E op \in Ops : file' = [file EXCEPT ![f].op = op]
      BY <2>4 DEF StartRead, WriteBack, OpenSends, InterruptRead, Ops
    <3>2. file[f].read
      BY <1>2, <3>1 DEF File
    <3>. QED BY <1>2, <3>1, <3>2 DEF OwnData
  <2>5. CASE Write(f) \/ Fill(f) \/ Number(f) \/ Pend(f) \/ CloseSends(f) \/ Sleep(f)
    <3>1. out' = out /\ file' = file
      BY <2>5 DEF Write, Fill, Number, Pend, CloseSends, Sleep, fileVars
    <3>. QED BY <1>2, <3>1 DEF OwnData
  <2>. QED BY <2>1, <2>2, <2>3, <2>4, <2>5 DEF FileStep, Begin, Continue, Interrupt
<1>. QED BY <1>1, <1>2 DEF OwnData

LEMMA DataStep ==
    ASSUME OneWay, FewStructs, Inv, WayInv, DataInv, [Next]_vars
    PROVE  DataInv'
<1>1. ASSUME NEW f \in Fds, FileStep(f) PROVE DataInv'
  <2>1. Window' /\ Paired'
    <3>1. CASE ~ (Number(f) \/ Pend(f) \/ OpenSends(f) \/ CloseSends(f))
      <4>1. /\ UNCHANGED <<nextSeq, toBm, toLinux, pending, cb>> /\ req'.seq = req.seq
            /\ \A g \in Fds : \/ at'[g] = at[g] /\ (at[g] = "send" => file'[g].t = file[g].t)
                              \/ at[g] \notin {"pend", "send"} /\ at'[g] \notin {"pend", "send"}
            /\ \A t \in pending : trans'[t].seq = trans[t].seq
        BY <1>1, <3>1, QuietFile DEF OneWay
      <4>. QED BY <4>1, QuietSeq DEF DataInv
    <3>. QED BY <1>1, <3>1, NumberSeq, PendSeq, SendSeq DEF DataInv, WayInv
  <2>2. OwnInv' /\ OwnData'
    BY <1>1, OwnFile, OutFile DEF DataInv
  <2>. QED BY <2>1, <2>2 DEF DataInv
<1>2. CASE Callback
  <2>1. UNCHANGED <<file, out>>
    BY <1>2, CallbackRnw DEF Inv
  <2>2. OwnData'
    BY <2>1 DEF OwnData, DataInv
  <2>. QED BY <1>2, <2>2, CallbackSeq, OwnCallback DEF DataInv
<1>3. CASE Firmware
  <2>1. UNCHANGED <<file, out>>
    BY <1>3, ReplySeq DEF Inv
  <2>2. OwnData'
    BY <2>1 DEF OwnData, DataInv
  <2>. QED BY <1>3, <2>2, FirmwareSeq, OwnFirmware DEF DataInv
<1>4. CASE UNCHANGED mgmtVars
  <2>1. UNCHANGED <<trans, pending, nextSeq, req, at, cb, toBm, toLinux, file, out>>
    BY <1>4 DEF mgmtVars, linkVars, fileVars
  <2>2. Window' /\ Paired'
    BY <2>1, QuietSeq DEF DataInv
  <2>3. OwnInv' /\ OwnData'
    BY <2>1 DEF DataInv, OwnInv, OwnOf, OwnData, Reads, Says, InFinish, Mine, Told, Asks
  <2>. QED BY <2>2, <2>3 DEF DataInv
<1>. QED BY <1>1, <1>2, <1>3, <1>4 DEF Next, Linux, Application, vars, FileStep

LEMMA DataInit == ASSUME FewStructs, Init PROVE DataInv
<1>1. /\ \A f \in Fds : at[f] = "out" /\ file[f] = Closed
      /\ toBm = <<>> /\ toLinux = <<>> /\ pending = {} /\ nextSeq = 0
  BY DEF Init, MgmtInit, LinkInit
<1>2. ~ Numbered /\ ~ Listed
  BY <1>1 DEF Numbered, Listed
<1>3. Window
  BY <1>1, <1>2, SeqAssumption DEF Window, SeqNrs
<1>4. Cardinality(pending) = 0
  BY <1>1, FS_EmptySet
<1>5. Paired
  BY <1>1, <1>2, <1>4 DEF Paired, One
<1>6. OwnInv /\ OwnData
  BY <1>1 DEF OwnInv, Reads, Closed, OwnData
<1>. QED BY <1>3, <1>5, <1>6 DEF DataInv

\* With fewer transaction structs than sequence numbers, in a kernel without
\* preemption, a read returns the text of the very variable and access type of its
\* file, however the requests of other files, signals and wrap-arounds of
\* get_next_seq_nr come in between (access_var, cfg_mgmt_rpmsg_cb).
THEOREM OwnDataHolds == ASSUME OneWay, FewStructs PROVE Spec => []OwnData
<1>1. Inv /\ WayInv /\ DataInv /\ [Next]_vars => DataInv'
  BY DataStep
<1>2. Init => DataInv
  BY DataInit
<1>3. DataInv => OwnData
  BY DEF DataInv
<1>. QED BY <1>1, <1>2, <1>3, WayHolds, PTL DEF Spec


(***************************************************************************)
(* No struct is forgotten when nothing fails: no signals, and only files   *)
(* for variables that the firmware has, as load_cfg_variables creates them.*)
(***************************************************************************)
NothingFails == ~ Signals /\ \A f \in Fds : Path[f].ind \in Idx

\* No error is under way, and nothing that the firmware would answer with one.
NoErrors == /\ \A t \in Trans : ~ trans[t].err
            /\ cb.pc # "idle" => cb.msg.type \notin ErrorTexts
            /\ \A k \in 1 .. Len(toLinux) : toLinux[k].type \notin ErrorTexts
            /\ \A k \in 1 .. Len(toBm) : toBm[k].ind \in Idx
            /\ \A f \in Fds : at[f] \in {"seq", "pend", "send"} => req.ind \in Idx


LEMMA NoErrorsFile ==
    ASSUME NothingFails, TypeInv, NoErrors, NEW f \in Fds, FileStep(f)
    PROVE  NoErrors'
<1> USE Shapes2
<1>1. cb' = cb /\ toLinux' = toLinux /\ \A g \in Fds \ {f} : at'[g] = at[g]
  BY OthersStay
<1>2. \A t \in Trans : ~ trans'[t].err
  <2>1. CASE OpenToWrite(f) \/ \E mode \in Modes \ {"w"} : OpenToRead(f, mode)
    <3>1. PICK t \in Trans, s \in {[Zeroed EXCEPT !.valid = TRUE], [Zeroed EXCEPT !.rnw = TRUE, !.wq = TRUE]} :
             trans' = [trans EXCEPT ![t] = s]
      BY <2>1 DEF OpenToWrite, OpenToRead
    <3>2. ~ s.err
      BY DEF Zeroed
    <3>. QED BY <3>1, <3>2 DEF NoErrors
  <2>2. CASE Write(f) \/ Pend(f) \/ WriteBack(f)
    <3>1. file[f].t \in Trans
      BY <2>2, StageOpen DEF Write, Pend, AddPending, WriteBack, MayClose, IsOpen
    <3>2. CASE Write(f)
      <4>1. \E text \in Inputs : trans' = [trans EXCEPT ![file[f].t] = [@ EXCEPT !.text = text, !.dirty = TRUE]]
        BY <3>2 DEF Write
      <4>. QED BY <3>1, <4>1 DEF NoErrors, Struct
    <3>3. CASE Pend(f)
      BY <3>1, <3>3 DEF Pend, AddPending, NoErrors, Struct
    <3>4. CASE WriteBack(f)
      BY <3>1, <3>4 DEF WriteBack, Prepared, NoErrors, Struct
    <3>. QED BY <2>2, <3>2, <3>3, <3>4
  <2>3. CASE Close(f) \/ RejectClose(f) \/ FinishClose(f)
    BY <2>3 DEF Close, RejectClose, FinishClose, Return, Zeroed, NoErrors
  <2>4. CASE \/ StartRead(f) \/ Fill(f) \/ Number(f) \/ OpenSends(f) \/ CloseSends(f) \/ Sleep(f)
             \/ FinishRead(f) \/ Interrupt(f)
    <3>1. trans' = trans
      BY <2>4 DEF StartRead, Fill, FillRequest, Number, TakeSeq, OpenSends, CloseSends, SendRequest, Sleep, linkVars,
                  FinishRead, Interrupt, InterruptRead, InterruptClose
    <3>. QED BY <3>1 DEF NoErrors
  <2>. QED BY <2>1, <2>2, <2>3, <2>4 DEF FileStep, Begin, Continue
<1>3. /\ \A g \in Fds : at'[g] \in {"seq", "pend", "send"} => req'.ind \in Idx
      /\ toBm' = toBm \/ (toBm' = Append(toBm, req) /\ req.ind \in Idx)
  <2>1. CASE Fill(f)
    <3>1. at' = [at EXCEPT ![f] = "seq"] /\ req'.ind = Path[f].ind /\ toBm' = toBm
      BY <2>1 DEF Fill, FillRequest, LinkRequest
    <3>. QED BY <3>1 DEF NothingFails
  <2>2. CASE RejectClose(f)
    <3>1. req'.ind = Path[f].ind /\ toBm' = toBm
      BY <2>2 DEF RejectClose, RejectRequest, LinkRequest
    <3>. QED BY <3>1 DEF NothingFails
  <2>3. CASE Number(f) \/ Pend(f)
    <3>1. at[f] \in {"seq", "pend"} /\ req'.ind = req.ind /\ toBm' = toBm
      BY <2>3 DEF Number, TakeSeq, Pend, AddPending, LinkRequest
    <3>. QED BY <1>1, <3>1 DEF NoErrors
  <2>4. CASE OpenSends(f) \/ CloseSends(f)
    <3>1. at[f] = "send" /\ req' = req /\ toBm' = Append(toBm, req)
      BY <2>4 DEF OpenSends, CloseSends, SendRequest
    <3>. QED BY <1>1, <3>1 DEF NoErrors
  <2>5. CASE Begin(f)
    <3>1. at'[f] \in {at[f], "fill", "wait"} /\ req' = req /\ toBm' = toBm
      BY <2>5 DEF Begin, OpenToWrite, OpenToRead, Enter, StartRead, Write, Close, WriteBack
    <3>. QED BY <1>1, <3>1 DEF NoErrors
  <2>6. CASE Sleep(f) \/ FinishRead(f) \/ FinishClose(f) \/ Interrupt(f)
    <3>1. at'[f] \in {at[f], "out"} /\ req' = req /\ toBm' = toBm
      BY <2>6 DEF Sleep, linkVars, FinishRead, FinishClose, Interrupt, InterruptRead, InterruptClose, Leave
    <3>. QED BY <1>1, <3>1 DEF NoErrors
  <2>. QED BY <2>1, <2>2, <2>3, <2>4, <2>5, <2>6 DEF FileStep, Continue
<1>4. \A k \in 1 .. Len(toBm') : toBm'[k].ind \in Idx
  <2>1. CASE toBm' = toBm
    BY <2>1 DEF NoErrors
  <2>2. CASE toBm' = Append(toBm, req) /\ req.ind \in Idx
    <3> SUFFICES ASSUME NEW k \in 1 .. Len(toBm') PROVE toBm'[k].ind \in Idx
      OBVIOUS
    <3>1. (k \in 1 .. Len(toBm) /\ toBm'[k] = toBm[k]) \/ toBm'[k] = req
      BY <2>2
    <3>. QED BY <2>2, <3>1 DEF NoErrors
  <2>. QED BY <1>3, <2>1, <2>2
<1>. QED BY <1>1, <1>2, <1>3, <1>4 DEF NoErrors

LEMMA NoErrorsFirmware ==
    ASSUME TypeInv, NoErrors, Firmware
    PROVE  NoErrors'
<1> USE Shapes2
<1>1. /\ toBm # <<>> /\ toLinux' = Append(toLinux, rep') /\ toBm' = Tail(toBm)
      /\ UNCHANGED <<trans, cb, at, req>>
  BY ReplySeq
<1>2. rep'.type \notin ErrorTexts
  <2> DEFINE r == Head(toBm)
  <2>1. 1 \in 1 .. Len(toBm) /\ r = toBm[1] /\ r \in LinkRequest
    BY <1>1
  <2>2. r.ind \in Idx /\ r.type # "BAD" /\ config_msg_handler(r)
    BY <2>1 DEF NoErrors, LinkRequest, ReqTypes, Firmware
  <2>3. \A type, v : Reply(r, type, v) => rep'.type = type
    BY DEF Reply
  <2>4. CASE HandleNop(r) \/ HandleNVars(r) \/ HandleWrite(r)
    BY <2>3, <2>4 DEF HandleNop, HandleNVars, HandleWrite, ErrorTexts
  <2>5. CASE HandleRead(r) \/ HandleText(r) \/ HandleLimit(r)
    BY <2>3, <2>5 DEF HandleRead, HandleText, HandleLimit, ErrorTexts
  <2>. QED BY <2>2, <2>4, <2>5 DEF config_msg_handler, HandleBadIndex, HandleUnknown
<1>3. \A k \in 1 .. Len(toBm') : toBm'[k].ind \in Idx
  <2> SUFFICES ASSUME NEW k \in 1 .. Len(toBm') PROVE toBm'[k].ind \in Idx
    OBVIOUS
  <2>1. k + 1 \in 1 .. Len(toBm) /\ toBm'[k] = toBm[k + 1]
    BY <1>1
  <2>. QED BY <2>1 DEF NoErrors
<1>4. \A k \in 1 .. Len(toLinux') : toLinux'[k].type \notin ErrorTexts
  <2> SUFFICES ASSUME NEW k \in 1 .. Len(toLinux') PROVE toLinux'[k].type \notin ErrorTexts
    OBVIOUS
  <2>1. (k \in 1 .. Len(toLinux) /\ toLinux'[k] = toLinux[k]) \/ toLinux'[k] = rep'
    BY <1>1
  <2>. QED BY <1>2, <2>1 DEF NoErrors
<1>. QED BY <1>1, <1>3, <1>4 DEF NoErrors

LEMMA NoErrorsCallback ==
    ASSUME TypeInv, NoErrors, Callback
    PROVE  NoErrors'
<1> USE Shapes2
<1>1. UNCHANGED <<at, req, toBm>>
  BY CallbackRnw
<1>2. CASE (CbMatch \/ CbDrop) /\ UNCHANGED fileVars
  <2>1. /\ toLinux # <<>> /\ toLinux' = Tail(toLinux) /\ trans' = trans
        /\ cb'.pc # "idle" => cb'.msg = Head(toLinux)
    BY <1>2 DEF CbMatch, CbDrop
  <2>2. Head(toLinux) = toLinux[1] /\ 1 \in 1 .. Len(toLinux)
    BY <2>1
  <2>3. \A k \in 1 .. Len(toLinux') : k + 1 \in 1 .. Len(toLinux) /\ toLinux'[k] = toLinux[k + 1]
    BY <2>1
  <2>. QED BY <1>1, <2>1, <2>2, <2>3 DEF NoErrors
<1>3. CASE CbFill /\ UNCHANGED fileVars
  <2>1. /\ cb.pc = "fill" /\ cb.t \in Trans /\ cb.msg \in LinkResponse /\ trans[cb.t] \in Struct
        /\ trans' = [trans EXCEPT ![cb.t] = Filled(trans[cb.t], cb.msg)]
        /\ cb'.msg = cb.msg /\ toLinux' = toLinux
    BY <1>3 DEF CbFill
  <2>2. cb.msg.type \notin ErrorTexts /\ ~ trans[cb.t].err
    BY <2>1 DEF NoErrors
  <2>3. ~ Filled(trans[cb.t], cb.msg).err
    BY <2>1, <2>2, FilledIs
  <2>. QED BY <1>1, <2>1, <2>2, <2>3 DEF NoErrors
<1>4. CASE Wake
  <2>1. /\ cb.pc = "finish" /\ cb.t \in Trans /\ cb.msg \in LinkResponse /\ trans[cb.t] \in Struct
        /\ trans' = [trans EXCEPT ![cb.t] = Finished(trans[cb.t], cb.msg)]
        /\ cb'.pc = "idle" /\ toLinux' = toLinux
    BY <1>4 DEF Wake, CbFinish, CbIdle
  <2>2. cb.msg.type \notin ErrorTexts /\ ~ trans[cb.t].err
    BY <2>1 DEF NoErrors
  <2>3. ~ Finished(trans[cb.t], cb.msg).err
    BY <2>1, <2>2, FinishedIs
  <2>. QED BY <1>1, <2>1, <2>3 DEF NoErrors
<1>. QED BY <1>2, <1>3, <1>4 DEF Callback

\* Where a struct goes when a file gives it up, and which struct a file takes.
LEMMA NoLeakFile ==
    ASSUME NothingFails, TypeInv, NoErrors, NoLeak, NEW f \in Fds, FileStep(f)
    PROVE  NoLeak'
<1> USE Shapes2
<1>1. \A g \in Fds \ {f} : file'[g] = file[g]
  BY OthersStay
<1>2. \A t \in Trans : t \in unused \cup heap \/ \E g \in Fds : IsOpen(g) /\ file[g].t = t
  BY DEF NoLeak, Accounted, Held
<1>3. ASSUME unused \cup heap \subseteq unused' \cup heap' \cup {file'[f].t}, IsOpen(f)' \/ unused \cup heap \subseteq unused' \cup heap',
             IsOpen(f) => file[f].t \in unused' \/ (IsOpen(f)' /\ file'[f].t = file[f].t)
      PROVE  \A t \in Trans : t \in unused' \cup heap' \/ \E g \in Fds : IsOpen(g)' /\ file'[g].t = t
  <2> SUFFICES ASSUME NEW t \in Trans PROVE t \in unused' \cup heap' \/ \E g \in Fds : IsOpen(g)' /\ file'[g].t = t
    OBVIOUS
  <2>1. CASE t \in unused \cup heap
    BY <1>3, <2>1
  <2>2. CASE \E g \in Fds : IsOpen(g) /\ file[g].t = t
    <3>1. PICK g \in Fds : IsOpen(g) /\ file[g].t = t
      BY <2>2
    <3>2. CASE g = f
      BY <1>3, <3>1, <3>2
    <3>3. CASE g # f
      BY <1>1, <3>1, <3>3 DEF IsOpen
    <3>. QED BY <3>2, <3>3
  <2>. QED BY <1>2, <2>1, <2>2
<1>4. /\ unused \cup heap \subseteq unused' \cup heap' \cup {file'[f].t}
      /\ IsOpen(f)' \/ unused \cup heap \subseteq unused' \cup heap'
      /\ IsOpen(f) => file[f].t \in unused' \/ (IsOpen(f)' /\ file'[f].t = file[f].t)
  <2>1. CASE OpenToWrite(f) \/ \E mode \in Modes \ {"w"} : OpenToRead(f, mode)
    <3>1. /\ file[f].op = "closed"
          /\ \E t \in Trans, op \in {"open", "opening"}, mode \in {"r", "w", "rw"} : Alloc(t) /\ Opened(f, op, mode, t)
      BY <2>1, ModesAssumption DEF OpenToWrite, OpenToRead
    <3>. QED BY <3>1 DEF Alloc, Opened, IsOpen
  <2>2. CASE Close(f) \/ RejectClose(f) \/ FinishClose(f)
    <3>1. FinishClose(f) => IsOpen(f) /\ ~ Mine(f).err
      BY DEF FinishClose, IsOpen, NoErrors, Mine
    <3>2. unused' = unused \cup {file[f].t} /\ heap' = heap
      BY <2>2, <3>1 DEF Close, RejectClose, FinishClose, Return
    <3>. QED BY <3>2
  <2>3. CASE StartRead(f) \/ WriteBack(f) \/ OpenSends(f) \/ FinishRead(f) \/ InterruptRead(f)
    <3>1. /\ UNCHANGED <<unused, heap>> /\ IsOpen(f)
          /\ file'[f].t = file[f].t /\ file'[f].op \in {"open", "reading", "closing"}
      BY <2>3 DEF StartRead, WriteBack, MayClose, OpenSends, SendRequest, FinishRead, InterruptRead, IsOpen, File
    <3>. QED BY <3>1 DEF IsOpen
  <2>4. CASE Write(f) \/ Fill(f) \/ Number(f) \/ Pend(f) \/ CloseSends(f) \/ Sleep(f)
    <3>1. UNCHANGED <<unused, heap, file>>
      BY <2>4 DEF Write, Fill, FillRequest, Number, TakeSeq, Pend, AddPending, CloseSends, SendRequest, Sleep,
                  linkVars, fileVars
    <3>. QED BY <3>1 DEF IsOpen
  <2>. QED BY <2>1, <2>2, <2>3, <2>4 DEF FileStep, Begin, Continue, Interrupt, InterruptClose, NothingFails
<1>5. /\ unused' \subseteq Trans /\ heap' \subseteq Trans
      /\ \A g \in Fds : IsOpen(g)' => file'[g].t \in Trans
  <2>1. MgmtTypeOK'
    BY BeginType, ContinueType, InterruptType DEF FileStep
  <2>. QED BY <2>1 DEF MgmtTypeOK, LinkTypeOK, IsOpen
<1>6. \A t \in Trans : t \in unused' \cup heap' \/ \E g \in Fds : IsOpen(g)' /\ file'[g].t = t
  BY <1>3, <1>4
<1>. QED BY <1>5, <1>6 DEF NoLeak, Accounted, Held

LEMMA NoLeakStep ==
    ASSUME NothingFails, TypeInv, NoErrors, NoLeak, [Next]_vars
    PROVE  NoErrors' /\ NoLeak'
<1>1. CASE \E f \in Fds : FileStep(f)
  BY <1>1, NoErrorsFile, NoLeakFile
<1>2. CASE Callback
  <2>1. UNCHANGED <<file, unused, heap>>
    BY <1>2, CallbackRnw
  <2>. QED BY <1>2, <2>1, NoErrorsCallback DEF NoLeak, Accounted, Held, IsOpen
<1>3. CASE Firmware
  <2>1. UNCHANGED <<file, unused, heap>>
    BY <1>3, ReplySeq
  <2>. QED BY <1>3, <2>1, NoErrorsFirmware DEF NoLeak, Accounted, Held, IsOpen
<1>4. CASE UNCHANGED mgmtVars
  BY <1>4 DEF mgmtVars, linkVars, fileVars, NoErrors, NoLeak, Accounted, Held, IsOpen
<1>. QED BY <1>1, <1>2, <1>3, <1>4 DEF Next, Linux, Application, vars, FileStep

\* Without signals and with files for existing variables only, every transaction
\* struct is in memory, in unused_list or with an open file, also when several
\* threads are in access_var at once: rpmsg_link_alloc_trans,
\* rpmsg_link_return_trans and the paths of the file operations lose none.
THEOREM NoLeakHolds == ASSUME NothingFails PROVE Spec => []NoLeak
<1>1. TypeInv /\ NoErrors /\ NoLeak /\ [Next]_vars => NoErrors' /\ NoLeak'
  BY NoLeakStep
<1>2. Init => NoErrors /\ NoLeak
  BY PoolAssumption DEF Init, MgmtInit, LinkInit, Zeroed, CbIdle, NoErrors, NoLeak, Accounted, Held, Closed, IsOpen
<1>. QED BY <1>1, <1>2, InitType, StepType, PTL DEF Spec

(***************************************************************************)
(* What holds of the transaction structs and of the sleeping processes     *)
(* without any assumption on the kernel or on its users: threads preempt   *)
(* each other, signals arrive, files are closed before they are read and   *)
(* rpmsg_send may find no buffer (LossySpec).  Both results reach as far   *)
(* as the lists are intact: to the step that recycles or lists a struct    *)
(* which pending_list still links, that step included.                     *)
(***************************************************************************)
RoughStep(f) == FileStep(f) \/ FailsToSend(f)

\* What is read was opened for reading.
ReadModes == \A f \in Fds : file[f].op \in {"opening", "reading"} => file[f].mode # "w"

RoughInv == TypeInv /\ Places /\ ReadModes /\ WakeUp

(***************************************************************************)
(* Types.                                                                  *)
(***************************************************************************)
LEMMA FailsType ==
    ASSUME TypeInv, NEW f \in Fds, FailsToSend(f)
    PROVE  MgmtTypeOK' /\ OpStage'
<1> USE DEF TypeInv, TypeOK, MgmtTypeOK
<1>1. at[f] = "send" /\ at' = [at EXCEPT ![f] = "out"]
  BY DEF FailsToSend, OpenFailsToSend, CloseFailsToSend, FailToSend
<1>2. file[f].t \in Trans /\ Mine(f) \in Struct
  BY <1>1, StageOpen
<1>3. at' \in [Fds -> Stages]
  BY <1>1 DEF LinkTypeOK, Stages
<1>4. CASE OpenFailsToSend(f)
  <2>1. trans' \in [Trans -> Struct]
    <3>1. [Mine(f) EXCEPT !.rnw = FALSE, !.valid = TRUE] \in Struct
      BY <1>2 DEF Struct
    <3>2. trans' = trans \/ trans' = [trans EXCEPT ![file[f].t] = [Mine(f) EXCEPT !.rnw = FALSE, !.valid = TRUE]]
      BY <1>4 DEF OpenFailsToSend, Mine
    <3>. QED BY <1>2, <3>1, <3>2 DEF LinkTypeOK
  <2>2. LinkTypeOK'
    BY <1>3, <1>4, <2>1 DEF OpenFailsToSend, LinkTypeOK
  <2>3. file' = [file EXCEPT ![f].op = "open"] /\ UNCHANGED <<asleep, out>>
    BY <1>4 DEF OpenFailsToSend
  <2>4. file' \in [Fds -> File] /\ \A g \in Fds : file'[g].op # "closed" => file'[g].t \in Trans
    BY <1>2, <2>3 DEF File, Ops
  <2>5. OpStage'
    BY <1>1, <2>3 DEF OpStage, LinkTypeOK, File
  <2>. QED BY <2>2, <2>3, <2>4, <2>5
<1>5. CASE CloseFailsToSend(f)
  <2>1. trans' \in [Trans -> Struct] /\ unused' \subseteq Trans
    BY <1>2, <1>5, ZeroedType DEF CloseFailsToSend, Return, LinkTypeOK
  <2>2. LinkTypeOK' /\ asleep' = asleep
    BY <1>3, <1>5, <2>1 DEF CloseFailsToSend, Return, LinkTypeOK
  <2>. QED BY <1>1, <1>5, <2>2, ReleasedType DEF CloseFailsToSend
<1>. QED BY <1>4, <1>5 DEF FailsToSend

LEMMA RoughType == TypeInv /\ [LossyNext]_vars => TypeInv'
<1> SUFFICES ASSUME TypeInv, [LossyNext]_vars PROVE TypeInv'
  OBVIOUS
<1>1. CASE [Next]_vars
  BY <1>1, StepType
<1>2. ASSUME NEW f \in Fds, FailsToSend(f), UNCHANGED cfgVars PROVE TypeInv'
  BY <1>2, FailsType DEF cfgVars, TypeInv, TypeOK, CfgTypeOK
<1>. QED BY <1>1, <1>2 DEF LossyNext

(***************************************************************************)
(* Structs.                                                                *)
(***************************************************************************)
\* A step of one file leaves the others alone.
LEMMA RoughOthers ==
    ASSUME TypeInv, NEW f \in Fds, RoughStep(f)
    PROVE  /\ \A g \in Fds \ {f} : file'[g] = file[g] /\ at'[g] = at[g] /\ out'[g] = out[g]
           /\ cb' = cb
<1> USE Shapes2
<1>1. CASE FileStep(f)
  BY <1>1, OthersStay
<1>2. CASE FailsToSend(f)
  BY <1>2 DEF FailsToSend, OpenFailsToSend, CloseFailsToSend, FailToSend, Released
<1>. QED BY <1>1, <1>2 DEF RoughStep

\* A file takes a struct that is free, keeps its struct, returns it or forgets it.
Takes(f) == /\ ~ IsOpen(f) /\ IsOpen(f)'
            /\ \E t \in Trans : Alloc(t) /\ file'[f].t = t
Keeps(f) == /\ IsOpen(f)' <=> IsOpen(f)
            /\ file'[f].t = file[f].t
            /\ UNCHANGED <<unused, heap>>
Returns(f) == IsOpen(f) /\ ~ IsOpen(f)' /\ Return(file[f].t)
Forgets(f) == /\ file[f].op = "closing" /\ ~ IsOpen(f)' /\ out'[f].kind = "failed"
              /\ UNCHANGED <<unused, heap>>

LEMMA StructMoves ==
    ASSUME TypeInv, NEW f \in Fds, RoughStep(f)
    PROVE  Takes(f) \/ Keeps(f) \/ Returns(f) \/ Forgets(f)
<1> USE Shapes2
<1>1. CASE OpenToWrite(f) \/ \E mode \in Modes \ {"w"} : OpenToRead(f, mode)
  <2>1. /\ file[f].op = "closed"
        /\ \E t \in Trans, op \in {"open", "opening"}, mode \in {"r", "w", "rw"} : Alloc(t) /\ Opened(f, op, mode, t)
    BY <1>1, ModesAssumption DEF OpenToWrite, OpenToRead
  <2>. QED BY <2>1 DEF Opened, IsOpen, Takes
<1>2. ASSUME NEW k \in {"done", "failed"}, Released(f, k) PROVE ~ IsOpen(f)' /\ out'[f].kind = k
  BY <1>2 DEF Released, Closed, IsOpen, Result
<1>3. CASE Close(f) \/ RejectClose(f) \/ CloseFailsToSend(f)
  BY <1>2, <1>3 DEF Close, MayClose, RejectClose, CloseFailsToSend, IsOpen, Returns
<1>4. CASE FinishClose(f)
  BY <1>2, <1>4 DEF FinishClose, IsOpen, Returns, Forgets
<1>5. CASE InterruptClose(f)
  BY <1>2, <1>5 DEF InterruptClose, Forgets
<1>6. CASE StartRead(f) \/ WriteBack(f) \/ OpenSends(f) \/ OpenFailsToSend(f) \/ FinishRead(f) \/ InterruptRead(f)
  <2>1. /\ UNCHANGED <<unused, heap>> /\ IsOpen(f)
        /\ file'[f].t = file[f].t /\ file'[f].op \in {"open", "reading", "closing"}
    BY <1>6 DEF StartRead, WriteBack, MayClose, OpenSends, SendRequest, OpenFailsToSend, FinishRead, InterruptRead,
                IsOpen, File
  <2>. QED BY <2>1 DEF IsOpen, Keeps
<1>7. CASE Write(f) \/ Fill(f) \/ Number(f) \/ Pend(f) \/ CloseSends(f) \/ Sleep(f)
  <2>1. UNCHANGED <<unused, heap, file>>
    BY <1>7 DEF Write, Fill, FillRequest, Number, TakeSeq, Pend, AddPending, CloseSends, SendRequest, Sleep,
                linkVars, fileVars
  <2>. QED BY <2>1 DEF IsOpen, Keeps
<1>. QED BY <1>1, <1>3, <1>4, <1>5, <1>6, <1>7
     DEF RoughStep, FileStep, Begin, Continue, Interrupt, FailsToSend

LEMMA RoughPlaces ==
    ASSUME TypeInv, Places, NEW f \in Fds, RoughStep(f)
    PROVE  Places'
<1> USE Shapes2
<1>1. \A g \in Fds \ {f} : file'[g] = file[g] /\ (IsOpen(g)' <=> IsOpen(g))
  BY RoughOthers DEF IsOpen
<1>2. CASE Takes(f)
  <2>1. PICK t \in Trans : Alloc(t) /\ file'[f].t = t
    BY <1>2 DEF Takes
  <2>2. t \in unused \cup heap /\ unused' = unused \ {t} /\ heap' = heap \ {t}
    BY <2>1 DEF Alloc
  <2>. QED BY <1>1, <2>1, <2>2 DEF Places
<1>3. CASE Keeps(f)
  BY <1>1, <1>3 DEF Keeps, Places
<1>4. CASE Returns(f)
  BY <1>1, <1>4 DEF Returns, Return, Places
<1>5. CASE Forgets(f)
  BY <1>1, <1>5 DEF Forgets, Places
<1>. QED BY <1>2, <1>3, <1>4, <1>5, StructMoves

(***************************************************************************)
(* Sleepers.                                                               *)
(***************************************************************************)
LEMMA RoughStructs ==
    ASSUME TypeInv, Places, NEW f \in Fds, RoughStep(f)
    PROVE  \A g \in Fds \ {f} : IsOpen(g) => trans'[file[g].t] = trans[file[g].t]
<1>1. \A g \in Fds \ {f} : IsOpen(g) =>
         /\ file[g].t \in Trans /\ file[g].t \notin unused \cup heap
         /\ IsOpen(f) => file[g].t # file[f].t
  BY Shapes2 DEF Places
<1>2. CASE FileStep(f)
  BY <1>1, <1>2, OwnStruct
<1>3. CASE FailsToSend(f)
  <2>1. IsOpen(f) /\ file[f].t \in Trans
    BY <1>3, Shapes2 DEF FailsToSend, OpenFailsToSend, CloseFailsToSend, IsOpen
  <2>2. \A u \in Trans \ {file[f].t} : trans'[u] = trans[u]
    BY <1>3, <2>1, Shapes2 DEF FailsToSend, OpenFailsToSend, CloseFailsToSend, Return
  <2>. QED BY <1>1, <2>1, <2>2
<1>. QED BY <1>2, <1>3 DEF RoughStep

\* The part of WakeUp that is about file f.
Queued(f) == file[f].op = "closing" \/ (IsOpen(f) /\ file[f].mode # "w")
WakesUp(f) == /\ f \in asleep => /\ at[f] = "wait"
                                 /\ ~ Mine(f).valid \/ (InFinish(f) /\ CbWakes)
              /\ Queued(f) => Mine(f).wq

LEMMA WakeUpParts == ASSUME asleep \subseteq Fds
                     PROVE  WakeUp <=> \A f \in Fds : WakesUp(f)
BY DEF WakeUp, NoLostWakeup, WakesUp, Queued, InFinish

LEMMA RoughSleeper ==
    ASSUME TypeInv, NEW f \in Fds, WakesUp(f), RoughStep(f)
    PROVE  f \notin asleep' \/ (Sleep(f) /\ UNCHANGED <<trans, file, at>>)
<1> USE Shapes2
<1>1. f \in asleep => at[f] = "wait"
  BY DEF WakesUp
<1>2. CASE Begin(f)
  <2>1. at[f] = "out" /\ asleep' = asleep
    BY <1>2 DEF TypeInv, OpStage, Begin, OpenToWrite, OpenToRead, StartRead, Write, Close, MayClose, WriteBack, fileVars
  <2>. QED BY <1>1, <2>1
<1>3. CASE Fill(f) \/ Number(f) \/ Pend(f) \/ OpenSends(f) \/ CloseSends(f) \/ RejectClose(f) \/ FailsToSend(f)
  <2>1. at[f] # "wait" /\ asleep' = asleep
    BY <1>3 DEF Fill, FillRequest, Number, TakeSeq, Pend, AddPending, OpenSends, CloseSends, SendRequest, RejectClose,
                RejectRequest, FailsToSend, OpenFailsToSend, CloseFailsToSend, FailToSend, fileVars
  <2>. QED BY <1>1, <2>1
<1>4. CASE FinishRead(f) \/ FinishClose(f) \/ Interrupt(f)
  BY <1>4 DEF FinishRead, FinishClose, Waiting, Interrupt, InterruptRead, InterruptClose
<1>5. CASE Sleep(f)
  BY <1>5 DEF Sleep, linkVars
<1>. QED BY <1>2, <1>3, <1>4, <1>5 DEF RoughStep, FileStep, Continue

\* Whoever may sleep has given its struct the wait queue.
LEMMA RoughQueue ==
    ASSUME TypeInv, ReadModes, NEW f \in Fds, WakesUp(f), RoughStep(f)
    PROVE  Queued(f)' => Mine(f)'.wq
<1> USE Shapes2
<1> SUFFICES ASSUME Queued(f)' PROVE Mine(f)'.wq
  OBVIOUS
<1>0. Queued(f) => IsOpen(f) /\ file[f].t \in Trans /\ Mine(f) \in Struct /\ Mine(f).wq
  BY DEF WakesUp, Queued, IsOpen, Mine
<1>1. CASE OpenToWrite(f) \/ \E mode \in Modes \ {"w"} : OpenToRead(f, mode)
  <2>1. CASE OpenToWrite(f)
    BY <2>1 DEF OpenToWrite, Opened, Queued
  <2>2. ASSUME NEW mode \in Modes \ {"w"}, OpenToRead(f, mode) PROVE Mine(f)'.wq
    <3>1. PICK t \in Trans : /\ trans' = [trans EXCEPT ![t] = [Zeroed EXCEPT !.rnw = TRUE, !.wq = TRUE]]
                             /\ Opened(f, "opening", mode, t)
      BY <2>2 DEF OpenToRead
    <3>. QED BY <3>1 DEF Opened, Mine, Zeroed
  <2>. QED BY <1>1, <2>1, <2>2
<1>2. CASE Close(f) \/ RejectClose(f) \/ FinishClose(f) \/ InterruptClose(f) \/ CloseFailsToSend(f)
  BY <1>2 DEF Close, RejectClose, FinishClose, InterruptClose, CloseFailsToSend, Released, Closed, Queued, IsOpen
<1>3. CASE WriteBack(f)
  <2>1. /\ file[f].t \in Trans /\ file'[f].t = file[f].t /\ Mine(f) \in Struct
        /\ trans' = [trans EXCEPT ![file[f].t] = Prepared(@)]
    BY <1>3 DEF WriteBack, MayClose, IsOpen, File, Mine
  <2>. QED BY <2>1 DEF Mine, Prepared, Struct
<1>4. CASE StartRead(f) \/ OpenSends(f) \/ OpenFailsToSend(f) \/ FinishRead(f) \/ InterruptRead(f)
  <2>1. /\ file[f].op # "closing" /\ IsOpen(f) /\ file'[f].mode = file[f].mode /\ file'[f].t = file[f].t
        /\ file'[f].op \in {"open", "reading"}
        /\ trans' = trans \/ trans' = [trans EXCEPT ![file[f].t] = [@ EXCEPT !.rnw = FALSE, !.valid = TRUE]]
    BY <1>4 DEF StartRead, OpenSends, SendRequest, OpenFailsToSend, FinishRead, InterruptRead, IsOpen, File
  <2>2. Queued(f)
    BY <2>1 DEF Queued
  <2>3. CASE trans' = trans
    BY <1>0, <2>1, <2>2, <2>3 DEF Mine
  <2>4. CASE trans' = [trans EXCEPT ![file[f].t] = [@ EXCEPT !.rnw = FALSE, !.valid = TRUE]]
    <3>1. trans'[file[f].t] = [Mine(f) EXCEPT !.rnw = FALSE, !.valid = TRUE]
      BY <1>0, <2>2, <2>4 DEF Mine
    <3>2. trans'[file[f].t].wq = Mine(f).wq
      BY <1>0, <2>2, <3>1 DEF Struct
    <3>. QED BY <1>0, <2>1, <2>2, <3>2 DEF Mine
  <2>. QED BY <2>1, <2>3, <2>4
<1>5. CASE Write(f) \/ Fill(f) \/ Number(f) \/ Pend(f) \/ CloseSends(f) \/ Sleep(f)
  <2>1. file' = file /\ Queued(f)
    BY <1>5 DEF Write, Fill, Number, Pend, CloseSends, Sleep, fileVars, Queued, IsOpen
  <2>2. CASE Write(f)
    <3>1. \E text \in Inputs : trans' = [trans EXCEPT ![file[f].t] = [@ EXCEPT !.text = text, !.dirty = TRUE]]
      BY <2>2 DEF Write
    <3>. QED BY <1>0, <2>1, <3>1 DEF Mine, Struct
  <2>3. CASE Pend(f)
    BY <1>0, <2>1, <2>3 DEF Pend, AddPending, Mine, Struct
  <2>4. CASE Fill(f) \/ Number(f) \/ CloseSends(f) \/ Sleep(f)
    <3>1. trans' = trans
      BY <2>4 DEF Fill, FillRequest, Number, TakeSeq, CloseSends, SendRequest, Sleep, linkVars
    <3>. QED BY <1>0, <2>1, <3>1 DEF Mine
  <2>. QED BY <1>5, <2>2, <2>3, <2>4
<1>. QED BY <1>1, <1>2, <1>3, <1>4, <1>5
     DEF RoughStep, FileStep, Begin, Continue, Interrupt, FailsToSend

LEMMA RoughFile ==
    ASSUME TypeInv, RoughInv, NEW f \in Fds, RoughStep(f), TypeInv'
    PROVE  ReadModes' /\ WakeUp'
<1> USE Shapes2
<1>0. \A g \in Fds : WakesUp(g)
  BY WakeUpParts DEF RoughInv, TypeInv, TypeOK, MgmtTypeOK
<1>1. ReadModes'
  <2>1. \A g \in Fds \ {f} : file'[g] = file[g]
    BY RoughOthers
  <2>2. file'[f].op \in {"opening", "reading"} => file'[f].mode # "w"
    <3>1. CASE \E mode \in Modes \ {"w"} : OpenToRead(f, mode)
      BY <3>1 DEF OpenToRead, Opened
    <3>2. CASE StartRead(f)
      BY <3>2 DEF StartRead, File
    <3>3. CASE \/ OpenToWrite(f) \/ Close(f) \/ RejectClose(f) \/ FinishClose(f) \/ InterruptClose(f)
               \/ CloseFailsToSend(f)
      BY <3>3 DEF OpenToWrite, Opened, Close, RejectClose, FinishClose, InterruptClose, CloseFailsToSend, Released, Closed
    <3>4. CASE WriteBack(f) \/ OpenSends(f) \/ OpenFailsToSend(f) \/ FinishRead(f) \/ InterruptRead(f)
      BY <3>4 DEF WriteBack, OpenSends, OpenFailsToSend, FinishRead, InterruptRead, File
    <3>5. CASE Write(f) \/ Fill(f) \/ Number(f) \/ Pend(f) \/ CloseSends(f) \/ Sleep(f)
      BY <3>5 DEF Write, Fill, Number, Pend, CloseSends, Sleep, fileVars, RoughInv, ReadModes
    <3>. QED BY <3>1, <3>2, <3>3, <3>4, <3>5
         DEF RoughStep, FileStep, Begin, Continue, Interrupt, FailsToSend
  <2>. QED BY <2>1, <2>2 DEF RoughInv, ReadModes
<1>2. ASSUME NEW g \in Fds \ {f} PROVE WakesUp(g)'
  <2>1. file'[g] = file[g] /\ at'[g] = at[g] /\ cb' = cb
    BY RoughOthers
  <2>2. IsOpen(g) => Mine(g)' = Mine(g)
    BY <2>1, RoughStructs DEF Mine, RoughInv
  <2>3. g \in asleep' => g \in asleep
    <3>1. asleep' \subseteq asleep \cup {f}
      BY DEF RoughStep, FileStep, Begin, OpenToWrite, OpenToRead, StartRead, Write, Close, WriteBack, Continue, Fill,
             Number, Pend, OpenSends, CloseSends, RejectClose, Sleep, FinishRead, FinishClose, Interrupt, InterruptRead,
             InterruptClose, FailsToSend, OpenFailsToSend, CloseFailsToSend, fileVars
    <3>. QED BY <3>1
  <2>4. at[g] = "wait" => IsOpen(g)
    BY StageOpen DEF IsOpen
  <2>5. Queued(g)' => Queued(g) /\ IsOpen(g)
    BY <2>1 DEF Queued, IsOpen
  <2>6. InFinish(g) /\ IsOpen(g) => InFinish(g)' /\ CbWakes' = CbWakes
    BY <2>1, <2>2 DEF InFinish, CbWakes, Mine
  <2>. QED BY <1>0, <2>1, <2>2, <2>3, <2>4, <2>5, <2>6 DEF WakesUp
<1>3. WakesUp(f)'
  <2>1. Queued(f)' => Mine(f)'.wq
    BY <1>0, RoughQueue DEF RoughInv
  <2>2. f \notin asleep' \/ (Sleep(f) /\ UNCHANGED <<trans, file, at>>)
    BY <1>0, RoughSleeper
  <2>3. Sleep(f) /\ UNCHANGED <<trans, file, at>> => at'[f] = "wait" /\ ~ Mine(f)'.valid
    BY DEF Sleep, Waiting, Mine
  <2>. QED BY <2>1, <2>2, <2>3 DEF WakesUp
<1>4. (asleep \subseteq Fds)'
  BY DEF TypeInv, TypeOK, MgmtTypeOK
<1>5. \A g \in Fds : WakesUp(g)'
  BY <1>2, <1>3
<1>6. WakeUp'
  BY <1>4, <1>5 DEF WakeUp, NoLostWakeup, WakesUp, Queued, InFinish
<1>. QED BY <1>1, <1>6


LEMMA RoughCallback ==
    ASSUME RoughInv, Callback
    PROVE  Places' /\ ReadModes' /\ WakeUp'
<1> USE Shapes2 DEF RoughInv
<1>1. UNCHANGED <<file, at, unused, heap>>
  BY CallbackRnw
<1>2. Places' /\ ReadModes'
  BY <1>1 DEF Places, ReadModes, IsOpen
<1>3. asleep \subseteq Fds /\ \A f \in Fds : WakesUp(f)
  BY WakeUpParts DEF TypeInv, TypeOK, MgmtTypeOK
<1>4. asleep' \subseteq asleep
  BY DEF Callback, fileVars, Wake
<1>5. ASSUME NEW f \in Fds PROVE WakesUp(f)'
  <2>1. Queued(f)' = Queued(f)
    BY <1>1 DEF Queued, IsOpen
  <2>2. f \in asleep => Queued(f) /\ IsOpen(f)
    <3>1. at[f] = "wait" => file[f].op \in {"reading", "closing"}
      BY DEF TypeInv, OpStage, File, Ops
    <3>. QED BY <1>3, <3>1 DEF WakesUp, Queued, ReadModes, IsOpen
  <2>3. Queued(f) => IsOpen(f) /\ file[f].t \in Trans /\ Mine(f) \in Struct /\ Mine(f).wq
    BY <1>3 DEF WakesUp, Queued, IsOpen, Mine
  <2> SUFFICES ASSUME Queued(f) PROVE WakesUp(f)'
    BY <1>4, <2>1, <2>2 DEF WakesUp
  <2>4. CASE (CbMatch \/ CbDrop) /\ UNCHANGED fileVars
    <3>1. trans' = trans /\ cb.pc = "idle" /\ asleep' = asleep
      BY <2>4 DEF CbMatch, CbDrop, fileVars
    <3>. QED BY <1>1, <1>3, <2>1, <3>1 DEF WakesUp, InFinish, Mine
  <2>5. CASE CbFill /\ UNCHANGED fileVars
    <3>1. /\ cb.pc = "fill" /\ cb.t \in Trans /\ cb.msg \in LinkResponse /\ asleep' = asleep
          /\ trans' = [trans EXCEPT ![cb.t] = Filled(trans[cb.t], cb.msg)]
          /\ cb'.pc = "finish" /\ cb'.t = cb.t
      BY <2>5 DEF CbFill, fileVars
    <3>2. CASE cb.t = file[f].t
      <4>1. Mine(f)' = Filled(Mine(f), cb.msg) /\ InFinish(f)' /\ CbWakes' = Mine(f)'.wq
        BY <1>1, <2>3, <3>1, <3>2 DEF Mine, InFinish, CbWakes
      <4>2. Filled(Mine(f), cb.msg).wq = Mine(f).wq
        BY <2>3, <3>1 DEF Filled, Struct
      <4>. QED BY <1>1, <1>3, <2>3, <3>1, <4>1, <4>2 DEF WakesUp
    <3>3. CASE cb.t # file[f].t
      <4>1. Mine(f)' = Mine(f) /\ ~ InFinish(f)
        BY <1>1, <2>3, <3>1, <3>3 DEF Mine, InFinish
      <4>. QED BY <1>1, <1>3, <2>1, <3>1, <4>1 DEF WakesUp
    <3>. QED BY <3>2, <3>3
  <2>6. CASE Wake
    <3>1. /\ cb.pc = "finish" /\ cb.t \in Trans /\ cb.msg \in LinkResponse
          /\ asleep' = IF CbWakes THEN {} ELSE asleep
          /\ trans' = [trans EXCEPT ![cb.t] = Finished(trans[cb.t], cb.msg)]
      BY <2>6 DEF Wake, CbFinish
    <3>2. f \in asleep' => at[f] = "wait" /\ ~ Mine(f).valid
      BY <1>3, <3>1 DEF WakesUp
    <3>3. Mine(f)' = Mine(f) \/ Mine(f)' = Finished(Mine(f), cb.msg)
      BY <1>1, <2>3, <3>1 DEF Mine
    <3>4. Finished(Mine(f), cb.msg).wq = Mine(f).wq /\ Finished(Mine(f), cb.msg).valid = Mine(f).valid
      BY <2>3, <3>1 DEF Finished, Struct
    <3>. QED BY <1>1, <2>3, <3>2, <3>3, <3>4 DEF WakesUp
  <2>. QED BY <2>4, <2>5, <2>6 DEF Callback
<1>6. WakeUp'
  BY <1>3, <1>4, <1>5 DEF WakeUp, NoLostWakeup, WakesUp, Queued, InFinish
<1>. QED BY <1>2, <1>6

LEMMA RoughStays ==
    ASSUME RoughInv, UNCHANGED <<trans, unused, heap, at, cb, file, asleep>>
    PROVE  Places' /\ ReadModes' /\ WakeUp'
BY DEF RoughInv, Places, ReadModes, WakeUp, NoLostWakeup, Mine, CbWakes, IsOpen

LEMMA RoughKept == RoughInv /\ [LossyNext]_vars => RoughInv'
<1> SUFFICES ASSUME RoughInv, [LossyNext]_vars PROVE RoughInv'
  OBVIOUS
<1>1. TypeInv /\ TypeInv'
  BY RoughType DEF RoughInv
<1>2. CASE \E f \in Fds : RoughStep(f)
  BY <1>1, <1>2, RoughPlaces, RoughFile DEF RoughInv
<1>3. CASE Callback
  BY <1>1, <1>3, RoughCallback DEF RoughInv
<1>4. CASE Firmware
  <2>1. UNCHANGED <<trans, unused, heap, at, cb, file, asleep>>
    BY <1>4 DEF Firmware, fileVars
  <2>. QED BY <1>1, <2>1, RoughStays DEF RoughInv
<1>5. CASE UNCHANGED mgmtVars
  <2>1. UNCHANGED <<trans, unused, heap, at, cb, file, asleep>>
    BY <1>5 DEF mgmtVars, linkVars, fileVars
  <2>. QED BY <1>1, <2>1, RoughStays DEF RoughInv
<1>. QED BY <1>2, <1>3, <1>4, <1>5 DEF LossyNext, Next, Linux, Application, vars, RoughStep, FileStep

LEMMA RoughHolds == LossySpec => []RoughInv
<1>1. Init => RoughInv
  <2> SUFFICES ASSUME Init PROVE RoughInv
    OBVIOUS
  <2>1. TypeInv
    BY InitType
  <2>2. unused \cap heap = {} /\ asleep = {} /\ \A f \in Fds : file[f] = Closed
    BY DEF Init, MgmtInit, LinkInit
  <2>. QED BY <2>1, <2>2 DEF RoughInv, Places, ReadModes, WakeUp, NoLostWakeup, Closed, IsOpen
<1>. QED BY <1>1, RoughKept, PTL DEF LossySpec

\* As long as the lists are intact no process sleeps on usr_wait_q for a response
\* that is already there: cfg_mgmt_rpmsg_cb stores valid before it wakes the queue,
\* and every struct that a process waits for has the queue.
THEOREM RoughWakeup == LossySpec => []NoLostWakeup
<1>1. RoughInv => NoLostWakeup
  BY DEF RoughInv, WakeUp
<1>. QED BY <1>1, RoughHolds, PTL

\* As long as the lists are intact the one operation that forgets a struct is a
\* close that fails (debugfs_release_var returns early after an error or a signal).
THEOREM ForgottenHolds == LossySpec => ForgottenByFailedClose
<1>1. RoughInv /\ [LossyNext]_vars =>
         [\A t \in Accounted \ Accounted' :
             \E f \in Fds : /\ file[f].op = "closing" /\ file[f].t = t
                            /\ out'[f].kind = "failed"]_vars
  <2> SUFFICES ASSUME RoughInv, [LossyNext]_vars, NEW t \in Accounted, t \notin Accounted'
               PROVE  \E f \in Fds : file[f].op = "closing" /\ file[f].t = t /\ out'[f].kind = "failed"
    OBVIOUS
  <2>1. ASSUME UNCHANGED <<unused, heap, file>> PROVE FALSE
    BY <2>1 DEF Accounted, Held, IsOpen
  <2>2. ~ Callback
    BY <2>1, CallbackRnw DEF RoughInv
  <2>3. PICK f \in Fds : RoughStep(f)
    BY <2>1, <2>2 DEF LossyNext, Next, Linux, Firmware, Application, vars, mgmtVars, linkVars, fileVars, RoughStep, FileStep
  <2>4. \A g \in Fds \ {f} : file'[g] = file[g]
    BY <2>3, RoughOthers DEF RoughInv
  <2>5. t \in unused \cup heap \/ \E g \in Fds : IsOpen(g) /\ file[g].t = t
    BY DEF Accounted, Held
  <2>6. t \notin unused' \cup heap' /\ \A g \in Fds : IsOpen(g)' => file'[g].t # t
    BY DEF Accounted, Held
  <2>7. ASSUME NEW g \in Fds \ {f}, IsOpen(g), file[g].t = t PROVE FALSE
    BY <2>4, <2>6, <2>7 DEF IsOpen
  <2>8. t \in unused \cup heap \/ (IsOpen(f) /\ file[f].t = t)
    BY <2>5, <2>7
  <2>9. Forgets(f)
    BY <2>3, <2>6, <2>8, StructMoves DEF RoughInv, Takes, Alloc, Keeps, Returns, Return
  <2>. QED BY <2>6, <2>8, <2>9 DEF Forgets
<1>. QED BY <1>1, RoughHolds, PTL DEF LossySpec, ForgottenByFailedClose

\* When the bus does not take a request, only the open for reading goes on to
\* something that can still end well: a read that a signal ends.
LEMMA UnsentSafe ==
    ASSUME Inv, NEW f \in Fds, FailsToSend(f), ~ GoesOnUnsent(f)
    PROVE  Places' /\ Flight' /\ Ready' /\ WakeUp'
<1> USE Shapes DEF Inv
<1>1. at[f] = "send" /\ at' = [at EXCEPT ![f] = "out"] /\ UNCHANGED toBm
  BY DEF FailsToSend, OpenFailsToSend, CloseFailsToSend, FailToSend
<1>2. ~ CloseFailsToSend(f)
  <2>1. ASSUME CloseFailsToSend(f) PROVE file[f].op = "closing" /\ file'[f].op = "closed"
    BY <2>1 DEF CloseFailsToSend, Released, Closed
  <2>. QED BY <1>1, <2>1 DEF GoesOnUnsent
<1>3. OpenFailsToSend(f)
  BY <1>2 DEF FailsToSend
<1>4. file[f].op = "opening" /\ file' = [file EXCEPT ![f].op = "open"]
  BY <1>3 DEF OpenFailsToSend
<1>5. file'[f].op = "open"
  BY <1>4 DEF File
<1>6. file[f].mode # "rw"
  BY <1>1, <1>4, <1>5 DEF GoesOnUnsent
<1>7. UNCHANGED <<trans, unused, heap, pending, cb, asleep>>
  BY <1>3, <1>6 DEF OpenFailsToSend
<1>8. file[f].mode # "w" /\ ~ file[f].read /\ f \notin asleep
  BY <1>1, <1>4 DEF SafeInv, Ready, WakeUp
<1>9. Places'
  BY <1>4, <1>7 DEF SafeInv, Places, IsOpen, File
<1>10. Flight'
  BY <1>1, <1>4, <1>7, <1>8 DEF SafeInv, Flight, OpStage, IsOpen, Awaiting, Mine, File
<1>11. Ready'
  BY <1>1, <1>4, <1>7 DEF SafeInv, Ready, IsOpen, Mine, File
<1>12. WakeUp'
  BY <1>1, <1>4, <1>7, <1>8 DEF SafeInv, WakeUp, NoLostWakeup, IsOpen, Mine, CbWakes, File
<1>. QED BY <1>9, <1>10, <1>11, <1>12

\* As long as the lists are intact, the whereabouts of the structs, the responses
\* under way and the wake-ups go together until a file is closed unread or goes on
\* with a struct whose request was not sent (debugfs_release_var, debugfs_open_var).
THEOREM ReleasedHolds == LossySpec => SafeUnlessReleased
<1>1. TypeInv /\ [LossyNext]_vars =>
         [SafeInv => SafeInv' \/ \E f \in Fds : ClosesUnread(f) \/ GoesOnUnsent(f)]_vars
  <2> SUFFICES ASSUME TypeInv, [LossyNext]_vars, SafeInv,
                      \A f \in Fds : ~ ClosesUnread(f) /\ ~ GoesOnUnsent(f)
               PROVE  SafeInv'
    OBVIOUS
  <2>1. Inv
    BY DEF Inv
  <2>2. OpStage'
    BY RoughType DEF TypeInv
  <2>3. CASE \E f \in Fds : FailsToSend(f)
    BY <2>1, <2>2, <2>3, UnsentSafe DEF SafeInv
  <2>4. CASE Linux
    BY <2>1, <2>2, <2>4, BeginSafe, ContinueSafe, InterruptSafe, CallbackSafe DEF Linux, SafeInv
  <2>5. CASE UNCHANGED <<trans, unused, heap, pending, at, cb, file, asleep>>
    BY <2>2, <2>5 DEF SafeInv, Places, Flight, Ready, WakeUp, NoLostWakeup, IsOpen, Awaiting, Mine, CbWakes
  <2>6. CASE Firmware
    BY <2>5, <2>6 DEF Firmware, fileVars
  <2>7. CASE Application
    BY <2>5, <2>7 DEF Application, mgmtVars, linkVars, fileVars
  <2>8. CASE UNCHANGED vars
    BY <2>5, <2>8 DEF vars, mgmtVars, linkVars, fileVars
  <2>. QED BY <2>3, <2>4, <2>6, <2>7, <2>8 DEF LossyNext, Next
<1>2. RoughInv => TypeInv
  BY DEF RoughInv
<1>. QED BY <1>1, <1>2, RoughHolds, PTL DEF LossySpec, SafeUnlessReleased

=============================================================================
