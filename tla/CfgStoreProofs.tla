---------------------------- MODULE CfgStoreProofs ----------------------------
(***************************************************************************)
(* Proof that the variable files implement VarStore: every operation that  *)
(* needs the firmware takes effect at one instant between its beginning    *)
(* and its end.                                                            *)
(***************************************************************************)
EXTENDS CfgDataProofs

(***************************************************************************)
(* The inductive invariant adds to the one of CfgDataProofs what a write   *)
(* needs: while it is under way it carries what was written to its file,   *)
(* and is answered with OK.                                                *)
(***************************************************************************)
Copied(f) == at[f] \in {"seq", "pend", "send"} => req.val = Mine(f).text.val
CopyInv == \A f \in Fds : file[f].op = "closing" => Copied(f)

Puts(m, f) == m.type = "WR" /\ m.ind = Path[f].ind /\ m.val = Mine(f).text.val

WriteOf(f) ==
    /\ file[f].t \in pending =>
          /\ \A k \in 1 .. Len(toBm) : toBm[k].seq = Mine(f).seq => Puts(toBm[k], f)
          /\ \A k \in 1 .. Len(toLinux) : toLinux[k].seq = Mine(f).seq => toLinux[k].type = "OK"
    /\ cb.pc = "fill" /\ cb.t = file[f].t => cb.msg.type = "OK"

WriteInv == \A f \in Fds : file[f].op = "closing" => WriteOf(f)

\* What is to be written back is what debugfs_write_var has put into the buffer.
Written == \A f \in Fds :
    \/ file[f].op = "open" /\ file[f].mode = "w" /\ Mine(f).dirty
    \/ file[f].op = "closing" /\ at[f] = "fill"
    => Mine(f).text \in Inputs

\* A response that is awaited is still to come.
Expected(f) == file[f].t \in pending \/ (cb.pc = "fill" /\ cb.t = file[f].t)
ExpectInv == \A f \in Fds : Awaiting(f) /\ ~ Mine(f).valid => Expected(f)

\* The application registers no callback here.
Plain == \A i \in Idx : rdCb[i] = "none"

StoreInv == NoErrors /\ CopyInv /\ WriteInv /\ Written /\ ExpectInv /\ Plain

(***************************************************************************)
(* Writes under way.                                                       *)
(***************************************************************************)
\* Whose response is under way awaits it, and its struct is not valid.
LEMMA Due ==
    ASSUME Inv, NEW f \in Fds, IsOpen(f), Expected(f)
    PROVE  Awaiting(f) /\ ~ Mine(f).valid
BY DEF Inv, SafeInv, Flight, Expected

\* Before a request is listed nobody awaits its response.
LEMMA NotYet ==
    ASSUME Inv, NEW f \in Fds, at[f] \in {"fill", "seq", "pend"}
    PROVE  IsOpen(f) /\ ~ Awaiting(f) /\ ~ Expected(f)
<1>1. file[f].op \in {"opening", "closing"} /\ IsOpen(f)
  BY Shapes2 DEF Inv, SafeInv, OpStage, File, Ops, IsOpen
<1>2. ~ Awaiting(f)
  BY <1>1 DEF Awaiting
<1>. QED BY <1>1, <1>2, Due

\* Nor while a file that is opened for writing is open.
LEMMA WriterIdle ==
    ASSUME Inv, NEW f \in Fds, file[f].op = "open", file[f].mode = "w"
    PROVE  ~ Awaiting(f) /\ ~ Expected(f)
<1>1. ~ Awaiting(f) /\ IsOpen(f)
  BY DEF Awaiting, IsOpen
<1>. QED BY <1>1, Due

\* The request is its file's alone from the time it is filled.
LEMMA ReqKept ==
    ASSUME Inv, Lone, NEW f \in Fds, FileStep(f), NEW g \in Fds \ {f}, InAccess(g)
    PROVE  req' = req
<1>1. at[f] \notin {"fill", "seq", "pend", "send"}
  BY DEF Lone, InAccess
<1>2. CASE Begin(f)
  BY <1>2 DEF Begin, OpenToWrite, OpenToRead, StartRead, Write, Close, WriteBack
<1>3. CASE Continue(f)
  BY <1>1, <1>3 DEF Continue, Fill, FillRequest, Number, TakeSeq, Pend, AddPending, OpenSends, CloseSends, SendRequest,
                    RejectClose, RejectRequest, Sleep, linkVars, FinishRead, FinishClose
<1>4. CASE Interrupt(f)
  BY <1>4 DEF Interrupt, InterruptRead, InterruptClose
<1>. QED BY <1>2, <1>3, <1>4 DEF FileStep

LEMMA WriteKept ==
    ASSUME WriteInv, NEW g \in Fds, file[g].op = "closing",
           file'[g] = file[g], Mine(g)' = Mine(g), at'[g] = at[g], cb' = cb, toLinux' = toLinux,
           toBm \in Seq(LinkRequest), file[g].t \in pending' => file[g].t \in pending,
           \/ toBm' = toBm
           \/ toBm' = Append(toBm, req) /\ (file[g].t \in pending => Mine(g).seq # req.seq)
    PROVE  WriteOf(g)'
<1>1. WriteOf(g)
  BY DEF WriteInv
<1>2. ASSUME file'[g].t \in pending', NEW k \in 1 .. Len(toBm'), toBm'[k].seq = Mine(g)'.seq
      PROVE  Puts(toBm'[k], g)
  <2>1. file[g].t \in pending
    BY <1>2
  <2>2. CASE toBm' = toBm
    BY <1>1, <1>2, <2>1, <2>2 DEF WriteOf
  <2>3. CASE toBm' = Append(toBm, req) /\ Mine(g).seq # req.seq
    <3>1. (k \in 1 .. Len(toBm) /\ toBm'[k] = toBm[k]) \/ toBm'[k] = req
      BY <1>2, <2>3
    <3>. QED BY <1>1, <1>2, <2>1, <2>3, <3>1 DEF WriteOf
  <2>. QED BY <2>1, <2>2, <2>3
<1>3. file'[g].t \in pending' =>
         \A k \in 1 .. Len(toLinux') : toLinux'[k].seq = Mine(g)'.seq => toLinux'[k].type = "OK"
  BY <1>1 DEF WriteOf
<1>. QED BY <1>1, <1>2, <1>3 DEF WriteOf, Puts

LEMMA WriteFile ==
    ASSUME OneWay, Inv, WayInv, Window, Paired, CopyInv, WriteInv, NEW f \in Fds, FileStep(f)
    PROVE  WriteInv'
<1> USE Shapes2 DEF Inv
<1>1. ASSUME NEW g \in Fds \ {f}, file'[g].op = "closing" PROVE WriteOf(g)'
  <2>1. file'[g] = file[g] /\ at'[g] = at[g] /\ cb' = cb /\ toLinux' = toLinux
    BY OthersStay
  <2>2. IsOpen(g) /\ file[g].op = "closing"
    BY <1>1, <2>1 DEF IsOpen
  <2>3. Mine(g)' = Mine(g)
    BY <2>1, <2>2, OtherStructs DEF Mine
  <2>4. /\ file[g].t \in pending' => file[g].t \in pending
        /\ \/ toBm' = toBm
           \/ toBm' = Append(toBm, req) /\ (file[g].t \in pending => Mine(g).seq # req.seq)
    BY <2>2, ListsKept DEF OneWay
  <2>. QED BY <2>1, <2>2, <2>3, <2>4, WriteKept
<1>2. ASSUME file'[f].op = "closing" PROVE WriteOf(f)'
  <2>0. cb' = cb /\ toLinux' = toLinux
    BY OthersStay
  <2>1. CASE WriteBack(f)
    <3>1. /\ file[f].op = "open" /\ file[f].mode # "r" /\ IsOpen(f) /\ pending' = pending
          /\ at'[f] = "fill" /\ file'[f].t = file[f].t
      BY <2>1 DEF WriteBack, MayClose, ToWriteBack, Enter, IsOpen, File
    <3>2. ~ Expected(f)
      BY <3>1, WriterIdle DEF WayInv, Direction
    <3>. QED BY <2>0, <3>1, <3>2 DEF WriteOf, Expected
  <2>2. CASE Fill(f)
    <3>1. /\ at[f] = "fill" /\ file' = file /\ trans' = trans /\ pending' = pending
      BY <2>2 DEF Fill, FillRequest, fileVars
    <3>2. ~ Expected(f)
      BY <3>1, NotYet
    <3>. QED BY <2>0, <3>1, <3>2 DEF WriteOf, Expected, Mine
  <2>3. CASE Number(f)
    <3>1. at[f] = "seq" /\ file' = file /\ trans' = trans /\ pending' = pending
      BY <2>3 DEF Number, TakeSeq, fileVars
    <3>2. ~ Expected(f) /\ WriteOf(f)
      BY <1>2, <3>1, NotYet DEF WriteInv
    <3>. QED BY <2>0, <3>1, <3>2 DEF WriteOf, Expected, Mine
  <2>4. CASE Pend(f)
    <3>1. /\ at[f] = "pend" /\ file' = file /\ file[f].t \in Trans /\ toBm' = toBm /\ req' = req
          /\ trans' = [trans EXCEPT ![file[f].t].seq = req.seq]
      BY <2>4, StageOpen DEF Pend, AddPending, fileVars
    <3>2. Mine(f)'.text = Mine(f).text /\ Mine(f)'.seq = req.seq
      BY <3>1 DEF Mine, Struct
    <3>3. req.seq \notin SeqsUnderWay
      BY <3>1, FreshSeq DEF Numbered
    <3>4. ~ Expected(f) /\ WriteOf(f)
      BY <1>2, <3>1, NotYet DEF WriteInv
    <3>5. /\ \A k \in 1 .. Len(toBm) : toBm[k].seq # Mine(f)'.seq
          /\ \A k \in 1 .. Len(toLinux) : toLinux[k].seq # Mine(f)'.seq
      BY <3>2, <3>3 DEF SeqsUnderWay
    <3>. QED BY <2>0, <3>1, <3>2, <3>4, <3>5 DEF WriteOf, Expected
  <2>5. CASE CloseSends(f)
    <3>1. /\ at[f] = "send" /\ file' = file /\ trans' = trans /\ pending' = pending
          /\ toBm' = Append(toBm, req) /\ at'[f] = "wait" /\ file[f].op = "closing" /\ IsOpen(f)
      BY <2>5 DEF CloseSends, SendRequest, fileVars, IsOpen
    <3>2. WriteOf(f) /\ Copied(f)
      BY <3>1 DEF WriteInv, CopyInv
    <3>3. Puts(req, f)
      BY <3>1, <3>2 DEF Copied, Puts, WayInv, ReqInv, Asking, Asks, Direction
    <3>4. ASSUME NEW k \in 1 .. Len(toBm'), file[f].t \in pending, toBm'[k].seq = Mine(f).seq
          PROVE  Puts(toBm'[k], f)
      <4>1. (k \in 1 .. Len(toBm) /\ toBm'[k] = toBm[k]) \/ toBm'[k] = req
        BY <3>1, <3>4
      <4>. QED BY <3>2, <3>3, <3>4, <4>1 DEF WriteOf
    <3>. QED BY <2>0, <3>1, <3>2, <3>4 DEF WriteOf, Puts, Mine
  <2>6. CASE Sleep(f)
    <3>1. UNCHANGED <<file, trans, pending, at, toBm, req>> /\ WriteOf(f)
      BY <1>2, <2>6 DEF Sleep, linkVars, WriteInv
    <3>. QED BY <2>0, <3>1 DEF WriteOf, Puts, Mine
  <2>7. CASE OpenToWrite(f) \/ \E mode \in Modes \ {"w"} : OpenToRead(f, mode)
    BY <1>2, <2>7 DEF OpenToWrite, OpenToRead, Opened
  <2>8. CASE StartRead(f) \/ OpenSends(f) \/ FinishRead(f) \/ InterruptRead(f)
    <3>1. file'[f].op \in {"open", "reading"}
      BY <2>8 DEF StartRead, OpenSends, FinishRead, InterruptRead, File
    <3>. QED BY <1>2, <3>1
  <2>10. CASE Write(f)
    BY <1>2, <2>10 DEF Write, fileVars
  <2>9. CASE Close(f) \/ RejectClose(f) \/ FinishClose(f) \/ InterruptClose(f)
    BY <1>2, <2>9 DEF Close, RejectClose, FinishClose, InterruptClose, Released, Closed
  <2>. QED BY <2>1, <2>2, <2>3, <2>4, <2>5, <2>6, <2>7, <2>8, <2>9, <2>10
       DEF FileStep, Begin, Continue, Interrupt
<1>. QED BY <1>1, <1>2 DEF WriteInv

LEMMA WriteFirmware ==
    ASSUME NothingFails, Inv, WriteInv, Firmware
    PROVE  WriteInv'
<1> USE Shapes2 DEF Inv
<1>1. /\ toBm # <<>> /\ toLinux' = Append(toLinux, rep') /\ toBm' = Tail(toBm) /\ rep'.seq = toBm[1].seq
      /\ UNCHANGED <<trans, pending, req, at, cb, file>>
  BY ReplySeq
<1> SUFFICES ASSUME NEW f \in Fds, file[f].op = "closing" PROVE WriteOf(f)'
  BY <1>1 DEF WriteInv
<1>2. WriteOf(f) /\ Mine(f)' = Mine(f)
  BY <1>1 DEF WriteInv, Mine
<1>3. Puts(toBm[1], f) => rep'.type = "OK"
  <2> SUFFICES ASSUME Puts(toBm[1], f) PROVE rep'.type = "OK"
    OBVIOUS
  <2> DEFINE r == Head(toBm)
  <2>1. r.type = "WR" /\ r.ind \in Idx /\ config_msg_handler(r)
    BY DEF Puts, Firmware, NothingFails
  <2>2. HandleWrite(r)
    BY <2>1 DEF config_msg_handler, HandleNop, HandleNVars, HandleBadIndex, HandleRead, HandleLimit, HandleText,
                HandleUnknown
  <2>. QED BY <2>2 DEF HandleWrite, Reply
<1>4. ASSUME file[f].t \in pending, NEW k \in 1 .. Len(toBm'), toBm'[k].seq = Mine(f).seq
      PROVE  Puts(toBm'[k], f)
  <2>1. k + 1 \in 1 .. Len(toBm) /\ toBm'[k] = toBm[k + 1]
    BY <1>1
  <2>. QED BY <1>2, <1>4, <2>1 DEF WriteOf
<1>5. ASSUME file[f].t \in pending, NEW k \in 1 .. Len(toLinux'), toLinux'[k].seq = Mine(f).seq
      PROVE  toLinux'[k].type = "OK"
  <2>1. (k \in 1 .. Len(toLinux) /\ toLinux'[k] = toLinux[k]) \/ toLinux'[k] = rep'
    BY <1>1
  <2>2. toBm[1].seq = Mine(f).seq => Puts(toBm[1], f)
    <3>1. 1 \in 1 .. Len(toBm)
      BY <1>1
    <3>. QED BY <1>2, <1>5, <3>1 DEF WriteOf
  <2>. QED BY <1>1, <1>2, <1>3, <1>5, <2>1, <2>2 DEF WriteOf
<1>6. file'[f] = file[f] /\ pending' = pending /\ cb' = cb
  BY <1>1
<1>. QED BY <1>2, <1>4, <1>5, <1>6 DEF WriteOf, Puts, Mine

LEMMA WriteCallback ==
    ASSUME Inv, WriteInv, Callback
    PROVE  WriteInv'
<1> USE Shapes2 DEF Inv
<1>1. UNCHANGED <<file, at, req, toBm>> /\ \A t \in Trans : trans'[t].seq = trans[t].seq
  BY CallbackRnw
<1> SUFFICES ASSUME NEW f \in Fds, file[f].op = "closing" PROVE WriteOf(f)'
  BY <1>1 DEF WriteInv
<1>2. WriteOf(f) /\ IsOpen(f) /\ file[f].t \in Trans /\ Mine(f) \in Struct
  BY DEF WriteInv, IsOpen, Mine
<1>3. CASE (CbMatch \/ CbDrop) /\ UNCHANGED fileVars
  <2>1. toLinux # <<>> /\ toLinux' = Tail(toLinux) /\ trans' = trans /\ cb.pc = "idle" /\ pending' \subseteq pending
    BY <1>3 DEF CbMatch, CbDrop, Unlink
  <2>2. ASSUME file[f].t \in pending', NEW k \in 1 .. Len(toLinux'), toLinux'[k].seq = Mine(f).seq
        PROVE  toLinux'[k].type = "OK"
    <3>1. k + 1 \in 1 .. Len(toLinux) /\ toLinux'[k] = toLinux[k + 1]
      BY <2>1
    <3>. QED BY <1>2, <2>1, <2>2, <3>1 DEF WriteOf
  <2>3. cb'.pc = "fill" /\ cb'.t = file[f].t => cb'.msg.type = "OK"
    <3> SUFFICES ASSUME cb'.pc = "fill", cb'.t = file[f].t PROVE cb'.msg.type = "OK"
      OBVIOUS
    <3>1. file[f].t \in pending /\ Mine(f).seq = toLinux[1].seq /\ cb'.msg = toLinux[1]
      BY <1>3, <2>1 DEF CbMatch, CbDrop, Matches, Mine
    <3>2. 1 \in 1 .. Len(toLinux)
      BY <2>1
    <3>. QED BY <1>2, <3>1, <3>2 DEF WriteOf
  <2>4. Mine(f)' = Mine(f)
    BY <1>1, <2>1 DEF Mine
  <2>. QED BY <1>1, <1>2, <2>1, <2>2, <2>3, <2>4 DEF WriteOf, Puts
<1>4. CASE CbFill /\ UNCHANGED fileVars
  <2>1. /\ cb.pc = "fill" /\ cb.t \in Trans /\ cb'.pc = "finish" /\ UNCHANGED <<pending, toLinux>>
        /\ trans' = [trans EXCEPT ![cb.t] = Filled(trans[cb.t], cb.msg)]
    BY <1>4 DEF CbFill
  <2>2. CASE cb.t = file[f].t
    <3>1. Expected(f) /\ file[f].t \notin pending
      BY <2>1, <2>2 DEF Expected, SafeInv, Flight
    <3>. QED BY <1>1, <2>1, <3>1 DEF WriteOf
  <2>3. CASE cb.t # file[f].t
    <3>1. Mine(f)' = Mine(f)
      BY <1>1, <1>2, <2>1, <2>3 DEF Mine
    <3>. QED BY <1>1, <1>2, <2>1, <3>1 DEF WriteOf, Puts
  <2>. QED BY <2>2, <2>3
<1>5. CASE Wake
  <2>1. /\ cb.pc = "finish" /\ cb.t \in Trans /\ cb.msg \in LinkResponse
        /\ trans' = [trans EXCEPT ![cb.t] = Finished(trans[cb.t], cb.msg)]
        /\ cb'.pc = "idle" /\ UNCHANGED <<pending, toLinux>>
    BY <1>5 DEF Wake, CbFinish, CbIdle
  <2>2. Mine(f)'.text = Mine(f).text /\ Mine(f)'.seq = Mine(f).seq
    BY <1>1, <1>2, <2>1, FinishedIs DEF Mine
  <2>. QED BY <1>1, <1>2, <2>1, <2>2 DEF WriteOf, Puts
<1>. QED BY <1>3, <1>4, <1>5 DEF Callback

(***************************************************************************)
(* The number in the static request is the one written to the file that is *)
(* being closed: before its request is listed no response can change the   *)
(* text, and afterwards none has its sequence number.                      *)
(***************************************************************************)
LEMMA CopyFile ==
    ASSUME OneWay, Inv, WayInv, CopyInv, NEW f \in Fds, FileStep(f)
    PROVE  CopyInv'
<1> USE Shapes2 DEF Inv
<1>1. ASSUME NEW g \in Fds \ {f}, file'[g].op = "closing", at'[g] \in {"seq", "pend", "send"}
      PROVE  req'.val = Mine(g)'.text.val
  <2>1. file'[g] = file[g] /\ at'[g] = at[g]
    BY OthersStay
  <2>2. IsOpen(g) /\ req.val = Mine(g).text.val
    BY <1>1, <2>1 DEF IsOpen, CopyInv, Copied
  <2>3. Mine(g)' = Mine(g)
    BY <2>1, <2>2, OtherStructs DEF Mine
  <2>4. req' = req
    BY <1>1, <2>1, ReqKept DEF WayInv, InAccess
  <2>. QED BY <2>2, <2>3, <2>4
<1>2. ASSUME file'[f].op = "closing", at'[f] \in {"seq", "pend", "send"}
      PROVE  req'.val = Mine(f)'.text.val
  <2>1. CASE Fill(f)
    <3>1. /\ at[f] = "fill" /\ file' = file /\ trans' = trans
          /\ req'.val = IF Wanted(f) = "WR" THEN Mine(f).text.val ELSE 0
      BY <2>1 DEF Fill, FillRequest, fileVars, LinkRequest
    <3>2. Wanted(f) = "WR"
      BY <1>2, <3>1, NotYet DEF WayInv, Direction, Wanted
    <3>. QED BY <3>1, <3>2 DEF Mine
  <2>2. CASE Number(f) \/ Sleep(f)
    <3>1. file' = file /\ trans' = trans /\ req'.val = req.val /\ at[f] \in {"seq", "pend", "send"}
      BY <1>2, <2>2 DEF Number, TakeSeq, Sleep, linkVars, fileVars, LinkRequest
    <3>. QED BY <1>2, <3>1 DEF Mine, CopyInv, Copied
  <2>3. CASE Pend(f)
    <3>1. /\ at[f] = "pend" /\ file' = file /\ file[f].t \in Trans /\ req' = req
          /\ trans' = [trans EXCEPT ![file[f].t].seq = req.seq]
      BY <2>3, StageOpen DEF Pend, AddPending, fileVars
    <3>2. Mine(f)'.text = Mine(f).text
      BY <3>1 DEF Mine, Struct
    <3>. QED BY <1>2, <3>1, <3>2 DEF CopyInv, Copied
  <2>4. CASE ~ (Fill(f) \/ Number(f) \/ Sleep(f) \/ Pend(f))
    <3>1. CASE Begin(f)
      <4>1. at[f] \in {"out", "wait"} \/ file[f].op \in {"opening", "reading", "closing"}
        BY DEF SafeInv, OpStage, File, Ops
      <4>. QED BY <1>2, <3>1, <4>1
           DEF Begin, OpenToWrite, OpenToRead, Enter, StartRead, Write, Close, MayClose, WriteBack
    <3>2. CASE Continue(f) \/ Interrupt(f)
      BY <1>2, <2>4, <3>2 DEF Continue, OpenSends, CloseSends, SendRequest, RejectClose, RejectRequest, FinishRead,
                              FinishClose, Interrupt, InterruptRead, InterruptClose, Leave
    <3>. QED BY <3>1, <3>2 DEF FileStep
  <2>. QED BY <2>1, <2>2, <2>3, <2>4
<1>. QED BY <1>1, <1>2 DEF CopyInv, Copied

LEMMA CopyCallback ==
    ASSUME Inv, Paired, CopyInv, Callback
    PROVE  CopyInv'
<1> USE Shapes2 DEF Inv
<1>1. UNCHANGED <<file, at, req>>
  BY CallbackRnw
<1> SUFFICES ASSUME NEW f \in Fds, file[f].op = "closing", at[f] \in {"seq", "pend", "send"}
             PROVE  Mine(f)'.text = Mine(f).text
  BY <1>1 DEF CopyInv, Copied
<1>2. IsOpen(f) /\ file[f].t \in Trans /\ Mine(f) \in Struct
  BY DEF IsOpen, Mine
<1>3. CASE CbMatch \/ CbDrop
  BY <1>1, <1>3 DEF CbMatch, CbDrop, Mine
<1>4. CASE CbFill
  <2>1. cb.pc = "fill" /\ cb.t \in Trans /\ trans' = [trans EXCEPT ![cb.t] = Filled(trans[cb.t], cb.msg)]
    BY <1>4 DEF CbFill
  <2>2. cb.t # file[f].t
    <3>1. CASE at[f] = "send"
      BY <2>1, <3>1 DEF Paired, SafeInv, Flight
    <3>2. CASE at[f] \in {"seq", "pend"}
      BY <2>1, <3>2, NotYet DEF Expected
    <3>. QED BY <3>1, <3>2
  <2>. QED BY <1>1, <1>2, <2>1, <2>2 DEF Mine
<1>5. CASE Wake
  <2>1. /\ cb.t \in Trans /\ cb.msg \in LinkResponse
        /\ trans' = [trans EXCEPT ![cb.t] = Finished(trans[cb.t], cb.msg)]
    BY <1>5 DEF Wake, CbFinish
  <2>. QED BY <1>1, <1>2, <2>1, FinishedIs DEF Mine
<1>. QED BY <1>3, <1>4, <1>5 DEF Callback

(***************************************************************************)
(* What is to be written back.                                             *)
(***************************************************************************)
ToBeWritten(f) == \/ file[f].op = "open" /\ file[f].mode = "w" /\ Mine(f).dirty
                  \/ file[f].op = "closing" /\ at[f] = "fill"

LEMMA WrittenFile ==
    ASSUME Inv, WayInv, Written, NEW f \in Fds, FileStep(f)
    PROVE  Written'
<1> USE Shapes2 DEF Inv
<1>1. ASSUME NEW g \in Fds \ {f}, ToBeWritten(g)' PROVE Mine(g)'.text \in Inputs
  <2>1. file'[g] = file[g] /\ at'[g] = at[g]
    BY OthersStay
  <2>2. IsOpen(g)
    BY <1>1, <2>1 DEF ToBeWritten, IsOpen
  <2>3. Mine(g)' = Mine(g)
    BY <2>1, <2>2, OtherStructs DEF Mine
  <2>. QED BY <1>1, <2>1, <2>3 DEF ToBeWritten, Written
<1>2. ASSUME ToBeWritten(f)' PROVE Mine(f)'.text \in Inputs
  <2>1. CASE OpenToWrite(f)
    <3>1. PICK t \in Trans : /\ trans' = [trans EXCEPT ![t] = [Zeroed EXCEPT !.valid = TRUE]]
                             /\ Opened(f, "open", "w", t)
      BY <2>1 DEF OpenToWrite
    <3>2. file'[f].t = t /\ file'[f].op = "open" /\ ~ trans'[t].dirty
      BY <3>1 DEF Opened, Zeroed
    <3>. QED BY <1>2, <3>2 DEF ToBeWritten, Mine
  <2>2. CASE \E mode \in Modes \ {"w"} : OpenToRead(f, mode)
    BY <1>2, <2>2 DEF OpenToRead, Opened, ToBeWritten
  <2>3. CASE Write(f)
    <3>1. PICK text \in Inputs :
             trans' = [trans EXCEPT ![file[f].t] = [@ EXCEPT !.text = text, !.dirty = TRUE]]
      BY <2>3 DEF Write
    <3>2. file' = file /\ file[f].t \in Trans
      BY <2>3 DEF Write, fileVars, IsOpen
    <3>. QED BY <3>1, <3>2 DEF Mine, Struct
  <2>4. CASE WriteBack(f)
    <3>1. /\ file[f].op = "open" /\ file[f].mode # "r" /\ Mine(f).dirty /\ IsOpen(f) /\ file[f].t \in Trans
          /\ file'[f].t = file[f].t /\ trans' = [trans EXCEPT ![file[f].t] = Prepared(@)]
      BY <2>4 DEF WriteBack, MayClose, ToWriteBack, IsOpen, File
    <3>2. Mine(f)'.text = Mine(f).text
      BY <3>1 DEF Mine, Prepared, Struct
    <3>3. file[f].mode = "w"
      BY <3>1 DEF WayInv, Direction
    <3>. QED BY <3>1, <3>2, <3>3 DEF Written
  <2>5. CASE Close(f) \/ RejectClose(f) \/ FinishClose(f) \/ InterruptClose(f)
    BY <1>2, <2>5 DEF Close, RejectClose, FinishClose, InterruptClose, Released, Closed, ToBeWritten
  <2>6. CASE StartRead(f) \/ FinishRead(f) \/ InterruptRead(f) \/ OpenSends(f)
    <3>1. file[f].op = "opening" => file[f].mode = "r"
      BY DEF WayInv, Direction
    <3>2. file[f].op = "reading" => file[f].mode # "w"
      BY DEF SafeInv, Ready
    <3>3. file'[f].op \in {"open", "reading"} /\ file'[f].mode = file[f].mode /\ file[f].mode # "w"
      BY <2>6, <3>1, <3>2 DEF StartRead, FinishRead, InterruptRead, OpenSends, File
    <3>. QED BY <1>2, <3>3 DEF ToBeWritten
  <2>7. CASE Fill(f) \/ Number(f) \/ Pend(f) \/ CloseSends(f)
    <3>1. file' = file /\ at[f] # "out" /\ at'[f] \notin {"fill", "out"}
      BY <2>7 DEF Fill, FillRequest, Number, TakeSeq, Pend, AddPending, CloseSends, SendRequest, fileVars
    <3>. QED BY <1>2, <3>1 DEF ToBeWritten, SafeInv, OpStage
  <2>8. CASE Sleep(f)
    <3>1. file' = file /\ at' = at /\ trans' = trans
      BY <2>8 DEF Sleep, linkVars
    <3>. QED BY <1>2, <3>1 DEF ToBeWritten, Mine, Written
  <2>. QED BY <2>1, <2>2, <2>3, <2>4, <2>5, <2>6, <2>7, <2>8 DEF FileStep, Begin, Continue, Interrupt
<1>. QED BY <1>1, <1>2 DEF Written, ToBeWritten

LEMMA WrittenCallback ==
    ASSUME Inv, Written, Callback
    PROVE  Written'
<1> USE Shapes2 DEF Inv
<1>1. UNCHANGED <<file, at>>
  BY CallbackRnw
<1> SUFFICES ASSUME NEW f \in Fds, ToBeWritten(f)' PROVE Mine(f)'.text \in Inputs
  BY DEF Written, ToBeWritten
<1>2. IsOpen(f) /\ file[f].t \in Trans /\ Mine(f) \in Struct /\ ~ Expected(f)
  <2>1. IsOpen(f) /\ file[f].t \in Trans /\ Mine(f) \in Struct
    BY <1>1 DEF ToBeWritten, IsOpen, Mine
  <2>. QED BY <1>1, <2>1, NotYet, WriterIdle DEF ToBeWritten
<1>3. Mine(f)'.text = Mine(f).text /\ Mine(f)'.dirty = Mine(f).dirty
  <2>1. CASE CbMatch \/ CbDrop
    BY <1>1, <2>1 DEF CbMatch, CbDrop, Mine
  <2>2. CASE CbFill
    <3>1. cb.t # file[f].t
      BY <1>2, <2>2 DEF CbFill, Expected
    <3>. QED BY <1>1, <1>2, <2>2, <3>1 DEF CbFill, Mine
  <2>3. CASE Wake
    <3>1. /\ cb.t \in Trans /\ cb.msg \in LinkResponse
          /\ trans' = [trans EXCEPT ![cb.t] = Finished(trans[cb.t], cb.msg)]
      BY <2>3 DEF Wake, CbFinish
    <3>. QED BY <1>1, <1>2, <3>1 DEF Mine, Finished, Struct
  <2>. QED BY <2>1, <2>2, <2>3 DEF Callback
<1>. QED BY <1>1, <1>3 DEF ToBeWritten, Written

(***************************************************************************)
(* Who awaits a response gets one.                                         *)
(***************************************************************************)
LEMMA PendingGrows ==
    ASSUME Inv, NEW f \in Fds, FileStep(f)
    PROVE  pending \subseteq pending'
<1>1. CASE Begin(f) \/ Interrupt(f)
  BY <1>1 DEF Begin, OpenToWrite, OpenToRead, StartRead, Write, Close, WriteBack, Interrupt, InterruptRead,
              InterruptClose
<1>2. CASE Continue(f)
  BY <1>2 DEF Continue, Fill, FillRequest, Number, TakeSeq, Pend, AddPending, OpenSends, CloseSends, SendRequest,
              RejectClose, Sleep, linkVars, FinishRead, FinishClose
<1>. QED BY <1>1, <1>2 DEF FileStep

LEMMA ExpectFile ==
    ASSUME Inv, WayInv, ExpectInv, NEW f \in Fds, FileStep(f)
    PROVE  ExpectInv'
<1> USE Shapes2 DEF Inv
<1>0. cb' = cb /\ pending \subseteq pending'
  BY OthersStay, PendingGrows
<1>1. ASSUME NEW g \in Fds \ {f}, Awaiting(g)', ~ Mine(g)'.valid PROVE Expected(g)'
  <2>1. file'[g] = file[g] /\ at'[g] = at[g]
    BY OthersStay
  <2>2. Awaiting(g) /\ IsOpen(g)
    BY <1>1, <2>1 DEF Awaiting, IsOpen
  <2>3. Mine(g)' = Mine(g)
    BY <2>1, <2>2, OtherStructs DEF Mine
  <2>. QED BY <1>0, <1>1, <2>1, <2>2, <2>3 DEF ExpectInv, Expected
<1>2. ASSUME Awaiting(f)', ~ Mine(f)'.valid PROVE Expected(f)'
  <2>1. CASE OpenToWrite(f) \/ \E mode \in Modes \ {"w"} : OpenToRead(f, mode)
    BY <1>2, <2>1 DEF OpenToWrite, OpenToRead, Opened, Enter, Awaiting
  <2>2. CASE Write(f)
    <3>1. file' = file /\ file[f].op = "open" /\ file[f].mode = "w"
      BY <2>2 DEF Write, fileVars, WayInv, Direction, IsOpen
    <3>. QED BY <1>2, <3>1 DEF Awaiting
  <2>3. CASE Close(f) \/ RejectClose(f) \/ FinishClose(f) \/ InterruptClose(f)
    BY <1>2, <2>3 DEF Close, RejectClose, FinishClose, InterruptClose, Released, Closed, Awaiting
  <2>4. CASE WriteBack(f)
    <3>1. file'[f].op = "closing" /\ at'[f] = "fill"
      BY <2>4 DEF WriteBack, Enter, File
    <3>. QED BY <1>2, <3>1 DEF Awaiting
  <2>5. CASE Fill(f) \/ Number(f)
    <3>1. file' = file /\ at[f] \in {"fill", "seq"} /\ at'[f] \in {"seq", "pend"}
      BY <2>5 DEF Fill, FillRequest, Number, TakeSeq, fileVars
    <3>2. file[f].op \in {"opening", "closing"}
      BY <3>1 DEF SafeInv, OpStage, File, Ops
    <3>. QED BY <1>2, <3>1, <3>2 DEF Awaiting
  <2>6. CASE Pend(f)
    BY <2>6 DEF Pend, AddPending, fileVars, Expected
  <2>7. CASE FinishRead(f)
    <3>1. file'[f].op = "open" /\ file'[f].read
      BY <2>7 DEF FinishRead, File
    <3>. QED BY <1>2, <3>1 DEF Awaiting
  <2>8. CASE StartRead(f) \/ OpenSends(f) \/ CloseSends(f) \/ Sleep(f) \/ InterruptRead(f)
    <3>1. trans' = trans /\ file'[f].t = file[f].t
      BY <2>8 DEF StartRead, OpenSends, CloseSends, SendRequest, Sleep, linkVars, fileVars, InterruptRead, File
    <3>2. Awaiting(f)
      <4>1. CASE StartRead(f)
        BY <4>1 DEF StartRead, Awaiting
      <4>2. CASE OpenSends(f) \/ CloseSends(f)
        BY <4>2 DEF OpenSends, CloseSends, SendRequest, Awaiting
      <4>3. CASE Sleep(f)
        BY <1>2, <4>3 DEF Sleep, linkVars, Awaiting
      <4>4. CASE InterruptRead(f)
        BY <4>4 DEF InterruptRead, Awaiting, SafeInv, Ready
      <4>. QED BY <2>8, <4>1, <4>2, <4>3, <4>4
    <3>3. Expected(f)
      BY <1>2, <3>1, <3>2 DEF ExpectInv, Mine
    <3>. QED BY <1>0, <3>1, <3>3 DEF Expected
  <2>. QED BY <2>1, <2>2, <2>3, <2>4, <2>5, <2>6, <2>7, <2>8 DEF FileStep, Begin, Continue, Interrupt
<1>. QED BY <1>1, <1>2 DEF ExpectInv

LEMMA ExpectCallback ==
    ASSUME Inv, ExpectInv, Callback
    PROVE  ExpectInv'
<1> USE Shapes2 DEF Inv
<1>1. UNCHANGED <<file, at>>
  BY CallbackRnw
<1> SUFFICES ASSUME NEW f \in Fds, Awaiting(f), ~ Mine(f)'.valid PROVE Expected(f)'
  BY <1>1 DEF ExpectInv, Awaiting
<1>2. IsOpen(f) /\ file[f].t \in Trans /\ Mine(f) \in Struct
  BY DEF Awaiting, IsOpen, Mine
<1>3. CASE CbMatch
  <2>1. PICK t \in pending : pending' = pending \ {t} /\ cb'.pc = "fill" /\ cb'.t = t
    BY <1>3 DEF CbMatch, Matches, Unlink
  <2>2. cb.pc = "idle" /\ trans' = trans
    BY <1>3 DEF CbMatch
  <2>3. file[f].t \in pending
    BY <1>1, <2>2 DEF ExpectInv, Expected, Mine
  <2>. QED BY <1>1, <2>1, <2>3 DEF Expected
<1>4. CASE CbDrop
  BY <1>1, <1>4 DEF CbDrop, ExpectInv, Expected, Mine
<1>5. CASE CbFill
  <2>1. /\ cb.pc = "fill" /\ cb.t \in Trans /\ cb.msg \in LinkResponse /\ pending' = pending
        /\ trans' = [trans EXCEPT ![cb.t] = Filled(trans[cb.t], cb.msg)]
    BY <1>5 DEF CbFill
  <2>2. cb.t # file[f].t
    BY <1>1, <1>2, <2>1, FilledIs DEF Mine
  <2>. QED BY <1>1, <1>2, <2>1, <2>2 DEF ExpectInv, Expected, Mine
<1>6. CASE Wake
  <2>1. /\ cb.pc = "finish" /\ cb.t \in Trans /\ cb.msg \in LinkResponse /\ pending' = pending
        /\ trans' = [trans EXCEPT ![cb.t] = Finished(trans[cb.t], cb.msg)]
    BY <1>6 DEF Wake, CbFinish
  <2>2. Mine(f)'.valid = Mine(f).valid
    BY <1>1, <1>2, <2>1, FinishedIs DEF Mine
  <2>. QED BY <1>1, <2>1, <2>2 DEF ExpectInv, Expected
<1>. QED BY <1>3, <1>4, <1>5, <1>6 DEF Callback

(***************************************************************************)
(* Two consequences, also when signals arrive and files are for variables  *)
(* that the firmware does not have: what a close asks for, and that nobody *)
(* waits in vain.                                                          *)
(***************************************************************************)
LEMMA CopyExpectStep ==
    ASSUME OneWay, Inv, WayInv, Paired, CopyInv, ExpectInv, [Next]_vars
    PROVE  CopyInv' /\ ExpectInv'
<1>1. CASE \E f \in Fds : FileStep(f)
  BY <1>1, CopyFile, ExpectFile
<1>2. CASE Callback
  BY <1>2, CopyCallback, ExpectCallback
<1>3. CASE UNCHANGED <<trans, pending, req, at, cb, file>>
  BY <1>3 DEF CopyInv, Copied, ExpectInv, Expected, Awaiting, Mine
<1>4. (\E f \in Fds : FileStep(f)) \/ Callback \/ UNCHANGED <<trans, pending, req, at, cb, file>>
  BY DEF Next, Linux, Firmware, Application, vars, mgmtVars, linkVars, fileVars, FileStep
<1>. QED BY <1>1, <1>2, <1>3, <1>4

LEMMA CopyExpectHolds ==
    ASSUME OneWay, FewStructs
    PROVE  Spec => [](Inv /\ WayInv /\ DataInv /\ CopyInv /\ ExpectInv)
<1>1. Inv /\ WayInv /\ DataInv /\ [Next]_vars => DataInv'
  BY DataStep
<1>2. Inv /\ WayInv /\ DataInv /\ CopyInv /\ ExpectInv /\ [Next]_vars => CopyInv' /\ ExpectInv'
  BY CopyExpectStep DEF DataInv
<1>3. Init => DataInv
  BY DataInit
<1>4. Init => CopyInv /\ ExpectInv
  BY DEF Init, MgmtInit, LinkInit, Closed, CopyInv, ExpectInv, Awaiting
<1>. QED BY <1>1, <1>2, <1>3, <1>4, WayHolds, PTL DEF Spec

\* In a kernel without preemption, with fewer structs than sequence numbers, a file
\* that is opened for writing alone sends the write of its own text to its own
\* variable when it is closed after a write: debugfs_release_var finds its request
\* in the static buffer of access_var as it left it, and no response of another
\* request changes the text on the way.
THEOREM CloseWritesBackHolds == ASSUME OneWay, FewStructs PROVE Spec => []CloseWritesBack
<1>1. WayInv /\ CopyInv => CloseWritesBack
  <2> SUFFICES ASSUME WayInv, CopyInv, NEW f \in Fds, file[f].op = "closing", at[f] = "send"
               PROVE  req.type = "WR" /\ req.ind = Path[f].ind /\ req.val = Mine(f).text.val
    BY DEF CloseWritesBack
  <2>1. Asking(f) /\ file[f].mode = "w" /\ Path[f].acc = "VAL"
    BY DEF WayInv, Direction, ReqInv
  <2>2. req.val = Mine(f).text.val
    BY DEF CopyInv, Copied
  <2>. QED BY <2>1, <2>2 DEF Asking, Asks
<1>. QED BY <1>1, CopyExpectHolds, PTL

\* In the same kernel whoever sleeps on usr_wait_q for a response has a request or a
\* response with its sequence number on the bus, or the callback is about to store
\* it, whatever signals arrive and errors are answered.
THEOREM WaitsForAnswerHolds == ASSUME OneWay, FewStructs PROVE Spec => []WaitsForAnswer
<1>1. Inv /\ DataInv /\ ExpectInv => WaitsForAnswer
  <2> SUFFICES ASSUME Inv, DataInv, ExpectInv, NEW f \in asleep, ~ Mine(f).valid
               PROVE  UnderWay(file[f].t)
    BY DEF WaitsForAnswer
  <2>1. f \in Fds /\ at[f] = "wait"
    BY DEF Inv, TypeInv, TypeOK, MgmtTypeOK, SafeInv, WakeUp
  <2>2. Awaiting(f) /\ IsOpen(f)
    BY <2>1, Shapes2 DEF Inv, SafeInv, OpStage, Ready, File, Ops, Awaiting, IsOpen
  <2>3. Expected(f)
    BY <2>1, <2>2 DEF ExpectInv
  <2>4. CASE file[f].t \in pending
    <3>1. ~ (Listed /\ Mine(f).seq = req.seq)
      <4> SUFFICES ASSUME NEW g \in Fds, at[g] = "send", Mine(f).seq = req.seq PROVE FALSE
        BY DEF Listed
      <4>1. file[g].t \in pending /\ Mine(g).seq = req.seq
        BY DEF DataInv, Paired
      <4>2. file[g].t = file[f].t
        BY <2>4, <4>1 DEF DataInv, Paired, Mine
      <4>3. IsOpen(g)
        BY StageOpen DEF Inv, IsOpen
      <4>. QED BY <2>1, <2>2, <4>2, <4>3 DEF Inv, SafeInv, Places
    <3>2. Mine(f).seq \in SeqsUnderWay
      BY <2>4, <3>1 DEF DataInv, Paired, Mine
    <3>. QED BY <3>2 DEF SeqsUnderWay, UnderWay, Mine
  <2>. QED BY <2>3, <2>4 DEF Expected, UnderWay
<1>. QED BY <1>1, CopyExpectHolds, PTL

(***************************************************************************)
(* The invariant.                                                          *)
(***************************************************************************)
LEMMA StoreInvStep ==
    ASSUME OneWay, NothingFails, Inv, WayInv, DataInv, StoreInv, [Next]_vars
    PROVE  StoreInv'
<1>1. TypeInv
  BY DEF Inv
<1>2. ASSUME NEW f \in Fds, FileStep(f), UNCHANGED cfgVars PROVE StoreInv'
  <2>1. NoErrors' /\ WriteInv' /\ CopyInv'
    BY <1>1, <1>2, NoErrorsFile, WriteFile, CopyFile DEF StoreInv, DataInv
  <2>2. Written' /\ ExpectInv'
    BY <1>2, WrittenFile, ExpectFile DEF StoreInv
  <2>3. Plain'
    BY <1>2 DEF cfgVars, Plain, StoreInv
  <2>. QED BY <2>1, <2>2, <2>3 DEF StoreInv
<1>3. CASE Callback /\ UNCHANGED cfgVars
  <2>1. NoErrors' /\ WriteInv' /\ CopyInv'
    BY <1>1, <1>3, NoErrorsCallback, WriteCallback, CopyCallback DEF StoreInv, DataInv
  <2>2. Written' /\ ExpectInv'
    BY <1>3, WrittenCallback, ExpectCallback DEF StoreInv
  <2>3. Plain'
    BY <1>3 DEF cfgVars, Plain, StoreInv
  <2>. QED BY <2>1, <2>2, <2>3 DEF StoreInv
<1>4. CASE Firmware
  <2>1. UNCHANGED <<trans, pending, at, cb, file, rdCb>>
    BY <1>1, <1>4, ReplySeq DEF Firmware, config_msg_handler
  <2>2. NoErrors' /\ WriteInv'
    BY <1>1, <1>4, NoErrorsFirmware, WriteFirmware DEF StoreInv
  <2>3. req' = req
    BY <1>1, <1>4, ReplySeq
  <2>. QED BY <2>1, <2>2, <2>3 DEF StoreInv, CopyInv, Copied, Written, ExpectInv, Expected, Awaiting, Mine, Plain
<1>5. CASE UNCHANGED <<mgmtVars, rdCb>>
  BY <1>5 DEF mgmtVars, linkVars, fileVars, StoreInv, NoErrors, CopyInv, Copied, WriteInv, WriteOf, Puts, Written, ExpectInv,
              Expected, Awaiting, Mine, Plain
<1>. QED BY <1>2, <1>3, <1>4, <1>5 DEF Next, Linux, Application, cfgSetId, vars, cfgVars, FileStep

LEMMA StoreInvInit == Init => StoreInv
BY DEF Init, MgmtInit, LinkInit, CfgInit, Zeroed, CbIdle, Closed, StoreInv, NoErrors, CopyInv, WriteInv, Written, ExpectInv,
       Awaiting, Plain

(***************************************************************************)
(* The response to a request, among those that are under way.              *)
(***************************************************************************)
Distinct(q) == \A i, j \in 1 .. Len(q) : q[i].seq = q[j].seq => i = j
Carries(q, s) == \E k \in 1 .. Len(q) : q[k].seq = s
Response(q, s) == q[CHOOSE k \in 1 .. Len(q) : q[k].seq = s]

LEMMA ResponseIs ==
    ASSUME NEW q, NEW s, NEW k \in 1 .. Len(q), q[k].seq = s, Distinct(q)
    PROVE  Carries(q, s) /\ Response(q, s) = q[k]
<1>1. \A j \in 1 .. Len(q) : q[j].seq = s => j = k
  BY DEF Distinct
<1>. QED BY <1>1 DEF Carries, Response

LEMMA ResponseTail ==
    ASSUME NEW S, NEW q \in Seq(S), q # <<>>, Distinct(q), NEW s, q[1].seq # s
    PROVE  /\ Carries(Tail(q), s) <=> Carries(q, s)
           /\ Carries(q, s) => Response(Tail(q), s) = Response(q, s)
<1>1. /\ Len(q) \in Nat /\ Len(q) # 0 /\ Len(Tail(q)) = Len(q) - 1
      /\ \A k \in 1 .. Len(Tail(q)) : k + 1 \in 1 .. Len(q) /\ Tail(q)[k] = q[k + 1]
  OBVIOUS
<1>2. Distinct(Tail(q))
  BY <1>1 DEF Distinct
<1>3. ASSUME NEW k \in 1 .. Len(q), q[k].seq = s
      PROVE  Carries(Tail(q), s) /\ Response(Tail(q), s) = Response(q, s)
  <2>1. k # 1
    BY <1>3
  <2>2. k - 1 \in 1 .. Len(Tail(q)) /\ (k - 1) + 1 = k
    BY <1>1, <2>1
  <2>3. Tail(q)[k - 1] = q[k]
    BY <1>1, <2>2
  <2>4. Carries(Tail(q), s) /\ Response(Tail(q), s) = Tail(q)[k - 1]
    BY <1>2, <1>3, <2>2, <2>3, ResponseIs
  <2>5. Response(q, s) = q[k]
    BY <1>3, ResponseIs
  <2>. QED BY <2>3, <2>4, <2>5
<1>4. Carries(Tail(q), s) => Carries(q, s)
  BY <1>1 DEF Carries
<1>. QED BY <1>3, <1>4 DEF Carries

LEMMA ResponseAppend ==
    ASSUME NEW S, NEW q \in Seq(S), NEW m \in S, Distinct(q), ~ Carries(q, m.seq), NEW s
    PROVE  /\ m.seq = s => Carries(Append(q, m), s) /\ Response(Append(q, m), s) = m
           /\ m.seq # s => (Carries(Append(q, m), s) <=> Carries(q, s))
           /\ m.seq # s /\ Carries(q, s) => Response(Append(q, m), s) = Response(q, s)
<1> DEFINE r == Append(q, m)
<1>1. /\ Len(q) \in Nat /\ Len(r) = Len(q) + 1 /\ r[Len(q) + 1] = m
      /\ \A k \in 1 .. Len(q) : k \in 1 .. Len(r) /\ r[k] = q[k]
      /\ \A k \in 1 .. Len(r) : k \in 1 .. Len(q) \/ k = Len(q) + 1
      /\ Len(q) + 1 \in 1 .. Len(r)
  OBVIOUS
<1> HIDE DEF r
<1>2. Distinct(r)
  BY <1>1 DEF Distinct, Carries
<1>3. m.seq = s => Carries(r, s) /\ Response(r, s) = m
  BY <1>1, <1>2, ResponseIs
<1>4. ASSUME m.seq # s PROVE Carries(r, s) <=> Carries(q, s)
  BY <1>1, <1>4 DEF Carries
<1>5. ASSUME m.seq # s, NEW k \in 1 .. Len(q), q[k].seq = s PROVE Response(r, s) = Response(q, s)
  <2>1. Response(r, s) = r[k]
    BY <1>1, <1>2, <1>5, ResponseIs
  <2>2. Response(q, s) = q[k]
    BY <1>5, ResponseIs
  <2>. QED BY <1>1, <2>1, <2>2
<1>6. m.seq # s /\ Carries(q, s) => Response(r, s) = Response(q, s)
  BY <1>5 DEF Carries
<1>. QED BY <1>3, <1>4, <1>6 DEF r

\* All messages under way have different numbers.
LEMMA DistinctSeqs ==
    ASSUME Inv, Window
    PROVE  /\ Distinct(toLinux)
           /\ toBm # <<>> => ~ Carries(toLinux, toBm[1].seq)
<1> USE Shapes2 DEF Inv
<1>1. Len(toBm) \in Nat /\ Len(toLinux) \in Nat /\ One(Numbered) \in Nat
  BY DEF One
<1>2. \A k \in 1 .. Len(toLinux) :
         Age(nextSeq, toLinux[k].seq) = Len(toLinux) - k + 1 + Len(toBm) + One(Numbered)
  BY DEF Window, Aged
<1>3. Distinct(toLinux)
  <2> SUFFICES ASSUME NEW i \in 1 .. Len(toLinux), NEW j \in 1 .. Len(toLinux), toLinux[i].seq = toLinux[j].seq
               PROVE  i = j
    BY DEF Distinct
  <2>1. Len(toLinux) - i + 1 + Len(toBm) + One(Numbered) = Len(toLinux) - j + 1 + Len(toBm) + One(Numbered)
    BY <1>2
  <2>. QED BY <1>1, <2>1
<1>4. ASSUME toBm # <<>>, NEW k \in 1 .. Len(toLinux), toLinux[k].seq = toBm[1].seq PROVE FALSE
  <2>1. 1 \in 1 .. Len(toBm) /\ Age(nextSeq, toBm[1].seq) = Len(toBm) - 1 + 1 + One(Numbered)
    BY <1>1, <1>4 DEF Window, Aged
  <2>2. Len(toLinux) - k + 1 + Len(toBm) + One(Numbered) = Len(toBm) - 1 + 1 + One(Numbered)
    BY <1>2, <1>4, <2>1
  <2>. QED BY <1>1, <2>2
<1>. QED BY <1>3, <1>4 DEF Carries

(***************************************************************************)
(* How far each operation is.                                              *)
(***************************************************************************)
LEMMA JobIs ==
    ASSUME NEW f \in Fds
    PROVE  Job(f) = IF at[f] \in {"seq", "pend"} THEN Asked(f)
                    ELSE IF ~ Awaiting(f) THEN NoJob
                    ELSE IF Mine(f).valid THEN Stored(f)
                    ELSE IF cb.pc = "fill" /\ cb.t = file[f].t THEN Served(cb.msg)
                    ELSE IF Carries(toLinux, Mine(f).seq) THEN Served(Response(toLinux, Mine(f).seq))
                    ELSE Asked(f)
BY DEF Job, Carries, Response

LEMMA JobIsNext ==
    ASSUME NEW f \in Fds
    PROVE  Job(f)' = IF at'[f] \in {"seq", "pend"} THEN Asked(f)'
                     ELSE IF ~ Awaiting(f)' THEN NoJob
                     ELSE IF Mine(f)'.valid THEN Stored(f)'
                     ELSE IF cb'.pc = "fill" /\ cb'.t = file'[f].t THEN Served(cb'.msg)
                     ELSE IF Carries(toLinux', Mine(f)'.seq) THEN Served(Response(toLinux', Mine(f)'.seq))
                     ELSE Asked(f)'
BY DEF Job, Carries, Response, NoJob, Served

LEMMA JobKept ==
    ASSUME NEW g \in Fds, at'[g] = at[g], file'[g] = file[g], cb' = cb, toLinux' = toLinux,
           IsOpen(g) => Mine(g)' = Mine(g), at[g] \in {"seq", "pend"} => IsOpen(g)
    PROVE  Job(g)' = Job(g)
<1>1. Awaiting(g)' <=> Awaiting(g)
  BY DEF Awaiting
<1>2. CASE IsOpen(g)
  <2>1. Asked(g)' = Asked(g) /\ Stored(g)' = Stored(g)
    BY <1>2 DEF Asked, Stored, Wanted
  <2>. QED BY <1>1, <1>2, <2>1, JobIs, JobIsNext
<1>3. CASE ~ IsOpen(g)
  <2>1. ~ Awaiting(g)
    BY <1>3 DEF Awaiting, IsOpen
  <2>. QED BY <1>1, <1>3, <2>1, JobIs, JobIsNext
<1>. QED BY <1>2, <1>3

(***************************************************************************)
(* The steps of the store.                                                 *)
(***************************************************************************)
Others(f) == \A g \in Fds \ {f} : Job(g)' = Job(g)

LEMMA OneJob ==
    ASSUME NEW f \in Fds, Others(f)
    PROVE  [g \in Fds |-> Job(g)]' = [[g \in Fds |-> Job(g)] EXCEPT ![f] = Job(f)']
BY DEF Others

LEMMA Stutters ==
    ASSUME NEW f \in Fds, Others(f), Job(f)' = Job(f), UNCHANGED <<val, out>>
    PROVE  UNCHANGED Store!storeVars
<1>1. [g \in Fds |-> Job(g)]' = [g \in Fds |-> Job(g)]
  BY DEF Others
<1>. QED BY <1>1 DEF Store!storeVars

LEMMA Settles ==
    ASSUME NEW f \in Fds, Others(f), Job(f) = NoJob, Job(f)' = NoJob, val' = val,
           NEW k \in {"none", "done", "failed"}, out' = [out EXCEPT ![f] = Result(k)]
    PROVE  Store!Next
<1>1. [g \in Fds |-> Job(g)]' = [g \in Fds |-> Job(g)]
  BY DEF Others
<1>2. Job(f).phase = "idle"
  BY DEF NoJob
<1>3. Result(k) \in {Store!NoAnswer, Store!Done, Store!Failed}
  BY DEF Store!NoAnswer, Store!Done, Store!Failed, Store!Answer, Result
<1>4. Store!Settle(f)
  BY <1>1, <1>2, <1>3 DEF Store!Settle
<1>. QED BY <1>4 DEF Store!Next

LEMMA AsksFor ==
    ASSUME NEW f \in Fds, Others(f), Job(f) = NoJob, UNCHANGED <<val, out>>, NEW w \in Wishes,
           Job(f)' = [phase |-> "asked", type |-> w.type, ind |-> w.ind, val |-> w.val]
    PROVE  Store!Next
<1>1. [g \in Fds |-> Job(g)]' = [[g \in Fds |-> Job(g)] EXCEPT ![f] = Job(f)']
  BY OneJob
<1>2. Job(f).phase = "idle"
  BY DEF NoJob
<1>3. Store!Ask(f)
  BY <1>1, <1>2 DEF Store!Ask
<1>. QED BY <1>3 DEF Store!Next

LEMMA Delivers ==
    ASSUME NEW f \in Fds, Others(f), Job(f).phase = "served", Job(f)' = NoJob, val' = val,
           out' = [out EXCEPT ![f] = [kind |-> Job(f).type, ind |-> Job(f).ind, val |-> Job(f).val]]
    PROVE  Store!Next
<1>1. [g \in Fds |-> Job(g)]' = [[g \in Fds |-> Job(g)] EXCEPT ![f] = Job(f)']
  BY OneJob
<1>2. Store!Deliver(f)
  BY <1>1 DEF Store!Deliver, Store!Answer, Store!NoJob, NoJob
<1>. QED BY <1>2 DEF Store!Next

LEMMA OthersJobs ==
    ASSUME Inv, NEW f \in Fds, FileStep(f)
    PROVE  Others(f)
<1> SUFFICES ASSUME NEW g \in Fds \ {f} PROVE Job(g)' = Job(g)
  BY DEF Others
<1>1. file'[g] = file[g] /\ at'[g] = at[g] /\ cb' = cb /\ toLinux' = toLinux
  BY OthersStay DEF Inv
<1>2. IsOpen(g) => Mine(g)' = Mine(g)
  BY <1>1, OtherStructs DEF Mine
<1>3. at[g] \in {"seq", "pend"} => IsOpen(g)
  BY NotYet
<1>. QED BY <1>1, <1>2, <1>3, JobKept

\* Nothing has been asked, or no longer is.
LEMMA Nothing ==
    ASSUME NEW f \in Fds, at[f] \notin {"seq", "pend"}, ~ Awaiting(f)
    PROVE  Job(f) = NoJob
BY JobIs

LEMMA NothingNext ==
    ASSUME NEW f \in Fds, at'[f] \notin {"seq", "pend"}, ~ Awaiting(f)'
    PROVE  Job(f)' = NoJob
BY JobIsNext

\* Opening and closing that the firmware is not asked about.
LEMMA OpenCloseStep ==
    ASSUME Patient, Inv, WayInv, NEW f \in Fds,
           OpenToWrite(f) \/ (\E mode \in Modes \ {"w"} : OpenToRead(f, mode)) \/ Close(f) \/ RejectClose(f),
           val' = val
    PROVE  Store!Next
<1> USE Shapes2 DEF Inv
<1>0. Others(f)
  BY OthersJobs DEF FileStep, Begin, Continue
<1>1. CASE OpenToWrite(f) \/ \E mode \in Modes \ {"w"} : OpenToRead(f, mode)
  <2>1. /\ file[f].op = "closed" /\ out' = [out EXCEPT ![f] = Result("none")]
        /\ at'[f] \in {at[f], "fill"}
        /\ \/ file'[f].op = "opening" /\ at'[f] = "fill"
           \/ file'[f].op = "open" /\ file'[f].mode = "w"
    <3>1. CASE OpenToWrite(f)
      BY <3>1 DEF OpenToWrite, Opened
    <3>2. ASSUME NEW mode, OpenToRead(f, mode)
          PROVE  /\ file[f].op = "closed" /\ out' = [out EXCEPT ![f] = Result("none")]
                 /\ at'[f] = "fill" /\ file'[f].op = "opening"
      BY <3>2 DEF OpenToRead, Opened, Enter
    <3>. QED BY <1>1, <3>1, <3>2
  <2>2. at[f] = "out" /\ ~ Awaiting(f)
    BY <2>1 DEF SafeInv, OpStage, Awaiting
  <2>3. ~ Awaiting(f)' /\ at'[f] \notin {"seq", "pend"}
    BY <2>1, <2>2 DEF Awaiting
  <2>. QED BY <1>0, <2>1, <2>2, <2>3, Nothing, NothingNext, Settles
<1>2. CASE Close(f) \/ RejectClose(f)
  <2>1. PICK k \in {"done", "failed"} : Released(f, k)
    BY <1>2 DEF Close, RejectClose
  <2>2. file'[f].op = "closed" /\ out' = [out EXCEPT ![f] = Result(k)]
    BY <2>1 DEF Released, Closed
  <2>3. at[f] \notin {"seq", "pend"} /\ ~ Awaiting(f)
    <3>1. CASE Close(f)
      BY <3>1 DEF Close, MayClose, Awaiting, SafeInv, OpStage
    <3>2. CASE RejectClose(f)
      BY <3>2 DEF RejectClose, RejectRequest, Awaiting
    <3>. QED BY <1>2, <3>1, <3>2
  <2>4. at'[f] \notin {"seq", "pend"} /\ ~ Awaiting(f)'
    BY <1>2, <2>2, <2>3 DEF Awaiting, Close, RejectClose, RejectRequest
  <2>. QED BY <1>0, <2>2, <2>3, <2>4, Nothing, NothingNext, Settles
<1>. QED BY <1>1, <1>2

\* A file whose response is awaited before and after, and whose struct stays.
LEMMA StillAwaits ==
    ASSUME NEW f \in Fds, Awaiting(f), Awaiting(f)', at[f] \notin {"seq", "pend"}, at'[f] \notin {"seq", "pend"},
           file'[f].t = file[f].t, file'[f].op = "closing" <=> file[f].op = "closing",
           trans' = trans, cb' = cb, toLinux' = toLinux
    PROVE  Job(f)' = Job(f)
<1>1. Mine(f)' = Mine(f)
  BY DEF Mine
<1>2. Asked(f)' = Asked(f) /\ Stored(f)' = Stored(f)
  BY <1>1 DEF Asked, Stored, Wanted
<1>. QED BY <1>1, <1>2, JobIs, JobIsNext

\* Steps of a file that the store does not see.
LEMMA HiddenStep ==
    ASSUME OneWay, FewStructs, Inv, WayInv, DataInv, StoreInv, NEW f \in Fds,
           \/ StartRead(f) \/ Write(f) \/ WriteBack(f) \/ Number(f) \/ Pend(f) \/ OpenSends(f)
           \/ CloseSends(f) \/ Sleep(f),
           val' = val
    PROVE  UNCHANGED Store!storeVars
<1> USE Shapes2 DEF Inv
<1>1. Others(f) /\ cb' = cb /\ toLinux' = toLinux
  BY OthersJobs, OthersStay DEF FileStep, Begin, Continue
<1>2. out' = out
  BY DEF StartRead, Write, WriteBack, Number, Pend, OpenSends, CloseSends, Sleep, fileVars
<1> SUFFICES Job(f)' = Job(f)
  BY <1>1, <1>2, Stutters
<1>3. CASE StartRead(f)
  <2>1. /\ file[f].op = "open" /\ file[f].mode # "w" /\ ~ file[f].read /\ at'[f] = "wait" /\ trans' = trans
        /\ file' = [file EXCEPT ![f].op = "reading"]
    BY <1>3 DEF StartRead
  <2>2. /\ file'[f].op = "reading" /\ file'[f].mode = file[f].mode /\ file'[f].read = file[f].read
        /\ file'[f].t = file[f].t /\ at[f] = "out"
    BY <2>1 DEF File, SafeInv, OpStage
  <2>. QED BY <1>1, <2>1, <2>2, StillAwaits DEF Awaiting
<1>4. CASE Write(f)
  <2>1. file' = file /\ at' = at /\ file[f].op = "open" /\ file[f].mode = "w"
    BY <1>4 DEF Write, fileVars, WayInv, Direction, IsOpen
  <2>2. at[f] = "out" /\ ~ Awaiting(f) /\ ~ Awaiting(f)'
    BY <2>1 DEF SafeInv, OpStage, Awaiting
  <2>. QED BY <2>1, <2>2, Nothing, NothingNext
<1>5. CASE WriteBack(f)
  <2>1. file[f].op = "open" /\ file[f].mode = "w" /\ file'[f].op = "closing" /\ at'[f] = "fill"
    BY <1>5 DEF WriteBack, MayClose, ToWriteBack, Enter, File, WayInv, Direction, IsOpen
  <2>2. at[f] = "out" /\ ~ Awaiting(f) /\ ~ Awaiting(f)'
    BY <2>1 DEF SafeInv, OpStage, Awaiting
  <2>. QED BY <2>1, <2>2, Nothing, NothingNext
<1>6. CASE Number(f)
  <2>1. at[f] = "seq" /\ at'[f] = "pend" /\ file' = file /\ trans' = trans
    BY <1>6 DEF Number, TakeSeq, fileVars
  <2>2. Asked(f)' = Asked(f)
    BY <2>1 DEF Asked, Wanted, Mine
  <2>. QED BY <2>1, <2>2, JobIs, JobIsNext
<1>7. CASE Pend(f)
  <2>1. /\ at[f] = "pend" /\ at'[f] = "send" /\ file' = file /\ file[f].t \in Trans
        /\ trans' = [trans EXCEPT ![file[f].t].seq = req.seq]
    BY <1>7, StageOpen DEF Pend, AddPending, fileVars
  <2>2. /\ Mine(f)'.text = Mine(f).text /\ Mine(f)'.valid = Mine(f).valid /\ Mine(f)'.rnw = Mine(f).rnw
        /\ Mine(f)'.seq = req.seq
    BY <2>1 DEF Mine, Struct
  <2>3. Asked(f)' = Asked(f)
    BY <2>1, <2>2 DEF Asked, Wanted
  <2>4. ~ Mine(f).valid /\ ~ Expected(f)
    BY <2>1, NotYet DEF SafeInv, Ready
  <2>5. ~ Carries(toLinux', Mine(f)'.seq)
    <3>1. req.seq \notin SeqsUnderWay
      BY <2>1, FreshSeq DEF DataInv, Numbered
    <3>. QED BY <1>1, <2>2, <3>1 DEF Carries, SeqsUnderWay
  <2>6. Awaiting(f)'
    BY <2>1 DEF Awaiting, SafeInv, OpStage, File, Ops
  <2>. QED BY <1>1, <2>1, <2>2, <2>3, <2>4, <2>5, <2>6, JobIs, JobIsNext DEF Expected
<1>8. CASE OpenSends(f)
  <2>1. /\ at[f] = "send" /\ at'[f] = "out" /\ file[f].op = "opening" /\ trans' = trans
        /\ file' = [file EXCEPT ![f].op = "open"] /\ file[f].mode # "w" /\ ~ file[f].read
    BY <1>8 DEF OpenSends, SendRequest, SafeInv, Ready
  <2>2. /\ file'[f].op = "open" /\ file'[f].mode = file[f].mode /\ file'[f].read = file[f].read
        /\ file'[f].t = file[f].t
    BY <2>1 DEF File
  <2>. QED BY <1>1, <2>1, <2>2, StillAwaits DEF Awaiting
<1>9. CASE CloseSends(f)
  <2>1. at[f] = "send" /\ at'[f] = "wait" /\ file[f].op = "closing" /\ trans' = trans /\ file' = file
    BY <1>9 DEF CloseSends, SendRequest, fileVars
  <2>. QED BY <1>1, <2>1, StillAwaits DEF Awaiting
<1>10. CASE Sleep(f)
  <2>1. at' = at /\ trans' = trans /\ file' = file /\ at[f] = "wait"
    BY <1>10 DEF Sleep, Waiting, linkVars
  <2>. QED BY <1>1, <2>1, JobKept DEF Mine
<1>. QED BY <1>3, <1>4, <1>5, <1>6, <1>7, <1>8, <1>9, <1>10

\* access_var has built its request.
LEMMA FillStep ==
    ASSUME OneWay, NothingFails, Inv, WayInv, StoreInv, NEW f \in Fds, Fill(f), val' = val
    PROVE  Store!Next
<1> USE Shapes2 DEF Inv
<1>1. at[f] = "fill" /\ at'[f] = "seq" /\ file' = file /\ trans' = trans /\ out' = out
  BY DEF Fill, FillRequest, fileVars
<1>2. Others(f)
  BY OthersJobs DEF FileStep, Continue
<1>3. ~ Awaiting(f) /\ IsOpen(f)
  BY <1>1, NotYet
<1>4. Job(f)' = Asked(f)
  <2>1. Asked(f)' = Asked(f)
    BY <1>1 DEF Asked, Wanted, Mine
  <2>. QED BY <1>1, <2>1, JobIsNext
<1> DEFINE w == [type |-> Wanted(f), ind |-> Path[f].ind,
                 val |-> IF Wanted(f) = "WR" THEN Mine(f).text.val ELSE 0]
<1>5. w \in Wishes
  <2>1. Path[f].ind \in Idx /\ Path[f].acc \in {"VAL", "RD_MIN", "RD_MAX", "DESC"}
    BY PathAssumption DEF NothingFails, AccessTypes
  <2>2. CASE Wanted(f) = "WR"
    <3>1. file[f].op = "closing"
      <4>1. file[f].op \in {"opening", "closing"}
        BY <1>1 DEF SafeInv, OpStage, File, Ops
      <4>2. ~ Mine(f).rnw
        BY <2>1, <2>2 DEF Wanted
      <4>. QED BY <1>3, <4>1, <4>2 DEF WayInv, Direction
    <3>2. Mine(f).text \in Inputs
      BY <1>1, <3>1 DEF StoreInv, Written
    <3>. QED BY <2>1, <2>2, <3>2 DEF Wishes
  <2>3. CASE Wanted(f) # "WR"
    BY <2>1, <2>3 DEF Wishes, Wanted
  <2>. QED BY <2>2, <2>3
<1>6. Job(f)' = [phase |-> "asked", type |-> w.type, ind |-> w.ind, val |-> w.val]
  BY <1>4 DEF Asked
<1> HIDE DEF w
<1>. QED BY <1>1, <1>2, <1>3, <1>5, <1>6, Nothing, AsksFor

\* The end of a read and of a write.
LEMMA FinishStep ==
    ASSUME Inv, StoreInv, NEW f \in Fds, FinishRead(f) \/ FinishClose(f), val' = val
    PROVE  Store!Next
<1> USE Shapes2 DEF Inv
<1>1. Others(f)
  BY OthersJobs DEF FileStep, Continue
<1>2. /\ file[f].op \in {"reading", "closing"} /\ at[f] = "wait" /\ at'[f] = "out" /\ Mine(f).valid
      /\ FinishRead(f) <=> file[f].op = "reading"
  BY DEF FinishRead, FinishClose, Waiting, Leave
<1>3. IsOpen(f) /\ file[f].t \in Trans /\ ~ Mine(f).err /\ Mine(f) \in Struct
  BY <1>2 DEF IsOpen, StoreInv, NoErrors, Mine
<1>4. Job(f) = Stored(f)
  <2>1. Awaiting(f)
    BY <1>2 DEF Awaiting, SafeInv, Ready
  <2>. QED BY <1>2, <2>1, JobIs
<1>5. Job(f)' = NoJob
  <2>1. (file'[f].op = "open" /\ file'[f].read) \/ file'[f].op = "closed"
    BY DEF FinishRead, FinishClose, Released, Closed, File
  <2>. QED BY <1>2, <2>1, NothingNext DEF Awaiting
<1>6. out' = [out EXCEPT ![f] = [kind |-> Job(f).type, ind |-> Job(f).ind, val |-> Job(f).val]]
  <2>1. CASE FinishRead(f)
    <3>1. Mine(f).text = [kind |-> Mine(f).text.kind, ind |-> Mine(f).text.ind, val |-> Mine(f).text.val]
      BY <1>3 DEF Struct, Text
    <3>2. out' = [out EXCEPT ![f] = Mine(f).text]
      BY <1>3, <2>1 DEF FinishRead
    <3>3. /\ Job(f).type = Mine(f).text.kind /\ Job(f).ind = Mine(f).text.ind
          /\ Job(f).val = Mine(f).text.val
      BY <1>2, <1>4, <2>1 DEF Stored
    <3>. QED BY <3>1, <3>2, <3>3
  <2>2. CASE FinishClose(f)
    <3>1. Released(f, "done") /\ file[f].op = "closing"
      BY <1>3, <2>2 DEF FinishClose
    <3>. QED BY <1>4, <3>1 DEF Released, Result, Stored
  <2>. QED BY <2>1, <2>2
<1>7. Job(f).phase = "served"
  BY <1>4 DEF Stored
<1>. QED BY <1>1, <1>5, <1>6, <1>7, Delivers

(***************************************************************************)
(* The callback changes no job: it carries a response to its struct.       *)
(***************************************************************************)
LEMMA CallbackMine ==
    ASSUME Inv, Callback, NEW f \in Fds, IsOpen(f)
    PROVE  \/ CbFill /\ cb.t = file[f].t
           \/ /\ Mine(f)'.text = Mine(f).text /\ Mine(f)'.valid = Mine(f).valid
              /\ Mine(f)'.rnw = Mine(f).rnw /\ Mine(f)'.seq = Mine(f).seq
<1> USE Shapes2 DEF Inv
<1>1. file' = file /\ file[f].t \in Trans /\ Mine(f) \in Struct
  BY CallbackRnw DEF Mine
<1>2. CASE CbMatch \/ CbDrop
  BY <1>1, <1>2 DEF CbMatch, CbDrop, Mine
<1>3. CASE CbFill /\ cb.t # file[f].t
  BY <1>1, <1>3 DEF CbFill, Mine
<1>4. CASE Wake
  <2>1. /\ cb.t \in Trans /\ cb.msg \in LinkResponse
        /\ trans' = [trans EXCEPT ![cb.t] = Finished(trans[cb.t], cb.msg)]
    BY <1>4 DEF Wake, CbFinish
  <2>. QED BY <1>1, <2>1, FinishedIs DEF Mine
<1>. QED BY <1>2, <1>3, <1>4 DEF Callback

LEMMA FilledText ==
    ASSUME NEW s \in Struct, NEW m \in LinkResponse, m.type \in ValueTexts
    PROVE  Filled(s, m).text = [kind |-> m.type, ind |-> m.ind, val |-> m.val]
BY DEF Filled, Struct, ValueTexts, NumberTexts, ErrorTexts

\* The response is stored as it came.
LEMMA FillsJob ==
    ASSUME NothingFails, Inv, OwnInv, WriteInv, CbFill, file' = file, NEW f \in Fds, IsOpen(f), cb.t = file[f].t
    PROVE  Job(f)' = Job(f)
<1> USE Shapes2 DEF Inv
<1>1. /\ cb.pc = "fill" /\ cb.msg \in LinkResponse /\ file[f].t \in Trans /\ Mine(f) \in Struct /\ at' = at
      /\ Mine(f)' = Filled(Mine(f), cb.msg)
  BY DEF CbFill, Mine
<1>2. Expected(f) /\ Awaiting(f) /\ ~ Mine(f).valid /\ at[f] \notin {"fill", "seq", "pend"}
  BY <1>1, Due, NotYet DEF Expected
<1>3. Job(f) = Served(cb.msg)
  BY <1>1, <1>2, JobIs
<1>4. Mine(f)'.valid /\ Awaiting(f)'
  BY <1>1, <1>2, FilledIs DEF Awaiting
<1>5. Job(f)' = Stored(f)'
  BY <1>1, <1>2, <1>4, JobIsNext
<1>6. Stored(f)' = Served(cb.msg)
  <2>1. CASE file[f].op = "closing"
    BY <1>1, <2>1 DEF WriteInv, WriteOf, Stored, Served
  <2>2. CASE file[f].op # "closing"
    <3>1. Reads(f)
      BY <1>2, <2>2 DEF Awaiting, Reads, SafeInv, Ready
    <3>2. Says(cb.msg, Told(f), f)
      BY <1>1, <3>1 DEF NothingFails, OwnInv, OwnOf
    <3>3. cb.msg.type \in ValueTexts /\ cb.msg.type # "OK"
      BY <3>2, ToldIsValue DEF Says, ValueTexts, NumberTexts
    <3>4. Mine(f)'.text = [kind |-> cb.msg.type, ind |-> cb.msg.ind, val |-> cb.msg.val]
      BY <1>1, <3>3, FilledText
    <3>. QED BY <2>2, <3>3, <3>4 DEF Stored, Served
  <2>. QED BY <2>1, <2>2
<1>. QED BY <1>3, <1>5, <1>6

LEMMA CallbackStep ==
    ASSUME NothingFails, Inv, DataInv, StoreInv, Callback, val' = val
    PROVE  UNCHANGED Store!storeVars
<1> USE Shapes2 DEF Inv
<1>1. UNCHANGED <<file, at, out>>
  BY CallbackRnw
<1>2. ASSUME NEW f \in Fds PROVE Job(f)' = Job(f)
  <2>1. CASE ~ IsOpen(f)
    <3>1. at[f] \notin {"seq", "pend"} /\ ~ Awaiting(f)
      BY <2>1, NotYet DEF Awaiting, IsOpen
    <3>. QED BY <1>1, <3>1, Nothing, NothingNext DEF Awaiting
  <2>2. CASE CbFill /\ cb.t = file[f].t /\ IsOpen(f)
    BY <1>1, <2>2, FillsJob DEF DataInv, StoreInv
  <2>3. CASE /\ IsOpen(f) /\ Mine(f)'.text = Mine(f).text /\ Mine(f)'.valid = Mine(f).valid
             /\ Mine(f)'.rnw = Mine(f).rnw /\ Mine(f)'.seq = Mine(f).seq
             /\ ~ (CbFill /\ cb.t = file[f].t)
    <3>1. /\ Asked(f)' = Asked(f) /\ Stored(f)' = Stored(f) /\ (Awaiting(f)' <=> Awaiting(f))
      BY <1>1, <2>3 DEF Asked, Stored, Wanted, Awaiting
    <3>2. CASE at[f] \in {"seq", "pend"} \/ ~ Awaiting(f) \/ Mine(f).valid
      BY <1>1, <2>3, <3>1, <3>2, JobIs, JobIsNext
    <3>3. CASE at[f] \notin {"seq", "pend"} /\ Awaiting(f) /\ ~ Mine(f).valid
      <4>1. Expected(f)
        BY <3>3 DEF StoreInv, ExpectInv
      <4>2. CASE CbMatch \/ CbDrop
        <5>1. /\ cb.pc = "idle" /\ toLinux # <<>> /\ toLinux' = Tail(toLinux)
              /\ file[f].t \in pending
          BY <4>1, <4>2 DEF CbMatch, CbDrop, Expected
        <5>2. Distinct(toLinux)
          BY DistinctSeqs DEF DataInv
        <5>3. CASE cb'.pc = "fill" /\ cb'.t = file[f].t
          <6>1. /\ Mine(f).seq = toLinux[1].seq /\ cb'.msg = toLinux[1] /\ 1 \in 1 .. Len(toLinux)
            BY <4>2, <5>1, <5>3 DEF CbMatch, CbDrop, Matches, Mine
          <6>2. Carries(toLinux, Mine(f).seq) /\ Response(toLinux, Mine(f).seq) = toLinux[1]
            BY <5>2, <6>1, ResponseIs
          <6>. QED BY <1>1, <2>3, <3>1, <3>3, <5>1, <5>3, <6>1, <6>2, JobIs, JobIsNext
        <5>4. CASE ~ (cb'.pc = "fill" /\ cb'.t = file[f].t)
          <6>1. toLinux[1].seq # Mine(f).seq
            <7>1. CASE CbDrop
              BY <5>1, <7>1 DEF CbDrop, Matches, Mine
            <7>2. CASE CbMatch
              <8>1. PICK t \in pending : trans[t].seq = toLinux[1].seq /\ cb'.pc = "fill" /\ cb'.t = t
                BY <7>2 DEF CbMatch, Matches
              <8>. QED BY <5>1, <5>4, <8>1 DEF DataInv, Paired, Mine
            <7>. QED BY <4>2, <7>1, <7>2
          <6>2. /\ Carries(toLinux', Mine(f).seq) <=> Carries(toLinux, Mine(f).seq)
                /\ Carries(toLinux, Mine(f).seq)
                      => Response(toLinux', Mine(f).seq) = Response(toLinux, Mine(f).seq)
            BY <5>1, <5>2, <6>1, ResponseTail
          <6>. QED BY <1>1, <2>3, <3>1, <3>3, <5>1, <5>4, <6>2, JobIs, JobIsNext
        <5>. QED BY <5>3, <5>4
      <4>3. CASE CbFill \/ Wake
        <5>1. ~ (cb.pc = "fill" /\ cb.t = file[f].t) /\ cb'.pc # "fill" /\ toLinux' = toLinux
          BY <2>3, <4>3 DEF CbFill, Wake, CbFinish, CbIdle
        <5>. QED BY <1>1, <2>3, <3>1, <3>3, <5>1, JobIs, JobIsNext
      <4>. QED BY <4>2, <4>3 DEF Callback
    <3>. QED BY <3>2, <3>3
  <2>. QED BY <2>1, <2>2, <2>3, CallbackMine
<1>3. [f \in Fds |-> Job(f)]' = [f \in Fds |-> Job(f)]
  BY <1>2
<1>. QED BY <1>1, <1>3 DEF Store!storeVars

(***************************************************************************)
(* The firmware serves the request at the head of the bus; its application *)
(* changes a value of its own.                                             *)
(***************************************************************************)
LEMMA ServesWrite ==
    ASSUME NEW f \in Fds, Others(f), out' = out, Job(f).phase = "asked", Job(f).type = "WR",
           val' = [val EXCEPT ![Job(f).ind] = Store!Limited(Job(f).ind, Job(f).val)],
           Job(f)' = [phase |-> "served", type |-> "done", ind |-> -1, val |-> 0]
    PROVE  Store!Next
<1>1. [g \in Fds |-> Job(g)]' = [[g \in Fds |-> Job(g)] EXCEPT ![f] = Job(f)']
  BY OneJob
<1>2. Store!ServeWrite(f)
  BY <1>1 DEF Store!ServeWrite
<1>. QED BY <1>2 DEF Store!Next

LEMMA ServesRead ==
    ASSUME NEW f \in Fds, Others(f), UNCHANGED <<val, out>>, Job(f).phase = "asked", Job(f).type # "WR",
           NEW a, a = Store!Truth(Job(f).type, Job(f).ind),
           Job(f)' = [phase |-> "served", type |-> a.kind, ind |-> a.ind, val |-> a.val]
    PROVE  Store!Next
<1>1. [g \in Fds |-> Job(g)]' = [[g \in Fds |-> Job(g)] EXCEPT ![f] = Job(f)']
  BY OneJob
<1>2. Store!ServeRead(f)
  BY <1>1 DEF Store!ServeRead
<1>. QED BY <1>2 DEF Store!Next

LEMMA LocalStep ==
    ASSUME UNCHANGED <<trans, at, cb, toLinux, file, out>>, \A f \in Fds : at[f] \in {"seq", "pend"} => IsOpen(f),
           NEW i \in Idx, NEW v \in Int, val' = [val EXCEPT ![i] = Clamp(i, v)]
    PROVE  Store!Next
<1>1. \A f \in Fds : Job(f)' = Job(f)
  BY JobKept DEF Mine
<1>2. [f \in Fds |-> Job(f)]' = [f \in Fds |-> Job(f)]
  BY <1>1
<1>3. Clamp(i, v) \in VarMin[i] .. VarMax[i]
  BY ClampIsLimited
<1>4. Store!Local(i)
  BY <1>2, <1>3 DEF Store!Local
<1>. QED BY <1>4 DEF Store!Next

LEMMA SameLimits == ASSUME NEW i, NEW v PROVE Store!Limited(i, v) = Table!Limited(i, v)
BY DEF Store!Limited, Table!Limited

\* The firmware's answer to f's request is put on the bus: f's job is served, the
\* others' jobs stay.
LEMMA ReplyJobs ==
    ASSUME Inv, DataInv, StoreInv, Firmware, NEW f \in Fds, IsOpen(f), file[f].t \in pending,
           Mine(f).seq = toBm[1].seq
    PROVE  Others(f) /\ Job(f) = Asked(f) /\ Job(f)' = Served(rep')
<1> USE Shapes2 DEF Inv
<1>1. /\ toBm # <<>> /\ toLinux' = Append(toLinux, rep') /\ rep'.seq = toBm[1].seq
      /\ UNCHANGED <<trans, pending, at, cb, file>>
  BY ReplySeq
<1>2. Distinct(toLinux) /\ ~ Carries(toLinux, rep'.seq)
  BY <1>1, DistinctSeqs DEF DataInv
<1>3. rep' \in LinkResponse
  BY <1>1, FirmwareType DEF TypeOK, MgmtTypeOK, LinkTypeOK
<1>4. Expected(f) /\ Awaiting(f) /\ ~ Mine(f).valid /\ at[f] \notin {"seq", "pend"}
      /\ ~ (cb.pc = "fill" /\ cb.t = file[f].t)
  BY Due, NotYet DEF Expected, SafeInv, Flight
<1>5. Awaiting(f)' /\ Mine(f)' = Mine(f)
  BY <1>1, <1>4 DEF Awaiting, Mine
<1>6. Job(f) = Asked(f)
  BY <1>1, <1>2, <1>4, JobIs
<1>7. Job(f)' = Served(rep')
  <2>1. Carries(toLinux', Mine(f).seq) /\ Response(toLinux', Mine(f).seq) = rep'
    BY <1>1, <1>2, <1>3, ResponseAppend
  <2>. QED BY <1>1, <1>4, <1>5, <2>1, JobIsNext
<1>8. ASSUME NEW g \in Fds \ {f} PROVE Job(g)' = Job(g)
  <2>1. Mine(g)' = Mine(g) /\ (Awaiting(g)' <=> Awaiting(g)) /\ Asked(g)' = Asked(g) /\ Stored(g)' = Stored(g)
    BY <1>1 DEF Mine, Awaiting, Asked, Stored, Wanted
  <2>2. CASE Mine(g).seq = rep'.seq /\ Awaiting(g) /\ ~ Mine(g).valid /\ at[g] \notin {"seq", "pend"}
    <3>1. IsOpen(g) /\ Expected(g)
      BY <2>2 DEF Awaiting, IsOpen, StoreInv, ExpectInv
    <3>2. file[g].t \notin pending
      BY <1>1, <2>2, <3>1 DEF DataInv, Paired, Mine, SafeInv, Places
    <3>3. cb.pc = "fill" /\ cb.t = file[g].t
      BY <3>1, <3>2 DEF Expected
    <3>. QED BY <1>1, <2>1, <2>2, <3>3, JobIs, JobIsNext
  <2>3. CASE ~ (Mine(g).seq = rep'.seq /\ Awaiting(g) /\ ~ Mine(g).valid /\ at[g] \notin {"seq", "pend"})
    <3>1. Mine(g).seq # rep'.seq =>
            /\ Carries(toLinux', Mine(g).seq) <=> Carries(toLinux, Mine(g).seq)
            /\ Carries(toLinux, Mine(g).seq)
                  => Response(toLinux', Mine(g).seq) = Response(toLinux, Mine(g).seq)
      BY <1>1, <1>2, <1>3, ResponseAppend
    <3>. QED BY <1>1, <2>1, <2>3, <3>1, JobIs, JobIsNext
  <2>. QED BY <2>2, <2>3
<1>. QED BY <1>6, <1>7, <1>8 DEF Others

\* Its answer to a request that nobody waits for any more changes no job.
LEMMA OrphanJobs ==
    ASSUME Inv, DataInv, StoreInv, Firmware,
           \A f \in Fds : IsOpen(f) /\ file[f].t \in pending => Mine(f).seq # toBm[1].seq
    PROVE  [f \in Fds |-> Job(f)]' = [f \in Fds |-> Job(f)]
<1> USE Shapes2 DEF Inv
<1>1. /\ toBm # <<>> /\ toLinux' = Append(toLinux, rep') /\ rep'.seq = toBm[1].seq
      /\ UNCHANGED <<trans, pending, at, cb, file>>
  BY ReplySeq
<1>2. Distinct(toLinux) /\ ~ Carries(toLinux, rep'.seq)
  BY <1>1, DistinctSeqs DEF DataInv
<1>3. rep' \in LinkResponse
  BY <1>1, FirmwareType DEF TypeOK, MgmtTypeOK, LinkTypeOK
<1>4. ASSUME NEW g \in Fds PROVE Job(g)' = Job(g)
  <2>1. Mine(g)' = Mine(g) /\ (Awaiting(g)' <=> Awaiting(g)) /\ Asked(g)' = Asked(g) /\ Stored(g)' = Stored(g)
    BY <1>1 DEF Mine, Awaiting, Asked, Stored, Wanted
  <2>2. CASE Mine(g).seq = rep'.seq /\ Awaiting(g) /\ ~ Mine(g).valid /\ at[g] \notin {"seq", "pend"}
    <3>1. IsOpen(g) /\ Expected(g)
      BY <2>2 DEF Awaiting, IsOpen, StoreInv, ExpectInv
    <3>2. cb.pc = "fill" /\ cb.t = file[g].t
      BY <1>1, <2>2, <3>1 DEF Expected
    <3>. QED BY <1>1, <2>1, <2>2, <3>2, JobIs, JobIsNext
  <2>3. CASE ~ (Mine(g).seq = rep'.seq /\ Awaiting(g) /\ ~ Mine(g).valid /\ at[g] \notin {"seq", "pend"})
    <3>1. Mine(g).seq # rep'.seq =>
            /\ Carries(toLinux', Mine(g).seq) <=> Carries(toLinux, Mine(g).seq)
            /\ Carries(toLinux, Mine(g).seq)
                  => Response(toLinux', Mine(g).seq) = Response(toLinux, Mine(g).seq)
      BY <1>1, <1>2, <1>3, ResponseAppend
    <3>. QED BY <1>1, <2>1, <2>3, <3>1, JobIs, JobIsNext
  <2>. QED BY <2>2, <2>3
<1>. QED BY <1>4

\* What the handler does to the table and answers, without callbacks.
LEMMA HandlerIs ==
    ASSUME Plain, NEW r, r.ind \in Idx, r.type # "BAD", config_msg_handler(r)
    PROVE  /\ r.type = "WR" => val' = [val EXCEPT ![r.ind] = Clamp(r.ind, r.val)] /\ rep'.type = "OK"
           /\ r.type # "WR" => val' = val
           /\ r.type = "RD" => rep' = [seq |-> r.seq, type |-> "RD_VAL", ind |-> r.ind, val |-> val[r.ind]]
           /\ r.type = "RD_MIN" => rep' = [seq |-> r.seq, type |-> "RD_MIN", ind |-> r.ind, val |-> VarMin[r.ind]]
           /\ r.type = "RD_MAX" => rep' = [seq |-> r.seq, type |-> "RD_MAX", ind |-> r.ind, val |-> VarMax[r.ind]]
           /\ r.type = "DESC" => rep' = [seq |-> r.seq, type |-> "DESC", ind |-> r.ind, val |-> val[r.ind]]
<1>1. AfterRead(r.ind) = val
  BY DEF Plain, AfterRead
<1>2. CASE HandleNop(r) \/ HandleNVars(r)
  BY <1>2 DEF HandleNop, HandleNVars
<1>3. CASE HandleWrite(r)
  BY <1>3 DEF HandleWrite, cfgSetInd, Reply
<1>4. CASE HandleRead(r)
  BY <1>1, <1>4 DEF HandleRead, Reply, Answered
<1>5. CASE HandleLimit(r)
  BY <1>5 DEF HandleLimit, Reply
<1>6. CASE HandleText(r)
  BY <1>6 DEF HandleText, Reply
<1>. QED BY <1>2, <1>3, <1>4, <1>5, <1>6 DEF config_msg_handler, HandleBadIndex, HandleUnknown

LEMMA FirmwareStep ==
    ASSUME NothingFails, Inv, WayInv, DataInv, StoreInv, Firmware
    PROVE  Store!Next \/ UNCHANGED Store!storeVars
<1> USE Shapes2 DEF Inv
<1>1. toBm # <<>> /\ out' = out /\ UNCHANGED <<trans, at, cb, file>>
  BY ReplySeq
<1> DEFINE r == Head(toBm)
<1>2. 1 \in 1 .. Len(toBm) /\ r = toBm[1] /\ r \in LinkRequest /\ r.ind \in Idx /\ r.type # "BAD" /\ r.val \in Int
  <2>1. 1 \in 1 .. Len(toBm) /\ r = toBm[1] /\ r \in LinkRequest
    BY <1>1
  <2>. QED BY <2>1 DEF StoreInv, NoErrors, LinkRequest, ReqTypes
<1>3. /\ r.type = "WR" => val' = [val EXCEPT ![r.ind] = Clamp(r.ind, r.val)] /\ rep'.type = "OK"
      /\ r.type # "WR" => val' = val
      /\ r.type = "RD" => rep' = [seq |-> r.seq, type |-> "RD_VAL", ind |-> r.ind, val |-> val[r.ind]]
      /\ r.type = "RD_MIN" => rep' = [seq |-> r.seq, type |-> "RD_MIN", ind |-> r.ind, val |-> VarMin[r.ind]]
      /\ r.type = "RD_MAX" => rep' = [seq |-> r.seq, type |-> "RD_MAX", ind |-> r.ind, val |-> VarMax[r.ind]]
      /\ r.type = "DESC" => rep' = [seq |-> r.seq, type |-> "DESC", ind |-> r.ind, val |-> val[r.ind]]
  <2>1. config_msg_handler(r)
    BY DEF Firmware
  <2>2. Plain
    BY DEF StoreInv
  <2>3. r.ind \in Idx /\ r.type # "BAD"
    BY <1>2
  <2> HIDE DEF r
  <2>. QED BY <2>1, <2>2, <2>3, HandlerIs
<1>4. Clamp(r.ind, r.val) = Store!Limited(r.ind, r.val) /\ Clamp(r.ind, r.val) \in VarMin[r.ind] .. VarMax[r.ind]
  BY <1>2, ClampIsLimited, SameLimits
<1> HIDE DEF r
<1>5. ASSUME NEW f \in Fds, IsOpen(f), file[f].t \in pending, Mine(f).seq = r.seq PROVE Store!Next
  <2>1. Others(f) /\ Job(f) = Asked(f) /\ Job(f)' = Served(rep')
    BY <1>2, <1>5, ReplyJobs
  <2>2. Awaiting(f) /\ (Mine(f).rnw <=> file[f].mode = "r") /\ file[f].mode \in {"r", "w"}
    BY <1>5, Due DEF Expected, WayInv, Direction
  <2>3. CASE file[f].op = "closing"
    <3>1. Puts(r, f)
      BY <1>2, <1>5, <2>3 DEF StoreInv, WriteInv, WriteOf
    <3>2. Wanted(f) = "WR"
      BY <2>2, <2>3 DEF WayInv, Direction, Wanted
    <3>3. /\ Job(f).phase = "asked" /\ Job(f).type = "WR" /\ Job(f).ind = r.ind /\ Job(f).val = r.val
      BY <2>1, <3>1, <3>2 DEF Asked, Puts
    <3>4. rep'.type = "OK" /\ val' = [val EXCEPT ![Job(f).ind] = Store!Limited(Job(f).ind, Job(f).val)]
      BY <1>3, <1>4, <3>1, <3>3 DEF Puts
    <3>5. Job(f)' = [phase |-> "served", type |-> "done", ind |-> -1, val |-> 0]
      BY <2>1, <3>4 DEF Served
    <3>. QED BY <1>1, <2>1, <3>3, <3>4, <3>5, ServesWrite
  <2>4. CASE file[f].op # "closing"
    <3>1. Reads(f)
      BY <2>2, <2>4 DEF Awaiting, Reads, SafeInv, Ready
    <3>2. Says(r, Asks(f), f)
      BY <1>2, <1>5, <3>1 DEF DataInv, OwnInv, OwnOf, NothingFails
    <3>3. Wanted(f) = Asks(f) /\ r.type = Asks(f) /\ r.ind = Path[f].ind /\ r.type \in {"RD", "RD_MIN", "RD_MAX", "DESC"}
      <4>1. file[f].mode = "r" /\ Mine(f).rnw
        BY <2>2, <3>1 DEF Reads
      <4>2. Path[f].acc \in {"VAL", "RD_MIN", "RD_MAX", "DESC"}
        BY PathAssumption DEF AccessTypes
      <4>. QED BY <3>2, <4>1, <4>2 DEF Says, Asks, Wanted
    <3>4. Job(f).phase = "asked" /\ Job(f).type = r.type /\ Job(f).ind = r.ind /\ r.type # "WR"
      BY <2>1, <3>3 DEF Asked
    <3> DEFINE a == Store!Truth(Job(f).type, Job(f).ind)
    <3>5. rep'.type = a.kind /\ rep'.ind = a.ind /\ rep'.val = a.val /\ rep'.type # "OK"
      <4>1. CASE r.type = "RD"
        BY <1>3, <3>4, <4>1 DEF Store!Truth, Store!Answer
      <4>2. CASE r.type = "RD_MIN"
        BY <1>3, <3>4, <4>2 DEF Store!Truth, Store!Answer
      <4>3. CASE r.type = "RD_MAX"
        BY <1>3, <3>4, <4>3 DEF Store!Truth, Store!Answer
      <4>4. CASE r.type = "DESC"
        BY <1>3, <3>4, <4>4 DEF Store!Truth, Store!Answer
      <4>. QED BY <3>3, <4>1, <4>2, <4>3, <4>4
    <3>6. a = Store!Truth(Job(f).type, Job(f).ind)
      OBVIOUS
    <3> HIDE DEF a
    <3>7. Job(f)' = [phase |-> "served", type |-> a.kind, ind |-> a.ind, val |-> a.val]
      BY <2>1, <3>5 DEF Served
    <3>. QED BY <1>1, <1>3, <2>1, <3>4, <3>6, <3>7, ServesRead
  <2>. QED BY <2>3, <2>4
<1>6. CASE \A f \in Fds : IsOpen(f) /\ file[f].t \in pending => Mine(f).seq # r.seq
  <2>1. [f \in Fds |-> Job(f)]' = [f \in Fds |-> Job(f)]
    BY <1>2, <1>6, OrphanJobs
  <2>2. CASE r.type # "WR"
    BY <1>1, <1>3, <2>1, <2>2 DEF Store!storeVars
  <2>3. CASE r.type = "WR"
    <3>1. Store!Local(r.ind)
      BY <1>1, <1>3, <1>4, <2>1, <2>3 DEF Store!Local
    <3>. QED BY <1>2, <3>1 DEF Store!Next
  <2>. QED BY <2>2, <2>3
<1>. QED BY <1>5, <1>6

\* Every step of the system is one of the store, or invisible to it.
LEMMA StoreStep ==
    ASSUME OneWay, FewStructs, NothingFails, Inv, WayInv, DataInv, StoreInv, [Next]_vars
    PROVE  [Store!Next]_(Store!storeVars)
<1> SUFFICES Store!Next \/ UNCHANGED Store!storeVars
  OBVIOUS
<1>1. ASSUME NEW f \in Fds, Begin(f) \/ Continue(f) \/ Interrupt(f), val' = val
      PROVE  Store!Next \/ UNCHANGED Store!storeVars
  <2>1. CASE \/ StartRead(f) \/ Write(f) \/ WriteBack(f) \/ Number(f) \/ Pend(f) \/ OpenSends(f)
             \/ CloseSends(f) \/ Sleep(f)
    BY <1>1, <2>1, HiddenStep
  <2>2. CASE OpenToWrite(f) \/ (\E mode \in Modes \ {"w"} : OpenToRead(f, mode)) \/ Close(f) \/ RejectClose(f)
    BY <1>1, <2>2, OpenCloseStep DEF OneWay
  <2>3. CASE Fill(f)
    BY <1>1, <2>3, FillStep
  <2>4. CASE FinishRead(f) \/ FinishClose(f)
    BY <1>1, <2>4, FinishStep
  <2>5. ~ Interrupt(f)
    BY DEF NothingFails, Interrupt, InterruptRead, InterruptClose
  <2>. QED BY <1>1, <2>1, <2>2, <2>3, <2>4, <2>5 DEF Begin, Continue
<1>2. CASE Linux
  <2>1. val' = val
    BY <1>2 DEF Linux, cfgVars
  <2>2. CASE Callback
    BY <2>1, <2>2, CallbackStep
  <2>. QED BY <1>1, <1>2, <2>1, <2>2 DEF Linux
<1>3. CASE Firmware
  BY <1>3, FirmwareStep
<1>4. CASE Application
  <2>1. PICK id \in Ids, v \in Ints : cfgSetId(id, v, TRUE)
    BY <1>4 DEF Application
  <2>2. v \in Int /\ IndexOf(id) \in Idx
    BY <2>1, IndexOfType, InputAssumption DEF cfgSetId
  <2>3. val' = [val EXCEPT ![IndexOf(id)] = Clamp(IndexOf(id), v)]
    BY <2>1 DEF cfgSetId, cfgSetInd
  <2>4. UNCHANGED <<trans, at, cb, toLinux, file, out>>
    BY <1>4 DEF Application, mgmtVars, linkVars, fileVars
  <2>5. \A f \in Fds : at[f] \in {"seq", "pend"} => IsOpen(f)
    BY NotYet
  <2>. QED BY <2>2, <2>3, <2>4, <2>5, LocalStep
<1>5. CASE UNCHANGED vars
  <2>1. UNCHANGED <<trans, at, cb, toLinux, file, out, val>>
    BY <1>5 DEF vars, mgmtVars, linkVars, fileVars, cfgVars
  <2>2. \A f \in Fds : Job(f)' = Job(f)
    BY <2>1, JobKept, NotYet DEF Mine
  <2>. QED BY <2>1, <2>2 DEF Store!storeVars
<1>. QED BY <1>2, <1>3, <1>4, <1>5 DEF Next

LEMMA StoreInit == Init => Store!Init
<1> SUFFICES ASSUME Init PROVE Store!Init
  OBVIOUS
<1>1. /\ \A f \in Fds : at[f] = "out" /\ file[f] = Closed
      /\ out = [f \in Fds |-> Result("none")] /\ val = VarInit
  BY DEF Init, MgmtInit, LinkInit, CfgInit
<1>2. \A f \in Fds : Job(f) = Store!NoJob
  <2> SUFFICES ASSUME NEW f \in Fds PROVE Job(f) = NoJob
    BY DEF NoJob, Store!NoJob
  <2>1. ~ Awaiting(f)
    BY <1>1 DEF Awaiting, Closed
  <2>. QED BY <1>1, <2>1, Nothing
<1>3. Store!NoAnswer = Result("none")
  BY DEF Store!NoAnswer, Store!Answer, Result
<1>. QED BY <1>1, <1>2, <1>3, TableAssumption DEF Store!Init

\* In a kernel without preemption, without signals and with files for existing
\* variables, each opened for reading or for writing and read before it is closed,
\* reads and writes through the files are linearizable: what debugfs_open_var,
\* debugfs_read_var and debugfs_release_var do through the link and
\* config_msg_handler takes effect at one instant on a table of limited values.
THEOREM StoreImplemented == ASSUME OneWay, FewStructs, NothingFails
                            PROVE  Spec => ImplementsStore
<1>1. Inv /\ WayInv /\ DataInv /\ [Next]_vars => DataInv'
  BY DataStep
<1>2. Inv /\ WayInv /\ DataInv /\ StoreInv /\ [Next]_vars => StoreInv' /\ [Store!Next]_(Store!storeVars)
  BY StoreInvStep, StoreStep
<1>3. Init => DataInv
  BY DataInit
<1>. QED BY <1>1, <1>2, <1>3, StoreInvInit, StoreInit, WayHolds, PTL DEF Spec, ImplementsStore, Store!Spec
=============================================================================
