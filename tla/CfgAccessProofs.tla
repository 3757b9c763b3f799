--------------------------- MODULE CfgAccessProofs ---------------------------
(***************************************************************************)
(* Proofs about the access path: types, the whereabouts of transaction     *)
(* structs and the wake-ups, for any number of files, processes, structs   *)
(* and variables.                                                          *)
(***************************************************************************)
EXTENDS CfgAccess, ConfigVarsProofs

(***************************************************************************)
(* Types.  The stage of access_var that a file is at depends on the        *)
(* operation in progress; only then is the file known to have a struct.    *)
(***************************************************************************)
TypeInv == TypeOK /\ OpStage

LEMMA ZeroedType == Zeroed \in Struct
  BY DEF Zeroed, Struct, NoText, Text, TextKinds

LEMMA StageOpen == ASSUME TypeInv, NEW f \in Fds, at[f] # "out"
                   PROVE  file[f].op # "closed" /\ file[f].t \in Trans /\ Mine(f) \in Struct
<1>1. file[f].op # "closed"
  BY DEF TypeInv, OpStage
<1>2. file[f].t \in Trans
  BY <1>1 DEF TypeInv, TypeOK, MgmtTypeOK
<1> QED BY <1>1, <1>2 DEF TypeInv, TypeOK, MgmtTypeOK, LinkTypeOK, Mine

\* A file operation that is not closed has a struct of the right type.
LEMMA OpenHasTrans == ASSUME TypeInv, NEW f \in Fds, file[f].op # "closed"
                      PROVE  file[f].t \in Trans /\ Mine(f) \in Struct
  BY DEF TypeInv, TypeOK, MgmtTypeOK, LinkTypeOK, Mine

LEMMA OpenType ==
    ASSUME TypeInv, NEW f \in Fds, NEW t \in Trans, NEW s \in Struct,
           NEW op \in {"open", "opening"}, NEW mode \in {"r", "w", "rw"},
           Alloc(t), trans' = [trans EXCEPT ![t] = s], Opened(f, op, mode, t),
           at' = [at EXCEPT ![f] = IF op = "open" THEN "out" ELSE "fill"],
           UNCHANGED <<pending, nextSeq, req, cb, nVars, toBm, toLinux, asleep>>
    PROVE  MgmtTypeOK' /\ OpStage'
<1>1. trans' \in [Trans -> Struct] /\ at' \in [Fds -> Stages]
  BY DEF TypeInv, TypeOK, MgmtTypeOK, LinkTypeOK, Stages
<1>2. unused' \subseteq Trans /\ heap' \subseteq Trans
  BY DEF TypeInv, TypeOK, MgmtTypeOK, LinkTypeOK, Alloc
<1>3. LinkTypeOK'
  BY <1>1, <1>2 DEF TypeInv, TypeOK, MgmtTypeOK, LinkTypeOK
<1>4. /\ file' \in [Fds -> File]
      /\ \A g \in Fds : file'[g].op # "closed" => file'[g].t \in Trans
  BY DEF TypeInv, TypeOK, MgmtTypeOK, Opened, File, Ops
<1>5. out' \in [Fds -> Results]
  BY DEF TypeInv, TypeOK, MgmtTypeOK, Opened, Results, Result, TextKinds
<1>6. OpStage'
  BY DEF TypeInv, TypeOK, MgmtTypeOK, LinkTypeOK, OpStage, Opened, File
<1> QED BY <1>3, <1>4, <1>5, <1>6 DEF TypeInv, TypeOK, MgmtTypeOK

LEMMA BeginType == ASSUME TypeInv, NEW f \in Fds, Begin(f)
                   PROVE  MgmtTypeOK' /\ OpStage'
<1>1. CASE OpenToWrite(f)
  <2>1. PICK t \in Trans : /\ Alloc(t)
                           /\ trans' = [trans EXCEPT ![t] = [Zeroed EXCEPT !.valid = TRUE]]
                           /\ Opened(f, "open", "w", t)
    BY <1>1 DEF OpenToWrite
  <2>2. [Zeroed EXCEPT !.valid = TRUE] \in Struct
    BY ZeroedType DEF Struct
  <2>3. at' = [at EXCEPT ![f] = "out"]
    BY <1>1 DEF OpenToWrite, TypeInv, OpStage, TypeOK, MgmtTypeOK, LinkTypeOK
  <2>4. UNCHANGED <<pending, nextSeq, req, cb, nVars, toBm, toLinux, asleep>>
    BY <1>1 DEF OpenToWrite
  <2> QED BY <2>1, <2>2, <2>3, <2>4, OpenType
<1>2. ASSUME NEW mode \in Modes \ {"w"}, OpenToRead(f, mode)
      PROVE  MgmtTypeOK' /\ OpStage'
  <2>1. PICK t \in Trans :
           /\ Alloc(t)
           /\ trans' = [trans EXCEPT ![t] = [Zeroed EXCEPT !.rnw = TRUE, !.wq = TRUE]]
           /\ Opened(f, "opening", mode, t)
    BY <1>2 DEF OpenToRead
  <2>2. [Zeroed EXCEPT !.rnw = TRUE, !.wq = TRUE] \in Struct
    BY ZeroedType DEF Struct
  <2>3. at' = [at EXCEPT ![f] = "fill"]
    BY <1>2 DEF OpenToRead, Enter
  <2>4. UNCHANGED <<pending, nextSeq, req, cb, nVars, toBm, toLinux, asleep>>
    BY <1>2 DEF OpenToRead
  <2>5. mode \in {"r", "w", "rw"}
    BY ModesAssumption
  <2> QED BY <2>1, <2>2, <2>3, <2>4, <2>5, OpenType
<1>3. CASE StartRead(f)
  <2>1. LinkTypeOK'
    BY <1>3 DEF StartRead, TypeInv, TypeOK, MgmtTypeOK, LinkTypeOK, Stages
  <2>2. OpStage'
    BY <1>3 DEF StartRead, TypeInv, TypeOK, MgmtTypeOK, LinkTypeOK, OpStage, File
  <2> QED BY <1>3, <2>1, <2>2 DEF StartRead, TypeInv, TypeOK, MgmtTypeOK, File, Ops
<1>4. CASE Write(f)
  <2>1. PICK text \in Inputs :
           trans' = [trans EXCEPT ![file[f].t] = [@ EXCEPT !.text = text, !.dirty = TRUE]]
    BY <1>4 DEF Write
  <2>2. text \in Text
    BY InputsAssumption DEF Text, UserText, JunkText, TextKinds
  <2>3. trans' \in [Trans -> Struct]
    BY <2>1, <2>2 DEF TypeInv, TypeOK, MgmtTypeOK, LinkTypeOK, Struct
  <2>4. LinkTypeOK'
    BY <1>4, <2>3 DEF Write, TypeInv, TypeOK, MgmtTypeOK, LinkTypeOK
  <2> QED BY <1>4, <2>4 DEF Write, TypeInv, TypeOK, MgmtTypeOK, OpStage, fileVars
<1>5. CASE Close(f)
  <2>1. file[f].t \in Trans
    BY <1>5, OpenHasTrans DEF Close, MayClose
  <2>2. LinkTypeOK'
    BY <1>5, <2>1, ZeroedType DEF Close, Return, TypeInv, TypeOK, MgmtTypeOK, LinkTypeOK
  <2>3. OpStage'
    BY <1>5 DEF Close, MayClose, Released, Closed, TypeInv, TypeOK, MgmtTypeOK, OpStage
  <2> QED BY <1>5, <2>2, <2>3 DEF Close, Released, Closed, TypeInv, TypeOK, MgmtTypeOK,
             File, Ops, Results, Result
<1>6. CASE WriteBack(f)
  <2>1. trans' \in [Trans -> Struct] /\ at' \in [Fds -> Stages]
    BY <1>6 DEF WriteBack, Prepared, Enter, TypeInv, TypeOK, MgmtTypeOK, LinkTypeOK, Struct, Stages
  <2>2. LinkTypeOK'
    BY <1>6, <2>1 DEF WriteBack, TypeInv, TypeOK, MgmtTypeOK, LinkTypeOK
  <2>3. OpStage'
    BY <1>6 DEF WriteBack, MayClose, Enter, TypeInv, TypeOK, MgmtTypeOK, LinkTypeOK, OpStage, File
  <2> QED BY <1>6, <2>2, <2>3 DEF WriteBack, MayClose, TypeInv, TypeOK, MgmtTypeOK, File, Ops
<1> QED BY <1>1, <1>2, <1>3, <1>4, <1>5, <1>6 DEF Begin

\* Steps that end the operation on a file, with or without its struct.
LEMMA ReleasedType ==
    ASSUME TypeInv, NEW f \in Fds, NEW k \in {"done", "failed"}, Released(f, k),
           LinkTypeOK', asleep' \subseteq Fds, at' = [at EXCEPT ![f] = "out"]
    PROVE  MgmtTypeOK' /\ OpStage'
<1>1. file' \in [Fds -> File] /\ out' \in [Fds -> Results]
  BY DEF Released, Closed, TypeInv, TypeOK, MgmtTypeOK, File, Ops, Results, Result
<1>2. \A g \in Fds : file'[g].op # "closed" => file'[g].t \in Trans
  BY DEF Released, Closed, TypeInv, TypeOK, MgmtTypeOK
<1>3. OpStage'
  BY DEF Released, Closed, TypeInv, TypeOK, MgmtTypeOK, LinkTypeOK, OpStage
<1> QED BY <1>1, <1>2, <1>3 DEF MgmtTypeOK

LEMMA RequestFilled ==
    ASSUME NEW r \in LinkRequest, NEW type \in ReqTypes, NEW i \in Int, NEW v \in Int
    PROVE  [r EXCEPT !.type = type, !.ind = i, !.val = v] \in LinkRequest
  BY DEF LinkRequest

LEMMA ContinueType == ASSUME TypeInv, NEW f \in Fds, Continue(f)
                      PROVE  MgmtTypeOK' /\ OpStage'
<1> USE DEF TypeInv, TypeOK, MgmtTypeOK
<1>1. CASE Fill(f)
  <2>1. at[f] = "fill"
    BY <1>1 DEF Fill, FillRequest
  <2>2. Mine(f) \in Struct
    BY <2>1, StageOpen
  <2>3. Path[f].ind \in Nat /\ Path[f].acc \in AccessTypes
    BY PathAssumption
  <2>4. Wanted(f) \in ReqTypes
    BY <2>3 DEF Wanted, AccessTypes, ReqTypes
  <2>5. (IF Wanted(f) = "WR" THEN Mine(f).text.val ELSE 0) \in Int
    BY <2>2 DEF Struct, Text
  <2> DEFINE v == IF Wanted(f) = "WR" THEN Mine(f).text.val ELSE 0
  <2>6. FillRequest(f, Wanted(f), Path[f].ind, v) /\ UNCHANGED fileVars
    BY <1>1 DEF Fill
  <2> HIDE DEF v
  <2>7. req' \in LinkRequest
    <3>1. v \in Int /\ Path[f].ind \in Int /\ req \in LinkRequest
      BY <2>3, <2>5 DEF v, LinkTypeOK
    <3> QED BY <2>4, <2>6, <3>1, RequestFilled DEF FillRequest
  <2>8. LinkTypeOK'
    BY <2>6, <2>7 DEF FillRequest, LinkTypeOK, Stages
  <2>9. OpStage'
    BY <2>6 DEF FillRequest, LinkTypeOK, OpStage, fileVars
  <2> QED BY <2>6, <2>8, <2>9 DEF fileVars
<1>2. CASE Number(f)
  <2>1. nextSeq' \in Nat
    BY <1>2, SeqAssumption DEF Number, TakeSeq, LinkTypeOK
  <2>2. LinkTypeOK'
    BY <1>2, <2>1 DEF Number, TakeSeq, LinkTypeOK, LinkRequest, Stages
  <2>3. OpStage'
    BY <1>2 DEF Number, TakeSeq, LinkTypeOK, OpStage, fileVars
  <2> QED BY <1>2, <2>2, <2>3 DEF Number, fileVars
<1>3. CASE Pend(f)
  <2>1. file[f].t \in Trans
    BY <1>3, StageOpen DEF Pend, AddPending
  <2>2. trans' \in [Trans -> Struct]
    BY <1>3, <2>1 DEF Pend, AddPending, LinkTypeOK, LinkRequest, Struct
  <2>3. LinkTypeOK'
    BY <1>3, <2>1, <2>2 DEF Pend, AddPending, LinkTypeOK, Stages
  <2>4. OpStage'
    BY <1>3 DEF Pend, AddPending, LinkTypeOK, OpStage, fileVars
  <2> QED BY <1>3, <2>3, <2>4 DEF Pend, fileVars
<1>4. CASE OpenSends(f)
  <2>1. toBm' \in Seq(LinkRequest)
    BY <1>4 DEF OpenSends, SendRequest, LinkTypeOK
  <2>2. LinkTypeOK'
    BY <1>4, <2>1 DEF OpenSends, SendRequest, LinkTypeOK, Stages
  <2>3. OpStage'
    BY <1>4 DEF OpenSends, SendRequest, LinkTypeOK, OpStage, File
  <2>4. file[f].t \in Trans
    BY <1>4, OpenHasTrans DEF OpenSends
  <2> QED BY <1>4, <2>2, <2>3, <2>4 DEF OpenSends, File, Ops
<1>5. CASE CloseSends(f)
  <2>1. toBm' \in Seq(LinkRequest)
    BY <1>5 DEF CloseSends, SendRequest, LinkTypeOK
  <2>2. LinkTypeOK'
    BY <1>5, <2>1 DEF CloseSends, SendRequest, LinkTypeOK, Stages
  <2>3. OpStage'
    BY <1>5 DEF CloseSends, SendRequest, LinkTypeOK, OpStage, fileVars
  <2> QED BY <1>5, <2>2, <2>3 DEF CloseSends, fileVars
<1>6. CASE RejectClose(f)
  <2>1. req' \in LinkRequest
    <3>1. "WR" \in ReqTypes /\ Path[f].ind \in Int /\ 0 \in Int /\ req \in LinkRequest
      BY PathAssumption DEF ReqTypes, LinkTypeOK
    <3>2. req' = [req EXCEPT !.type = "WR", !.ind = Path[f].ind, !.val = 0]
      BY <1>6 DEF RejectClose, RejectRequest
    <3> QED BY <3>1, <3>2, RequestFilled
  <2>2. trans' \in [Trans -> Struct] /\ unused' \subseteq Trans
    BY <1>6, ZeroedType, OpenHasTrans DEF RejectClose, Return, LinkTypeOK
  <2>3. at' \in [Fds -> Stages] /\ at' = [at EXCEPT ![f] = "out"]
    BY <1>6 DEF RejectClose, RejectRequest, LinkTypeOK, Stages
  <2>4. LinkTypeOK'
    BY <1>6, <2>1, <2>2, <2>3 DEF RejectClose, Return, LinkTypeOK
  <2> QED BY <1>6, <2>3, <2>4, ReleasedType DEF RejectClose
<1>7. CASE Sleep(f)
  BY <1>7 DEF Sleep, linkVars, LinkTypeOK, OpStage
<1>8. CASE FinishRead(f)
  <2>1. /\ at' = [at EXCEPT ![f] = "out"]
        /\ file' = [file EXCEPT ![f].op = "open", ![f].read = TRUE]
        /\ out' = [out EXCEPT ![f] = IF Mine(f).err THEN Result("failed") ELSE Mine(f).text]
        /\ UNCHANGED <<trans, unused, heap, pending, nextSeq, req, cb, nVars, toBm, toLinux, asleep>>
    BY <1>8 DEF FinishRead, Leave
  <2>2. file[f].t \in Trans /\ Mine(f) \in Struct
    BY <1>8, OpenHasTrans DEF FinishRead
  <2>3. out' \in [Fds -> Results]
    BY <2>1, <2>2 DEF Results, Result, Struct, Text
  <2>4. LinkTypeOK'
    BY <2>1 DEF LinkTypeOK, Stages
  <2>5. /\ file' \in [Fds -> File]
        /\ \A g \in Fds : file'[g].op # "closed" => file'[g].t \in Trans
    BY <2>1, <2>2 DEF File, Ops
  <2>6. OpStage'
    BY <2>1 DEF LinkTypeOK, OpStage, File
  <2> QED BY <2>1, <2>3, <2>4, <2>5, <2>6
<1>9. CASE FinishClose(f)
  <2>1. PICK k \in {"done", "failed"} : Released(f, k)
    BY <1>9 DEF FinishClose
  <2>2. file[f].t \in Trans
    BY <1>9, OpenHasTrans DEF FinishClose
  <2>3. trans' \in [Trans -> Struct] /\ unused' \subseteq Trans /\ heap' = heap
    BY <1>9, <2>2, ZeroedType DEF FinishClose, Return, LinkTypeOK
  <2>4. at' \in [Fds -> Stages] /\ at' = [at EXCEPT ![f] = "out"]
    BY <1>9 DEF FinishClose, Leave, LinkTypeOK, Stages
  <2>5. LinkTypeOK' /\ asleep' = asleep
    BY <1>9, <2>3, <2>4 DEF FinishClose, LinkTypeOK
  <2> QED BY <2>1, <2>4, <2>5, ReleasedType
<1> QED BY <1>1, <1>2, <1>3, <1>4, <1>5, <1>6, <1>7, <1>8, <1>9 DEF Continue

LEMMA InterruptType == ASSUME TypeInv, NEW f \in Fds, Interrupt(f)
                       PROVE  MgmtTypeOK' /\ OpStage'
<1> USE DEF TypeInv, TypeOK, MgmtTypeOK
<1>1. CASE InterruptRead(f)
  <2>1. LinkTypeOK'
    BY <1>1 DEF InterruptRead, Leave, LinkTypeOK, Stages
  <2>2. OpStage'
    BY <1>1 DEF InterruptRead, Leave, LinkTypeOK, OpStage, File
  <2>3. file[f].t \in Trans
    BY <1>1, OpenHasTrans DEF InterruptRead
  <2> QED BY <1>1, <2>1, <2>2, <2>3 DEF InterruptRead, File, Ops
<1>2. CASE InterruptClose(f)
  <2>1. LinkTypeOK' /\ at' = [at EXCEPT ![f] = "out"] /\ asleep' \subseteq Fds
    BY <1>2 DEF InterruptClose, Leave, LinkTypeOK, Stages
  <2> QED BY <1>2, <2>1, ReleasedType DEF InterruptClose
<1> QED BY <1>1, <1>2 DEF Interrupt

LEMMA TextStored ==
    ASSUME NEW s \in Struct, NEW text \in Text
    PROVE  /\ [s EXCEPT !.text = text, !.err = FALSE, !.valid = TRUE] \in Struct
           /\ [s EXCEPT !.text = text, !.valid = TRUE] \in Struct
  BY DEF Struct

LEMMA FilledType == ASSUME NEW s \in Struct, NEW m \in LinkResponse
                    PROVE  Filled(s, m) \in Struct
<1>1. CASE m.type \in ValueTexts
  <2>1. [kind |-> m.type, ind |-> m.ind, val |-> m.val] \in Text
    BY <1>1 DEF LinkResponse, Text, TextKinds
  <2>2. m.type \notin ErrorTexts
    BY <1>1 DEF ValueTexts, NumberTexts, ErrorTexts
  <2> QED BY <1>1, <2>1, <2>2, TextStored DEF Filled
<1>2. CASE m.type \notin ValueTexts /\ m.type \in ErrorTexts
  <2>1. [kind |-> m.type, ind |-> m.ind, val |-> 0] \in Text
    BY <1>2 DEF LinkResponse, Text, TextKinds
  <2> QED BY <1>2, <2>1, TextStored DEF Filled
<1>3. CASE m.type \notin ValueTexts /\ m.type \notin ErrorTexts
  BY <1>3 DEF Filled, Struct
<1> QED BY <1>1, <1>2, <1>3

LEMMA FinishedType == ASSUME NEW s \in Struct, NEW m \in LinkResponse
                      PROVE  Finished(s, m) \in Struct
  BY DEF Finished, Struct

LEMMA CallbackType == ASSUME TypeInv, Callback
                      PROVE  MgmtTypeOK' /\ OpStage'
<1> USE DEF TypeInv, TypeOK, MgmtTypeOK
<1>1. CASE CbMatch /\ UNCHANGED fileVars
  <2>1. PICK t \in pending : /\ pending' = pending \ {t}
                             /\ cb' = [pc |-> "fill", t |-> t, msg |-> Head(toLinux)]
    BY <1>1 DEF CbMatch, Matches, Unlink
  <2>2. Head(toLinux) \in LinkResponse /\ Tail(toLinux) \in Seq(LinkResponse)
    BY <1>1 DEF CbMatch, LinkTypeOK
  <2>3. LinkTypeOK'
    BY <1>1, <2>1, <2>2 DEF CbMatch, LinkTypeOK
  <2> QED BY <1>1, <2>3 DEF CbMatch, OpStage, fileVars
<1>2. CASE CbDrop /\ UNCHANGED fileVars
  <2>1. Tail(toLinux) \in Seq(LinkResponse)
    BY <1>2 DEF CbDrop, LinkTypeOK
  <2> QED BY <1>2, <2>1 DEF CbDrop, LinkTypeOK, OpStage, fileVars
<1>3. CASE CbFill /\ UNCHANGED fileVars
  <2>1. cb.t \in Trans /\ cb.msg \in LinkResponse
    BY <1>3 DEF CbFill, LinkTypeOK
  <2>2. trans' \in [Trans -> Struct]
    BY <1>3, <2>1, FilledType DEF CbFill, LinkTypeOK
  <2>3. nVars' \in Int
    BY <1>3, <2>1 DEF CbFill, LinkTypeOK, LinkResponse
  <2>4. LinkTypeOK'
    BY <1>3, <2>1, <2>2, <2>3 DEF CbFill, LinkTypeOK
  <2> QED BY <1>3, <2>4 DEF CbFill, OpStage, fileVars
<1>4. CASE Wake
  <2>1. cb.t \in Trans /\ cb.msg \in LinkResponse
    BY <1>4 DEF Wake, CbFinish, LinkTypeOK
  <2>2. trans' \in [Trans -> Struct]
    BY <1>4, <2>1, FinishedType DEF Wake, CbFinish, LinkTypeOK
  <2>3. LinkTypeOK'
    BY <1>4, <2>2 DEF Wake, CbFinish, LinkTypeOK, CbIdle, NoResponse, LinkResponse, LinkTypes
  <2> QED BY <1>4, <2>3 DEF Wake, CbFinish, OpStage
<1> QED BY <1>1, <1>2, <1>3, <1>4 DEF Callback

LEMMA FirmwareType == ASSUME TypeInv, Firmware
                      PROVE  TypeOK' /\ OpStage'
<1> USE DEF TypeInv, TypeOK, MgmtTypeOK
<1>1. Head(toBm) \in LinkRequest /\ Tail(toBm) \in Seq(LinkRequest)
  BY DEF Firmware, LinkTypeOK
<1>2. Head(toBm) \in Message(Requests)
  BY <1>1 DEF LinkRequest, Message, ReqTypes, Requests, VarRequests
<1>3. CfgTypeOK'
  BY <1>2, HandlerType DEF Firmware
<1>4. rep' \in LinkResponse
  BY <1>3 DEF CfgTypeOK, Message, Responses, LinkResponse, LinkTypes, ValueTexts,
              NumberTexts, ErrorTexts
<1>5. toLinux' \in Seq(LinkResponse)
  BY <1>4 DEF Firmware, LinkTypeOK
<1>6. LinkTypeOK'
  BY <1>1, <1>5 DEF Firmware, LinkTypeOK
<1>7. MgmtTypeOK' /\ OpStage'
  BY <1>6 DEF Firmware, OpStage, fileVars
<1> QED BY <1>3, <1>7

LEMMA InitType == Init => TypeInv
<1> SUFFICES ASSUME Init PROVE TypeInv
  OBVIOUS
<1>1. LinkTypeOK
  <2>1. trans \in [Trans -> Struct]
    BY ZeroedType DEF Init, MgmtInit, LinkInit
  <2>2. req \in LinkRequest /\ at \in [Fds -> Stages]
    BY DEF Init, MgmtInit, LinkInit, LinkRequest, ReqTypes, Stages
  <2>3. cb \in [pc : {"idle", "fill", "finish"}, t : Trans \cup {NoTrans}, msg : LinkResponse]
    BY DEF Init, MgmtInit, LinkInit, CbIdle, NoResponse, LinkResponse, LinkTypes
  <2>4. nVars \in Int
    BY NVarsAssumption DEF Init
  <2> QED BY <2>1, <2>2, <2>3, <2>4, PoolAssumption
          DEF Init, MgmtInit, LinkInit, LinkTypeOK, CbIdle
<1>2. MgmtTypeOK
  BY <1>1 DEF Init, MgmtInit, MgmtTypeOK, Closed, File, Ops, Results, Result
<1>3. OpStage
  BY DEF Init, MgmtInit, LinkInit, OpStage, Closed
<1> QED BY <1>2, <1>3, CfgInitType DEF Init, TypeInv, TypeOK

LEMMA StepType == TypeInv /\ [Next]_vars => TypeInv'
<1> SUFFICES ASSUME TypeInv, [Next]_vars PROVE TypeInv'
  OBVIOUS
<1>1. CASE Linux
  <2>1. MgmtTypeOK' /\ OpStage'
    BY <1>1, BeginType, ContinueType, InterruptType, CallbackType DEF Linux
  <2>2. CfgTypeOK'
    BY <1>1 DEF Linux, cfgVars, TypeInv, TypeOK, CfgTypeOK
  <2> QED BY <2>1, <2>2 DEF TypeInv, TypeOK
<1>2. CASE Firmware
  BY <1>2, FirmwareType DEF TypeInv
<1>3. CASE Application
  <2>1. PICK id \in Ids, v \in Ints : cfgSetId(id, v, TRUE) /\ UNCHANGED mgmtVars
    BY <1>3 DEF Application
  <2>2. CfgTypeOK'
    BY <2>1, SetIdType, InputAssumption DEF TypeInv, TypeOK
  <2> QED BY <2>1, <2>2 DEF mgmtVars, linkVars, fileVars, TypeInv, TypeOK, MgmtTypeOK,
             LinkTypeOK, OpStage
<1>4. CASE UNCHANGED vars
  BY <1>4 DEF vars, mgmtVars, cfgVars, linkVars, fileVars, TypeInv, TypeOK, MgmtTypeOK,
     LinkTypeOK, CfgTypeOK, OpStage
<1> QED BY <1>1, <1>2, <1>3, <1>4 DEF Next

\* Every variable of the composed system keeps its type.
THEOREM TypeCorrect == Spec => []TypeOK
<1>1. TypeInv => TypeOK
  BY DEF TypeInv
<1> QED BY <1>1, InitType, StepType, PTL DEF Spec

(***************************************************************************)
(* Whereabouts and wake-ups.  One lemma per group of actions, one step per *)
(* action and under it one per part of the invariant.                      *)
(***************************************************************************)
Inv == TypeInv /\ SafeInv

\* What the type invariant says of the variables the invariant is about.
LEMMA Shapes ==
    ASSUME TypeInv
    PROVE  /\ trans \in [Trans -> Struct]
           /\ unused \subseteq Trans /\ heap \subseteq Trans /\ pending \subseteq Trans
           /\ at \in [Fds -> Stages]
           /\ file \in [Fds -> File]
           /\ asleep \subseteq Fds
           /\ cb.pc # "idle" => cb.t \in Trans
           /\ \A f \in Fds : IsOpen(f) => file[f].t \in Trans
  BY DEF TypeInv, TypeOK, MgmtTypeOK, LinkTypeOK, IsOpen

\* A struct fresh from the pool is nobody's: the file that opens with it is the
\* only one to have it, and no response is under way to it.
LEMMA OpenSafe ==
    ASSUME Inv, NEW f \in Fds, NEW t \in Trans, NEW s \in Struct,
           NEW op \in {"open", "opening"}, NEW mode \in {"r", "w", "rw"},
           file[f].op = "closed", Alloc(t),
           trans' = [trans EXCEPT ![t] = s], Opened(f, op, mode, t),
           at' = [at EXCEPT ![f] = IF op = "open" THEN "out" ELSE "fill"],
           mode = "w" <=> op = "open",
           mode = "w" \/ (s.wq /\ ~ s.valid),
           UNCHANGED <<pending, cb, asleep>>
    PROVE  Places' /\ Flight' /\ Ready' /\ WakeUp'
<1> USE Shapes DEF Inv
<1>1. t \in unused \cup heap
  BY DEF Alloc
<1>2. /\ unused' \cup heap' \subseteq (unused \cup heap) \ {t}
      /\ unused' \cap heap' \subseteq unused \cap heap
  BY DEF Alloc, SafeInv, Places
<1>3. /\ file' = [file EXCEPT ![f] = [op |-> op, mode |-> mode, t |-> t, read |-> FALSE]]
      /\ ~ IsOpen(f) /\ at[f] = "out" /\ f \notin asleep
  BY DEF Opened, IsOpen, SafeInv, OpStage, WakeUp
<1>4. \A g \in Fds : IsOpen(g) => file[g].t # t
  BY <1>1 DEF SafeInv, Places
<1>5. t \notin pending /\ (cb.pc = "fill" => cb.t # t)
  BY <1>1 DEF SafeInv, Flight
<1>6. Places'
  BY <1>2, <1>3, <1>4 DEF SafeInv, Places, IsOpen, File
<1>7. Flight'
  BY <1>2, <1>3, <1>4, <1>5 DEF SafeInv, Flight, IsOpen, Awaiting, Mine, File
<1>8. Ready'
  BY <1>3, <1>4 DEF SafeInv, OpStage, Ready, IsOpen, Mine, File
<1>9. WakeUp'
  BY <1>3, <1>4 DEF SafeInv, OpStage, WakeUp, NoLostWakeup, IsOpen, Mine, CbWakes, File
<1> QED BY <1>6, <1>7, <1>8, <1>9

\* Closing returns the struct of a file that awaits nothing, or forgets it.
LEMMA ReleaseSafe ==
    ASSUME Inv, NEW f \in Fds, NEW k, IsOpen(f), Released(f, k),
           \/ /\ Return(file[f].t)
              /\ file[f].t \notin pending /\ ~ (cb.pc = "fill" /\ cb.t = file[f].t)
           \/ UNCHANGED <<trans, unused, heap>>,
           at' = [at EXCEPT ![f] = "out"], asleep' = asleep \ {f},
           UNCHANGED <<pending, cb>>
    PROVE  Places' /\ Flight' /\ Ready' /\ WakeUp'
<1> USE Shapes DEF Inv
<1>1. file' = [file EXCEPT ![f] = Closed]
  BY DEF Released
<1>2. \A g \in Fds : IsOpen(g) /\ g # f => file[g].t # file[f].t
  BY DEF SafeInv, Places
<1>3. file[f].t \in Trans
  OBVIOUS
<1>4. file[f].t \notin heap
  BY DEF SafeInv, Places
<1>5. Places'
  BY <1>1, <1>2, <1>3, <1>4 DEF SafeInv, Places, IsOpen, Return, Closed
<1>6. Flight'
  BY <1>1, <1>2, <1>3, <1>4 DEF SafeInv, Flight, IsOpen, Awaiting, Mine, Return, Closed
<1>7. Ready'
  BY <1>1, <1>2, <1>3 DEF SafeInv, Ready, OpStage, IsOpen, Mine, Return, Closed
<1>8. WakeUp'
  BY <1>1, <1>2, <1>3 DEF SafeInv, WakeUp, NoLostWakeup, OpStage, IsOpen, Mine, CbWakes,
                          Return, Closed
<1> QED BY <1>5, <1>6, <1>7, <1>8

\* The response to a file that awaits none has been used: nothing is in flight.
LEMMA SettledFile ==
    ASSUME Inv, NEW f \in Fds, IsOpen(f), ~ Awaiting(f) \/ Mine(f).valid
    PROVE  file[f].t \notin pending /\ ~ (cb.pc = "fill" /\ cb.t = file[f].t)
  BY DEF Inv, SafeInv, Flight

LEMMA BeginSafe == ASSUME Inv, NEW f \in Fds, Begin(f), ~ ClosesUnread(f)
                   PROVE  Places' /\ Flight' /\ Ready' /\ WakeUp'
<1> USE Shapes DEF Inv
<1>1. CASE OpenToWrite(f)
  <2>1. PICK t \in Trans : /\ Alloc(t)
                           /\ trans' = [trans EXCEPT ![t] = [Zeroed EXCEPT !.valid = TRUE]]
                           /\ Opened(f, "open", "w", t)
    BY <1>1 DEF OpenToWrite
  <2>2. at' = [at EXCEPT ![f] = "out"] /\ file[f].op = "closed"
    BY <1>1 DEF OpenToWrite, SafeInv, OpStage
  <2>3. UNCHANGED <<pending, cb, asleep>>
    BY <1>1 DEF OpenToWrite
  <2>4. [Zeroed EXCEPT !.valid = TRUE] \in Struct
    BY ZeroedType DEF Struct
  <2> QED BY <2>1, <2>2, <2>3, <2>4, OpenSafe
<1>2. ASSUME NEW mode \in Modes \ {"w"}, OpenToRead(f, mode)
      PROVE  Places' /\ Flight' /\ Ready' /\ WakeUp'
  <2> DEFINE s == [Zeroed EXCEPT !.rnw = TRUE, !.wq = TRUE]
  <2>1. PICK t \in Trans : /\ Alloc(t)
                           /\ trans' = [trans EXCEPT ![t] = s]
                           /\ Opened(f, "opening", mode, t)
    BY <1>2 DEF OpenToRead
  <2>2. at' = [at EXCEPT ![f] = "fill"] /\ file[f].op = "closed"
    BY <1>2 DEF OpenToRead, Enter
  <2>3. UNCHANGED <<pending, cb, asleep>>
    BY <1>2 DEF OpenToRead
  <2>4. s \in Struct /\ s.wq /\ ~ s.valid
    BY ZeroedType DEF Struct, Zeroed
  <2>5. mode \in {"r", "w", "rw"} /\ mode # "w"
    BY ModesAssumption
  <2> HIDE DEF s
  <2> QED BY <2>1, <2>2, <2>3, <2>4, <2>5, OpenSafe
<1>3. CASE StartRead(f)
  <2>1. /\ file' = [file EXCEPT ![f].op = "reading"] /\ at' = [at EXCEPT ![f] = "wait"]
        /\ file[f].op = "open" /\ file[f].mode # "w" /\ ~ file[f].read
        /\ UNCHANGED <<trans, unused, heap, pending, cb, asleep>>
    BY <1>3 DEF StartRead
  <2>2. Places'
    BY <2>1 DEF SafeInv, Places, IsOpen, File
  <2>3. Flight'
    BY <2>1 DEF SafeInv, Flight, OpStage, IsOpen, Awaiting, Mine, File
  <2>4. Ready'
    BY <2>1 DEF SafeInv, Ready, Mine, File
  <2>5. WakeUp'
    BY <2>1 DEF SafeInv, WakeUp, NoLostWakeup, IsOpen, Mine, CbWakes, File
  <2> QED BY <2>2, <2>3, <2>4, <2>5
<1>4. CASE Write(f)
  <2>1. PICK text \in Inputs :
           trans' = [trans EXCEPT ![file[f].t] = [@ EXCEPT !.text = text, !.dirty = TRUE]]
    BY <1>4 DEF Write
  <2>2. \A t \in Trans : trans'[t].valid = trans[t].valid /\ trans'[t].wq = trans[t].wq
    BY <2>1 DEF Struct
  <2>3. UNCHANGED <<unused, heap, pending, at, cb, file, asleep>>
    BY <1>4 DEF Write, fileVars
  <2>4. Places'
    BY <2>3 DEF SafeInv, Places, IsOpen
  <2>5. Flight'
    BY <2>2, <2>3 DEF SafeInv, Flight, IsOpen, Awaiting, Mine
  <2>6. Ready'
    BY <2>2, <2>3 DEF SafeInv, Ready, OpStage, IsOpen, Mine
  <2>7. WakeUp'
    BY <2>2, <2>3 DEF SafeInv, WakeUp, NoLostWakeup, OpStage, IsOpen, Mine, CbWakes
  <2> QED BY <2>4, <2>5, <2>6, <2>7
<1>5. ASSUME MayClose(f), file'[f].op \in {"closing", "closed"}
      PROVE  IsOpen(f) /\ at[f] = "out" /\ f \notin asleep /\ ~ Awaiting(f)
  BY <1>5 DEF MayClose, IsOpen, ClosesUnread, SafeInv, OpStage, WakeUp
<1>6. CASE Close(f)
  <2>1. MayClose(f) /\ Return(file[f].t) /\ UNCHANGED <<pending, at, cb, asleep>>
    BY <1>6 DEF Close
  <2>2. PICK k : Released(f, k)
    BY <1>6 DEF Close
  <2>3. file'[f].op = "closed"
    BY <2>2 DEF Released, Closed
  <2>4. at' = [at EXCEPT ![f] = "out"] /\ asleep' = asleep \ {f}
    BY <1>5, <2>1, <2>3
  <2> QED BY <1>5, <2>1, <2>2, <2>3, <2>4, SettledFile, ReleaseSafe
<1>7. CASE WriteBack(f)
  <2>1. /\ trans' = [trans EXCEPT ![file[f].t] = Prepared(@)]
        /\ file' = [file EXCEPT ![f].op = "closing"]
        /\ at' = [at EXCEPT ![f] = "fill"]
        /\ file[f].op = "open" /\ MayClose(f)
        /\ UNCHANGED <<unused, heap, pending, cb, asleep>>
    BY <1>7 DEF WriteBack, MayClose, Enter
  <2>0. file'[f].op = "closing"
    BY <2>1 DEF File
  <2>2. file[f].t \notin pending /\ ~ (cb.pc = "fill" /\ cb.t = file[f].t)
    BY <1>5, <2>0, <2>1, SettledFile
  <2>3. \A g \in Fds : IsOpen(g) /\ g # f => file[g].t # file[f].t
    BY <1>5, <2>0, <2>1 DEF SafeInv, Places
  <2>4. Places'
    BY <2>1 DEF SafeInv, Places, IsOpen, File
  <2>5. Flight'
    BY <2>1, <2>2, <2>3 DEF SafeInv, Flight, IsOpen, Awaiting, Mine, File, Struct, Prepared
  <2>6. Ready'
    BY <2>1, <2>3 DEF SafeInv, Ready, OpStage, IsOpen, Mine, File, Struct, Prepared
  <2>7. WakeUp'
    BY <1>5, <2>0, <2>1, <2>3 DEF SafeInv, WakeUp, NoLostWakeup, OpStage, IsOpen, Mine, CbWakes,
                            File, Struct, Prepared
  <2> QED BY <2>4, <2>5, <2>6, <2>7
<1> QED BY <1>1, <1>2, <1>3, <1>4, <1>6, <1>7 DEF Begin

\* Steps of access_var that touch neither the lists nor a struct, and keep the
\* file on its way to sending.
LEMMA StageSafe ==
    ASSUME Inv, NEW f \in Fds, NEW stage \in Stages,
           \/ at[f] \in {"fill", "seq"} /\ stage \in {"seq", "pend"}
           \/ at[f] = "send" /\ file[f].op = "closing" /\ stage = "wait",
           at' = [at EXCEPT ![f] = stage],
           UNCHANGED <<trans, unused, heap, pending, cb, file, asleep>>
    PROVE  Places' /\ Flight' /\ Ready' /\ WakeUp'
<1> USE Shapes DEF Inv
<1>1. Places'
  BY DEF SafeInv, Places, IsOpen
<1>2. Flight'
  BY DEF SafeInv, Flight, OpStage, IsOpen, Awaiting, Mine
<1>3. Ready'
  BY DEF SafeInv, Ready, OpStage, IsOpen, Mine
<1>4. WakeUp'
  BY DEF SafeInv, WakeUp, NoLostWakeup, OpStage, IsOpen, Mine, CbWakes
<1> QED BY <1>1, <1>2, <1>3, <1>4

LEMMA ContinueSafe == ASSUME Inv, NEW f \in Fds, Continue(f)
                      PROVE  Places' /\ Flight' /\ Ready' /\ WakeUp'
<1> USE Shapes DEF Inv
<1>1. CASE Fill(f)
  <2>1. /\ at[f] = "fill" /\ at' = [at EXCEPT ![f] = "seq"]
        /\ UNCHANGED <<trans, unused, heap, pending, cb, file, asleep>>
    BY <1>1 DEF Fill, FillRequest, fileVars
  <2> QED BY <2>1, StageSafe DEF Stages
<1>2. CASE Number(f)
  <2>1. /\ at[f] = "seq" /\ at' = [at EXCEPT ![f] = "pend"]
        /\ UNCHANGED <<trans, unused, heap, pending, cb, file, asleep>>
    BY <1>2 DEF Number, TakeSeq, fileVars
  <2> QED BY <2>1, StageSafe DEF Stages
<1>3. CASE Pend(f)
  <2>1. /\ at[f] = "pend" /\ at' = [at EXCEPT ![f] = "send"]
        /\ trans' = [trans EXCEPT ![file[f].t].seq = req.seq]
        /\ pending' = pending \cup {file[f].t}
        /\ UNCHANGED <<unused, heap, cb, file, asleep>>
    BY <1>3 DEF Pend, AddPending, fileVars
  <2>2. /\ IsOpen(f) /\ file[f].op \in {"opening", "closing"} /\ ~ Awaiting(f)
        /\ file[f].t \in Trans /\ ~ Mine(f).valid
    <3>1. file[f].op \in Ops
      BY DEF File
    <3>2. file[f].op \in {"opening", "closing"}
      BY <2>1, <3>1 DEF SafeInv, OpStage, Ops
    <3>3. ~ Mine(f).valid
      BY <2>1 DEF SafeInv, Ready
    <3> QED BY <2>1, <3>2, <3>3 DEF IsOpen, Awaiting
  <2>3. \A t \in Trans : trans'[t].valid = trans[t].valid /\ trans'[t].wq = trans[t].wq
    BY <2>1 DEF Struct
  <2>4. ~ (cb.pc = "fill" /\ cb.t = file[f].t)
    BY <2>2, SettledFile
  <2>5. \A g \in Fds : IsOpen(g) /\ g # f => file[g].t # file[f].t
    BY <2>2 DEF SafeInv, Places
  <2>6. file[f].t \notin unused \cup heap
    BY <2>2 DEF SafeInv, Places
  <2>7. Places'
    BY <2>1 DEF SafeInv, Places, IsOpen
  <2>8. Flight'
    BY <2>1, <2>2, <2>3, <2>4, <2>5, <2>6 DEF SafeInv, Flight, IsOpen, Awaiting, Mine
  <2>9. Ready'
    BY <2>1, <2>3 DEF SafeInv, Ready, OpStage, IsOpen, Mine
  <2>10. WakeUp'
    BY <2>1, <2>3 DEF SafeInv, WakeUp, NoLostWakeup, OpStage, IsOpen, Mine, CbWakes
  <2> QED BY <2>7, <2>8, <2>9, <2>10
<1>4. CASE OpenSends(f)
  <2>1. /\ at[f] = "send" /\ at' = [at EXCEPT ![f] = "out"]
        /\ file[f].op = "opening" /\ file' = [file EXCEPT ![f].op = "open"]
        /\ UNCHANGED <<trans, unused, heap, pending, cb, asleep>>
    BY <1>4 DEF OpenSends, SendRequest
  <2>2. file[f].mode # "w" /\ ~ file[f].read /\ f \notin asleep
    BY <2>1 DEF SafeInv, Ready, WakeUp
  <2>3. Places'
    BY <2>1 DEF SafeInv, Places, IsOpen, File
  <2>4. Flight'
    BY <2>1, <2>2 DEF SafeInv, Flight, OpStage, IsOpen, Awaiting, Mine, File
  <2>5. Ready'
    BY <2>1 DEF SafeInv, Ready, IsOpen, Mine, File
  <2>6. WakeUp'
    BY <2>1, <2>2 DEF SafeInv, WakeUp, NoLostWakeup, IsOpen, Mine, CbWakes, File
  <2> QED BY <2>3, <2>4, <2>5, <2>6
<1>5. CASE CloseSends(f)
  <2>1. /\ at[f] = "send" /\ at' = [at EXCEPT ![f] = "wait"] /\ file[f].op = "closing"
        /\ UNCHANGED <<trans, unused, heap, pending, cb, file, asleep>>
    BY <1>5 DEF CloseSends, SendRequest, fileVars
  <2> QED BY <2>1, StageSafe DEF Stages
<1>6. CASE RejectClose(f)
  <2>1. /\ at[f] = "fill" /\ at' = [at EXCEPT ![f] = "out"]
        /\ Return(file[f].t) /\ Released(f, "failed")
        /\ UNCHANGED <<pending, cb, asleep>>
    BY <1>6 DEF RejectClose, RejectRequest
  <2>2. IsOpen(f) /\ ~ Awaiting(f) /\ asleep' = asleep \ {f}
    BY <1>6, <2>1 DEF RejectClose, IsOpen, Awaiting, SafeInv, WakeUp
  <2> QED BY <2>1, <2>2, SettledFile, ReleaseSafe
<1>7. CASE Sleep(f)
  <2>1. /\ at[f] = "wait" /\ ~ Mine(f).valid /\ asleep' = asleep \cup {f}
        /\ UNCHANGED <<trans, unused, heap, pending, at, cb, file>>
    BY <1>7 DEF Sleep, Waiting, linkVars
  <2> QED BY <2>1 DEF SafeInv, Places, Flight, Ready, WakeUp, NoLostWakeup, IsOpen, Awaiting,
             Mine, CbWakes
<1>8. CASE FinishRead(f)
  <2>1. /\ file[f].op = "reading" /\ f \notin asleep /\ Mine(f).valid
        /\ file' = [file EXCEPT ![f].op = "open", ![f].read = TRUE]
        /\ at' = [at EXCEPT ![f] = "out"]
        /\ UNCHANGED <<trans, unused, heap, pending, cb, asleep>>
    BY <1>8 DEF FinishRead, Waiting, Leave
  <2>2. file[f].t \notin pending /\ ~ (cb.pc = "fill" /\ cb.t = file[f].t)
    BY <2>1, SettledFile DEF IsOpen
  <2>3. Places'
    BY <2>1 DEF SafeInv, Places, IsOpen, File
  <2>4. Flight'
    BY <2>1, <2>2 DEF SafeInv, Flight, IsOpen, Awaiting, Mine, File
  <2>5. Ready'
    BY <2>1 DEF SafeInv, Ready, Mine, File
  <2>6. WakeUp'
    BY <2>1 DEF SafeInv, WakeUp, NoLostWakeup, IsOpen, Mine, CbWakes, File
  <2> QED BY <2>3, <2>4, <2>5, <2>6
<1>9. CASE FinishClose(f)
  <2>1. /\ IsOpen(f) /\ f \notin asleep /\ Mine(f).valid
        /\ at' = [at EXCEPT ![f] = "out"] /\ UNCHANGED <<pending, cb, asleep>>
        /\ Return(file[f].t) \/ UNCHANGED <<trans, unused, heap>>
    BY <1>9 DEF FinishClose, Waiting, Leave, IsOpen
  <2>2. PICK k : Released(f, k)
    BY <1>9 DEF FinishClose
  <2>3. asleep' = asleep \ {f}
    BY <2>1
  <2> QED BY <2>1, <2>2, <2>3, SettledFile, ReleaseSafe
<1> QED BY <1>1, <1>2, <1>3, <1>4, <1>5, <1>6, <1>7, <1>8, <1>9 DEF Continue

LEMMA InterruptSafe == ASSUME Inv, NEW f \in Fds, Interrupt(f)
                       PROVE  Places' /\ Flight' /\ Ready' /\ WakeUp'
<1> USE Shapes DEF Inv
<1>1. CASE InterruptRead(f)
  <2>1. /\ file[f].op = "reading" /\ file' = [file EXCEPT ![f].op = "open"]
        /\ at' = [at EXCEPT ![f] = "out"] /\ asleep' = asleep \ {f}
        /\ UNCHANGED <<trans, unused, heap, pending, cb>>
    BY <1>1 DEF InterruptRead, Leave
  <2>2. file[f].mode # "w" /\ ~ file[f].read
    BY <2>1 DEF SafeInv, Ready
  <2>3. Places'
    BY <2>1 DEF SafeInv, Places, IsOpen, File
  <2>4. Flight'
    BY <2>1, <2>2 DEF SafeInv, Flight, IsOpen, Awaiting, Mine, File
  <2>5. Ready'
    BY <2>1 DEF SafeInv, Ready, Mine, File
  <2>6. WakeUp'
    BY <2>1, <2>2 DEF SafeInv, WakeUp, NoLostWakeup, IsOpen, Mine, CbWakes, File
  <2> QED BY <2>3, <2>4, <2>5, <2>6
<1>2. CASE InterruptClose(f)
  <2>1. /\ IsOpen(f) /\ Released(f, "failed") /\ asleep' = asleep \ {f}
        /\ at' = [at EXCEPT ![f] = "out"]
        /\ UNCHANGED <<trans, unused, heap, pending, cb>>
    BY <1>2 DEF InterruptClose, Leave, IsOpen
  <2> QED BY <2>1, ReleaseSafe
<1> QED BY <1>1, <1>2 DEF Interrupt

LEMMA CallbackSafe == ASSUME Inv, Callback
                      PROVE  Places' /\ Flight' /\ Ready' /\ WakeUp'
<1> USE Shapes DEF Inv
<1>1. CASE CbMatch /\ UNCHANGED fileVars
  <2>1. PICK t \in pending : /\ pending' = pending \ {t}
                             /\ cb' = [pc |-> "fill", t |-> t, msg |-> Head(toLinux)]
    BY <1>1 DEF CbMatch, Matches, Unlink
  <2>2. UNCHANGED <<trans, unused, heap, at, file, asleep>> /\ cb.pc = "idle"
    BY <1>1 DEF CbMatch, fileVars
  <2> QED BY <2>1, <2>2 DEF SafeInv, Places, Flight, Ready, WakeUp, NoLostWakeup, IsOpen,
             Awaiting, Mine, CbWakes
<1>2. CASE CbDrop /\ UNCHANGED fileVars
  <2>1. UNCHANGED <<trans, unused, heap, pending, at, cb, file, asleep>>
    BY <1>2 DEF CbDrop, fileVars
  <2> QED BY <2>1 DEF SafeInv, Places, Flight, Ready, WakeUp, NoLostWakeup, IsOpen,
             Awaiting, Mine, CbWakes
<1>3. CASE CbFill /\ UNCHANGED fileVars
  <2>1. /\ cb.pc = "fill" /\ cb.t \in Trans
        /\ trans' = [trans EXCEPT ![cb.t] = Filled(trans[cb.t], cb.msg)]
        /\ cb' = [cb EXCEPT !.pc = "finish"]
        /\ UNCHANGED <<unused, heap, pending, at, file, asleep>>
    BY <1>3 DEF CbFill, fileVars
  <2>2. cb'.pc = "finish" /\ cb'.t = cb.t
    BY <2>1 DEF TypeInv, TypeOK, MgmtTypeOK, LinkTypeOK
  <2>3. /\ \A t \in Trans : t # cb.t => trans'[t] = trans[t]
        /\ trans'[cb.t].wq = trans[cb.t].wq
    BY <2>1 DEF Filled, Struct, ValueTexts, NumberTexts, ErrorTexts
  <2>4. \A g \in Fds : IsOpen(g) /\ file[g].t = cb.t => Awaiting(g)
    BY <2>1 DEF SafeInv, Flight
  <2>5. Places'
    BY <2>1 DEF SafeInv, Places, IsOpen
  <2>6. Flight'
    BY <2>1, <2>2, <2>3 DEF SafeInv, Flight, IsOpen, Awaiting, Mine
  <2>7. Ready'
    BY <2>1, <2>3, <2>4 DEF SafeInv, Ready, OpStage, IsOpen, Awaiting, Mine
  <2>8. WakeUp'
    BY <2>1, <2>2, <2>3, <2>4 DEF SafeInv, WakeUp, NoLostWakeup, OpStage, IsOpen, Awaiting,
                                  Mine, CbWakes
  <2> QED BY <2>5, <2>6, <2>7, <2>8
<1>4. CASE Wake
  <2>1. /\ cb.pc = "finish" /\ cb.t \in Trans /\ cb' = CbIdle
        /\ trans' = [trans EXCEPT ![cb.t] = Finished(trans[cb.t], cb.msg)]
        /\ asleep' = IF CbWakes THEN {} ELSE asleep
        /\ UNCHANGED <<unused, heap, pending, at, file>>
    BY <1>4 DEF Wake, CbFinish
  <2>2. \A t \in Trans : trans'[t].valid = trans[t].valid /\ trans'[t].wq = trans[t].wq
    BY <2>1 DEF Finished, Struct
  <2>3. Places'
    BY <2>1 DEF SafeInv, Places, IsOpen
  <2>4. Flight'
    BY <2>1, <2>2 DEF SafeInv, Flight, IsOpen, Awaiting, Mine, CbIdle
  <2>5. Ready'
    BY <2>1, <2>2 DEF SafeInv, Ready, OpStage, IsOpen, Mine
  <2>6. WakeUp'
    BY <2>1, <2>2 DEF SafeInv, WakeUp, NoLostWakeup, OpStage, IsOpen, Mine, CbWakes, CbIdle
  <2> QED BY <2>3, <2>4, <2>5, <2>6
<1> QED BY <1>1, <1>2, <1>3, <1>4 DEF Callback

\* A process that reads what it opens closes no file unread.
LEMMA PatientCloses == ASSUME Patient, Inv, NEW f \in Fds, Begin(f) PROVE ~ ClosesUnread(f)
<1> USE Shapes DEF Inv
<1>1. SUFFICES ASSUME file[f].op = "open", Awaiting(f) PROVE file'[f].op \notin {"closing", "closed"}
  BY DEF ClosesUnread
<1>2. file[f].mode # "w" /\ ~ file[f].read
  BY <1>1 DEF Awaiting
<1>3. ~ MayClose(f)
  BY <1>2 DEF MayClose
<1>4. StartRead(f) \/ Write(f)
  BY <1>1, <1>3 DEF Begin, OpenToWrite, OpenToRead, Close, WriteBack
<1>5. CASE StartRead(f)
  BY <1>5 DEF StartRead, File
<1>6. CASE Write(f)
  BY <1>1, <1>6 DEF Write, fileVars
<1> QED BY <1>4, <1>5, <1>6

LEMMA StepSafe == ASSUME Patient PROVE Inv /\ [Next]_vars => Inv'
<1> SUFFICES ASSUME Inv, [Next]_vars PROVE Inv'
  OBVIOUS
<1>1. TypeInv'
  BY StepType DEF Inv
<1>2. CASE Linux
  BY <1>1, <1>2, PatientCloses, BeginSafe, ContinueSafe, InterruptSafe, CallbackSafe
     DEF Linux, Inv, SafeInv, TypeInv
<1>3. CASE UNCHANGED <<trans, unused, heap, pending, at, cb, file, asleep>>
  BY <1>1, <1>3 DEF Inv, SafeInv, TypeInv, Places, Flight, Ready, WakeUp, NoLostWakeup, IsOpen,
     Awaiting, Mine, CbWakes
<1>4. CASE Firmware
  BY <1>3, <1>4 DEF Firmware, fileVars
<1>5. CASE Application
  BY <1>3, <1>5 DEF Application, mgmtVars, linkVars, fileVars
<1>6. CASE UNCHANGED vars
  BY <1>3, <1>6 DEF vars, mgmtVars, linkVars, fileVars
<1> QED BY <1>2, <1>4, <1>5, <1>6 DEF Next

LEMMA InitSafe == Init => Inv
<1> SUFFICES ASSUME Init PROVE Inv
  OBVIOUS
<1>1. TypeInv
  BY InitType
<1>2. SafeInv
  BY <1>1 DEF TypeInv, Init, MgmtInit, LinkInit, SafeInv, Places, Flight, Ready, WakeUp,
     NoLostWakeup, IsOpen, Closed, CbIdle
<1> QED BY <1>1, <1>2 DEF Inv

LEMMA InvHolds == ASSUME Patient PROVE Spec => []Inv
  BY InitSafe, StepSafe, PTL DEF Spec

\* With clients that read what they open, whatever the interleaving of access_var
\* calls, the signals and the responses, no struct is in two places, the list of
\* pending transactions included.
THEOREM AccountedHolds == ASSUME Patient PROVE Spec => []TransAccounted
<1>1. Inv => TransAccounted
  BY DEF Inv, SafeInv, Places, Flight, TransAccounted, Held
<1> QED BY <1>1, InvHolds, PTL

\* Nor does the code of such clients ever link a struct into one of the two lists
\* while pending_list links it: Next, which stops there, leaves out nothing.
THEOREM ListsIntact == ASSUME Patient PROVE Spec => []Intact
<1>1. Inv => Intact
  <2> SUFFICES ASSUME Inv PROVE Intact
    OBVIOUS
  <2>1. pending \cap unused = {}
    BY DEF Inv, SafeInv, Flight
  <2>2. ASSUME NEW f \in Fds, at[f] = "pend", file[f].t \in pending PROVE FALSE
    <3>1. IsOpen(f) /\ file[f].op \in {"opening", "closing"}
      BY <2>2 DEF Inv, SafeInv, TypeInv, TypeOK, MgmtTypeOK, File, Ops, OpStage, IsOpen
    <3>2. Awaiting(f)
      BY <2>2, <3>1 DEF Inv, SafeInv, Flight
    <3>. QED BY <2>2, <3>1, <3>2 DEF Awaiting
  <2>. QED BY <2>1, <2>2 DEF Intact
<1> QED BY <1>1, InvHolds, PTL

\* Nor is a struct recycled, or its file done with it, before the callback has made
\* it valid.
THEOREM NotRecycledHolds == ASSUME Patient PROVE Spec => []NotRecycledUnanswered
<1>1. Inv => NotRecycledUnanswered
  BY DEF Inv, SafeInv, Flight, NotRecycledUnanswered, Unanswered
<1> QED BY <1>1, InvHolds, PTL

\* And no process sleeps through the response it waits for.
THEOREM NoLostWakeupHolds == ASSUME Patient PROVE Spec => []NoLostWakeup
<1>1. Inv => NoLostWakeup
  BY DEF Inv, SafeInv, WakeUp
<1> QED BY <1>1, InvHolds, PTL

\* The strengthening itself holds: the stages of access_var, the whereabouts of the
\* structs, the responses under way and the wake-ups go together.
THEOREM SafeInvHolds == ASSUME Patient PROVE Spec => []SafeInv
<1>1. Inv => SafeInv
  BY DEF Inv
<1> QED BY <1>1, InvHolds, PTL
=============================================================================
