---------------------------- MODULE LoadListProofs ----------------------------
(***************************************************************************)
(* Proofs about load_list: types, where the transaction structs are across *)
(* a restart of the firmware, which of them are lost, and what files and   *)
(* answers an open of load_list leaves behind.                             *)
(***************************************************************************)
EXTENDS LoadList, FiniteSetTheorems, TLAPS

(***************************************************************************)
(* The inductive invariant.                                                *)
(***************************************************************************)
\* The stage of access_var or get_n_vars that goes with each state of an open.
OpStage == \A f \in Fds :
    /\ load[f].op \in {"closed", "open"} => at[f] = "out"
    /\ load[f].op = "count" => at[f] \in {"seq", "pend", "send", "wait"}
    /\ load[f].op = "name" => at[f] \in {"fill", "seq", "pend", "send", "wait"}

\* load_list asks for the number of the variables and for names, nothing else.
LoadRequest == [seq : Nat, type : {"N_VARS", "NAME"}, ind : Int, val : Int]
AsksNames == /\ toBm \in Seq(LoadRequest)
             /\ \A f \in Fds : load[f].op = "name" /\ at[f] \in {"seq", "pend", "send"}
                                  => req.type = "NAME"

Again == ~ up => gen < MaxGen

Types == TypeOK /\ OpStage /\ AsksNames /\ Again

\* What holds of the structs whatever disturbs the requests.
Core == Types /\ Places /\ Flight

\* The struct of a list that can be read is not under way.
Answered == \A f \in Fds : load[f].op = "open" => ~ Flying(load[f].t)

\* A struct that is neither free nor a file's is one of get_n_vars.
Strays == \A t \in Trans \ (unused \cup heap) :
             (\A f \in Fds : IsOpen(f) => load[f].t # t) => trans[t].wq /\ ~ trans[t].rnw

Inv == Core /\ Answered /\ Strays

(***************************************************************************)
(* Types.                                                                  *)
(***************************************************************************)
LEMMA Shapes ==
    ASSUME Types
    PROVE  /\ trans \in [Trans -> Struct] /\ at \in [Fds -> Stages] /\ load \in [Fds -> Load]
           /\ unused \subseteq Trans /\ heap \subseteq Trans /\ pending \subseteq Trans
           /\ nextSeq \in Nat /\ nVars \in Int /\ nreq \in Nat /\ req \in LinkRequest
           /\ toBm \in Seq(LoadRequest) /\ toLinux \in Seq(LinkResponse)
           /\ cb \in [pc : {"idle", "fill", "finish"}, t : Trans \cup {NoTrans}, msg : LinkResponse]
           /\ cb.pc # "idle" => cb.t \in Trans
           /\ \A f \in Fds : IsOpen(f) => load[f].t \in Trans /\ Mine(f) \in Struct
           /\ \A f \in Fds : at[f] # "out" => IsOpen(f)
           /\ asleep \subseteq Fds /\ up \in BOOLEAN /\ gen \in 0 .. MaxGen /\ gen \in Nat /\ size \in Sizes
           /\ size \in Nat /\ valAccess \in BOOLEAN /\ made \in BOOLEAN /\ dir \in Dirs /\ files \subseteq VarFile
<1>1. \A f \in Fds : at[f] # "out" => IsOpen(f)
  BY DEF Types, TypeOK, OpStage, IsOpen
<1>2. gen \in Nat /\ size \in Nat
  BY SizesAssumption DEF Types, TypeOK
<1>. QED BY <1>1, <1>2 DEF Types, TypeOK, LinkTypeOK, AsksNames, IsOpen, Mine

LEMMA StructsMade ==
    /\ Zeroed \in Struct
    /\ \A n \in Nat : [Zeroed EXCEPT !.seq = n, !.wq = TRUE] \in Struct
    /\ \A s \in Struct, kind \in {"ok", "sorry"} : Ended(s, kind) \in Struct
    /\ \A s \in Struct : Turn(s) \in Struct
    /\ \A s \in Struct, n \in Nat : [s EXCEPT !.seq = n] \in Struct
<1>1. \A kind \in {"ok", "sorry", "empty"} : [kind |-> kind, ind |-> -1, val |-> 0] \in Text
  BY DEF Text, TextKinds
<1>2. NoText \in Text
  BY <1>1 DEF NoText
<1>3. Zeroed \in Struct
  BY <1>2 DEF Zeroed, Struct
<1>4. \A s \in Struct, kind \in {"ok", "sorry"} : Ended(s, kind) \in Struct
  BY <1>1 DEF Ended, Said, Struct
<1>5. \A s \in Struct : Turn(s) \in Struct
  BY DEF Turn, Struct
<1>6. \A s \in Struct, n \in Nat : [s EXCEPT !.seq = n] \in Struct
  BY DEF Struct
<1>7. \A n \in Nat : [Zeroed EXCEPT !.seq = n, !.wq = TRUE] \in Struct
  BY <1>3 DEF Struct
<1>. QED BY <1>3, <1>4, <1>5, <1>6, <1>7

LEMMA FilledType ==
    ASSUME NEW s \in Struct, NEW m \in LinkResponse
    PROVE  /\ Filled(s, m) \in Struct
           /\ Filled(s, m).wq = s.wq /\ Filled(s, m).rnw = s.rnw
<1>1. CASE m.type \in ValueTexts
  <2>1. [kind |-> m.type, ind |-> m.ind, val |-> m.val] \in Text
    BY <1>1 DEF LinkResponse, Text, TextKinds
  <2>2. m.type \notin ErrorTexts
    BY <1>1 DEF ValueTexts, NumberTexts, ErrorTexts
  <2>3. Filled(s, m) = [s EXCEPT !.text = [kind |-> m.type, ind |-> m.ind, val |-> m.val],
                                 !.err = FALSE, !.valid = TRUE]
    BY <1>1, <2>2 DEF Filled
  <2>. QED BY <2>1, <2>3 DEF Struct
<1>2. CASE m.type \notin ValueTexts /\ m.type \in ErrorTexts
  <2>1. [kind |-> m.type, ind |-> m.ind, val |-> 0] \in Text
    BY <1>2 DEF LinkResponse, Text, TextKinds
  <2>. QED BY <1>2, <2>1 DEF Filled, Struct
<1>3. CASE m.type \notin ValueTexts /\ m.type \notin ErrorTexts
  BY <1>3 DEF Filled, Struct
<1>. QED BY <1>1, <1>2, <1>3

LEMMA FinishedType ==
    ASSUME NEW s \in Struct, NEW m \in LinkResponse
    PROVE  /\ Finished(s, m) \in Struct
           /\ Finished(s, m).wq = s.wq /\ Finished(s, m).rnw = s.rnw /\ Finished(s, m).valid = s.valid
BY DEF Finished, Struct

\* The sequence counter stays a number.
LEMMA NextNumber == ASSUME NEW n \in Nat PROVE (n + 1) % SeqMod \in Nat
BY SeqAssumption

\* What is said of the variables that most steps leave alone.
Rest == <<nextSeq, req, cb, nVars, toBm, toLinux, nreq, up, gen, size>>

\* Types after a step that changes one file's open and stage, structs and lists.
LEMMA TypesKept ==
    ASSUME Types, NEW f \in Fds, UNCHANGED Rest,
           trans' \in [Trans -> Struct], unused' \subseteq Trans, heap' \subseteq Trans, pending' \subseteq Trans,
           at' \in [Fds -> Stages], load' \in [Fds -> Load],
           \A g \in Fds \ {f} : at'[g] = at[g] /\ load'[g] = load[g],
           load'[f].op # "closed" => load'[f].t \in Trans,
           load'[f].op \in {"closed", "open"} => at'[f] = "out",
           load'[f].op = "count" => at'[f] \in {"seq", "pend", "send", "wait"},
           load'[f].op = "name" => at'[f] = "fill",
           asleep' \subseteq Fds, valAccess' \in BOOLEAN, made' \in BOOLEAN, dir' \in Dirs, files' \subseteq VarFile
    PROVE  Types'
<1>1. TypeOK'
  BY DEF Types, TypeOK, LinkTypeOK, Rest
<1>2. OpStage'
  BY DEF Types, OpStage
<1>3. AsksNames' /\ Again'
  BY DEF Types, AsksNames, Again, Rest
<1>. QED BY <1>1, <1>2, <1>3 DEF Types

LEMMA OpenType ==
    ASSUME Types, NEW f \in Fds, NEW t \in Trans, Alloc(t), NEW s \in Struct, NEW op \in {"open", "count"},
           trans' = [trans EXCEPT ![t] = s], Opened(f, op, t),
           at' = [at EXCEPT ![f] = IF op = "open" THEN "out" ELSE "seq"],
           UNCHANGED Rest, UNCHANGED <<pending, asleep>>, UNCHANGED modVars
    PROVE  Types'
<1> USE Shapes
<1>1. trans' \in [Trans -> Struct] /\ at' \in [Fds -> Stages]
  BY DEF Stages
<1>2. load' \in [Fds -> Load] /\ load'[f] = [NotOpen EXCEPT !.op = op, !.t = t]
  <2>1. [NotOpen EXCEPT !.op = op, !.t = t] \in Load
    BY DEF NotOpen, Load
  <2>. QED BY <2>1 DEF Opened
<1>3. load'[f].op = op /\ load'[f].t = t
  BY <1>2 DEF NotOpen
<1>4. unused' \subseteq Trans /\ heap' \subseteq Trans
  BY DEF Alloc
<1>. QED BY <1>1, <1>2, <1>3, <1>4, TypesKept DEF modVars, Opened

LEMMA BeginType == ASSUME Types, NEW f \in Fds, Begin(f) PROVE Types'
<1> USE Shapes
<1>1. CASE OpenLoaded(f)
  <2>1. PICK t \in Trans : Alloc(t) /\ trans' = [trans EXCEPT ![t] = Ended(Zeroed, "sorry")] /\ Opened(f, "open", t)
    BY <1>1 DEF OpenLoaded
  <2>2. Ended(Zeroed, "sorry") \in Struct
    BY StructsMade
  <2>3. at[f] = "out" /\ at' = at
    BY <1>1 DEF OpenLoaded, MayOpen, IsOpen
  <2>4. at' = [at EXCEPT ![f] = IF "open" = "open" THEN "out" ELSE "seq"]
    BY <2>3
  <2>5. UNCHANGED Rest /\ UNCHANGED <<pending, asleep>> /\ UNCHANGED modVars
    BY <1>1 DEF OpenLoaded, Rest, modVars
  <2>. QED BY <2>1, <2>2, <2>4, <2>5, OpenType
<1>2. CASE OpenLoad(f)
  <2>1. PICK t \in Trans : Alloc(t) /\ trans' = [trans EXCEPT ![t] = Zeroed] /\ Opened(f, "count", t)
    BY <1>2 DEF OpenLoad
  <2>2. at' = [at EXCEPT ![f] = IF "count" = "open" THEN "out" ELSE "seq"]
    BY <1>2 DEF OpenLoad
  <2>3. UNCHANGED Rest /\ UNCHANGED <<pending, asleep>> /\ UNCHANGED modVars
    BY <1>2 DEF OpenLoad, Rest, modVars
  <2>4. Zeroed \in Struct
    BY StructsMade
  <2>. QED BY <2>1, <2>2, <2>3, <2>4, OpenType
<1>3. CASE Close(f)
  <2>1. load[f].t \in Trans /\ at'[f] = "out"
    BY <1>3 DEF Close, IsOpen, Types, OpStage
  <2>2. trans' \in [Trans -> Struct] /\ unused' \subseteq Trans
    BY <1>3, <2>1, StructsMade DEF Close, Return
  <2>3. load' \in [Fds -> Load] /\ load'[f].op = "closed"
    BY <1>3 DEF Close, NotOpen, Load
  <2>. QED BY <1>3, <2>1, <2>2, <2>3, TypesKept DEF Close, Return, Rest, modVars
<1>. QED BY <1>1, <1>2, <1>3 DEF Begin

\* Types after a step of access_var or get_n_vars: one stage follows another.
LEMMA StageType ==
    ASSUME Types, NEW f \in Fds, UNCHANGED <<load, cb, nVars, toLinux, asleep, modVars>>,
           trans' \in [Trans -> Struct], unused' \subseteq Trans, heap' \subseteq Trans, pending' \subseteq Trans,
           nextSeq' \in Nat, nreq' \in Nat, req' \in LinkRequest, toBm' \in Seq(LoadRequest),
           req'.type = "NAME" \/ (req'.type = req.type /\ at[f] \in {"seq", "pend", "send"}),
           NEW stage \in {"seq", "pend", "send", "wait"}, at' = [at EXCEPT ![f] = stage], IsOpen(f), load[f].op # "open"
    PROVE  Types'
<1> USE Shapes
<1>1. at' \in [Fds -> Stages]
  BY DEF Stages
<1>2. toBm' \in Seq(LinkRequest)
  <2>1. LoadRequest \subseteq LinkRequest
    BY DEF LoadRequest, LinkRequest, ReqTypes
  <2>. QED BY <2>1
<1>3. TypeOK'
  BY <1>1, <1>2 DEF Types, TypeOK, LinkTypeOK, modVars
<1>4. OpStage'
  <2>1. load[f].op \in {"count", "name"}
    BY DEF IsOpen, Load
  <2>. QED BY <1>1, <2>1 DEF Types, OpStage
<1>5. AsksNames'
  <2>1. req'.type = req.type \/ req'.type = "NAME"
    OBVIOUS
  <2>. QED BY <2>1 DEF Types, AsksNames
<1>. QED BY <1>3, <1>4, <1>5 DEF Types, AsksNames, Again, modVars

LEMMA LoadMade ==
    ASSUME NEW l \in Load, NEW n \in Nat
    PROVE  /\ [l EXCEPT !.op = "name", !.n = n] \in Load /\ [l EXCEPT !.i = n] \in Load
           /\ [l EXCEPT !.op = "name", !.n = n].t = l.t /\ [l EXCEPT !.op = "name", !.n = n].op = "name"
           /\ [l EXCEPT !.i = n].t = l.t /\ [l EXCEPT !.i = n].op = l.op
BY DEF Load

LEMMA RequestMade ==
    ASSUME NEW r \in LinkRequest, NEW type \in ReqTypes, NEW i \in Int, NEW v \in Int
    PROVE  /\ [r EXCEPT !.type = type, !.ind = i, !.val = v] \in LinkRequest
           /\ [r EXCEPT !.type = type, !.ind = i, !.val = v].type = type
BY DEF LinkRequest

\* The two ways in which an open ends or goes on with the next name.
LEMMA EndType ==
    ASSUME Types, NEW f \in Fds, NEW kind \in {"ok", "sorry"}, IsOpen(f), EndOpen(f, kind),
           at' = [at EXCEPT ![f] = "out"]
    PROVE  /\ trans' \in [Trans -> Struct] /\ load' \in [Fds -> Load] /\ at' \in [Fds -> Stages]
           /\ load'[f].op = "open" /\ load'[f].t = load[f].t
<1> USE Shapes
<1>1. load[f].t \in Trans /\ Ended(Mine(f), kind) \in Struct
  BY StructsMade
<1>2. trans' = [trans EXCEPT ![load[f].t] = Ended(Mine(f), kind)]
  BY DEF EndOpen, Mine
<1>3. load' \in [Fds -> Load] /\ load'[f].op = "open" /\ load'[f].t = load[f].t
  BY DEF EndOpen, Load
<1>. QED BY <1>1, <1>2, <1>3 DEF Stages

LEMMA TurnType ==
    ASSUME Types, NEW f \in Fds, IsOpen(f), trans' = [trans EXCEPT ![load[f].t] = Turn(@)],
           at' = [at EXCEPT ![f] = "fill"]
    PROVE  trans' \in [Trans -> Struct] /\ at' \in [Fds -> Stages]
<1> USE Shapes
<1>1. load[f].t \in Trans /\ Turn(Mine(f)) \in Struct
  BY StructsMade
<1>. QED BY <1>1 DEF Mine, Stages

LEMMA AskType == ASSUME Types, NEW f \in Fds, Asks(f) PROVE Types'
<1> USE Shapes
<1>0. load[f].op = "name" /\ UNCHANGED <<loadVars, modVars>> /\ IsOpen(f) /\ load[f].t \in Trans /\ load[f].op # "open"
  BY DEF Asks, IsOpen
<1>1. CASE FillRequest(f, "NAME", load[f].i, 0)
  <2>1. req' \in LinkRequest /\ req'.type = "NAME" /\ at' = [at EXCEPT ![f] = "seq"]
    <3>1. load[f] \in Load /\ load[f].i \in Int
      BY DEF Load
    <3>2. /\ req' = [req EXCEPT !.type = "NAME", !.ind = load[f].i, !.val = 0]
          /\ at' = [at EXCEPT ![f] = "seq"]
      BY <1>1 DEF FillRequest
    <3>3. "NAME" \in ReqTypes /\ 0 \in Int
      BY DEF ReqTypes
    <3>4. /\ [req EXCEPT !.type = "NAME", !.ind = load[f].i, !.val = 0] \in LinkRequest
          /\ [req EXCEPT !.type = "NAME", !.ind = load[f].i, !.val = 0].type = "NAME"
      <4>1. PICK i \in Int : i = load[f].i
        BY <3>1
      <4>2. /\ [req EXCEPT !.type = "NAME", !.ind = i, !.val = 0] \in LinkRequest
            /\ [req EXCEPT !.type = "NAME", !.ind = i, !.val = 0].type = "NAME"
        BY <3>3 DEF LinkRequest
      <4>. QED BY <4>1, <4>2
    <3>. QED BY <3>2, <3>4
  <2>2. UNCHANGED <<trans, unused, heap, pending, nextSeq, cb, nVars, toBm, toLinux>>
    BY <1>1 DEF FillRequest
  <2>3. UNCHANGED <<load, cb, nVars, toLinux, asleep, modVars>> /\ nreq' = nreq
    BY <1>0, <2>2 DEF loadVars, modVars
  <2>. QED BY <1>0, <2>1, <2>2, <2>3, StageType
<1>2. CASE TakeSeq(f)
  <2>1. /\ at[f] = "seq" /\ req' \in LinkRequest /\ req'.type = req.type /\ at' = [at EXCEPT ![f] = "pend"]
        /\ nextSeq' \in Nat
    BY <1>2, NextNumber DEF TakeSeq, LinkRequest
  <2>2. UNCHANGED <<trans, unused, heap, pending, cb, nVars, toBm, toLinux>>
    BY <1>2 DEF TakeSeq
  <2>3. UNCHANGED <<load, cb, nVars, toLinux, asleep, modVars>> /\ nreq' = nreq
    BY <1>0, <2>2 DEF loadVars, modVars
  <2>. QED BY <1>0, <2>1, <2>2, <2>3, StageType
<1>3. CASE AddPending(f, load[f].t)
  <2>1. at[f] = "pend" /\ at' = [at EXCEPT ![f] = "send"]
    BY <1>3 DEF AddPending
  <2>2. trans' \in [Trans -> Struct] /\ pending' \subseteq Trans
    <3>1. [Mine(f) EXCEPT !.seq = req.seq] \in Struct
      BY <1>0 DEF LinkRequest, Struct
    <3>2. trans' = [trans EXCEPT ![load[f].t] = [Mine(f) EXCEPT !.seq = req.seq]]
      BY <1>3 DEF AddPending, Mine
    <3>. QED BY <1>0, <1>3, <3>1, <3>2 DEF AddPending
  <2>3. UNCHANGED <<unused, heap, nextSeq, req, cb, nVars, toBm, toLinux>>
    BY <1>3 DEF AddPending
  <2>4. UNCHANGED <<load, cb, nVars, toLinux, asleep, modVars>> /\ nreq' = nreq
    BY <1>0, <2>3 DEF loadVars, modVars
  <2>. QED BY <1>0, <2>1, <2>2, <2>3, <2>4, StageType
<1>4. CASE SendRequest(f, "wait")
  <2>1. at[f] = "send" /\ at' = [at EXCEPT ![f] = "wait"] /\ toBm' = Append(toBm, req)
    BY <1>4 DEF SendRequest
  <2>2. req \in LoadRequest
    BY <1>0, <2>1 DEF Types, AsksNames, LinkRequest, LoadRequest
  <2>3. UNCHANGED <<trans, unused, heap, pending, nextSeq, req, cb, nVars, toLinux>>
    BY <1>4 DEF SendRequest
  <2>4. UNCHANGED <<load, cb, nVars, toLinux, asleep, modVars>> /\ nreq' = nreq
    BY <1>0, <2>3 DEF loadVars, modVars
  <2>5. toBm' \in Seq(LoadRequest)
    BY <2>1, <2>2
  <2>. QED BY <1>0, <2>1, <2>3, <2>4, <2>5, StageType
<1>. QED BY <1>1, <1>2, <1>3, <1>4 DEF Asks

LEMMA CountType == ASSUME Types, NEW f \in Fds, CountSeq(f) \/ CountPend(f) \/ CountSend(f) PROVE Types'
<1> USE Shapes
<1>0. load[f].op = "count" /\ IsOpen(f) /\ load[f].op # "open"
  BY DEF CountSeq, CountPend, CountSend, IsOpen
<1>1. CASE CountSeq(f)
  <2>1. /\ at[f] = "seq" /\ at' = [at EXCEPT ![f] = "pend"] /\ nextSeq' \in Nat /\ nreq' \in Nat
        /\ UNCHANGED <<load, cb, nVars, toLinux, asleep, modVars>>
        /\ UNCHANGED <<trans, unused, heap, pending, req, toBm>>
    BY <1>1, NextNumber DEF CountSeq
  <2>. QED BY <1>0, <2>1, StageType
<1>2. CASE CountPend(f)
  <2>1. PICK t \in Trans : /\ Alloc(t) /\ trans' = [trans EXCEPT ![t] = [Zeroed EXCEPT !.seq = nreq, !.wq = TRUE]]
                           /\ pending' = pending \cup {t}
    BY <1>2 DEF CountPend
  <2>2. [Zeroed EXCEPT !.seq = nreq, !.wq = TRUE] \in Struct
    BY StructsMade
  <2>3. /\ trans' \in [Trans -> Struct] /\ unused' \subseteq Trans /\ heap' \subseteq Trans /\ pending' \subseteq Trans
    BY <2>1, <2>2 DEF Alloc
  <2>4. /\ at[f] = "pend" /\ at' = [at EXCEPT ![f] = "send"]
        /\ UNCHANGED <<load, cb, nVars, toLinux, asleep, modVars>>
        /\ UNCHANGED <<nextSeq, nreq, req, toBm>>
    BY <1>2 DEF CountPend, loadVars
  <2>. QED BY <1>0, <2>3, <2>4, StageType
<1>3. CASE CountSend(f)
  <2>1. /\ at[f] = "send" /\ at' = [at EXCEPT ![f] = "wait"]
        /\ UNCHANGED <<load, cb, nVars, toLinux, asleep, modVars>>
        /\ UNCHANGED <<trans, unused, heap, pending, nextSeq, nreq, req>>
        /\ toBm' = Append(toBm, [seq |-> nreq, type |-> "N_VARS", ind |-> -1, val |-> 0])
    BY <1>3 DEF CountSend, loadVars
  <2>2. [seq |-> nreq, type |-> "N_VARS", ind |-> -1, val |-> 0] \in LoadRequest
    BY DEF LoadRequest
  <2>3. toBm' \in Seq(LoadRequest)
    BY <2>1, <2>2
  <2>. QED BY <1>0, <2>1, <2>3, StageType
<1>. QED BY <1>1, <1>2, <1>3

LEMMA NextTurnType ==
    ASSUME Types, NEW f \in Fds, load[f].op = "name", NextTurn(f)
    PROVE  /\ trans' \in [Trans -> Struct] /\ load' \in [Fds -> Load] /\ at' \in [Fds -> Stages]
           /\ load'[f].t = load[f].t
           /\ \/ load'[f].op = "open" /\ at'[f] = "out"
              \/ load'[f].op = "name" /\ at'[f] = "fill"
           /\ \A g \in Fds \ {f} : at'[g] = at[g] /\ load'[g] = load[g]
<1> USE Shapes
<1>0. IsOpen(f)
  BY DEF IsOpen
<1>1. CASE LastTurn(f)
  <2>1. EndOpen(f, "ok") /\ at' = [at EXCEPT ![f] = "out"]
    BY <1>1 DEF NextTurn
  <2>. QED BY <1>0, <2>1, EndType DEF EndOpen
<1>2. CASE ~ LastTurn(f)
  <2>1. /\ load' = [load EXCEPT ![f].i = @ + 1] /\ trans' = [trans EXCEPT ![load[f].t] = Turn(@)]
        /\ at' = [at EXCEPT ![f] = "fill"]
    BY <1>2 DEF NextTurn
  <2>2. load' \in [Fds -> Load] /\ load'[f].t = load[f].t /\ load'[f].op = "name"
    <3>1. load[f] \in Load /\ load[f].i + 1 \in Nat
      BY DEF Load
    <3>2. load' = [load EXCEPT ![f] = [load[f] EXCEPT !.i = load[f].i + 1]]
      BY <2>1
    <3>. QED BY <3>1, <3>2, LoadMade
  <2>. QED BY <1>0, <2>1, <2>2, TurnType
<1>. QED BY <1>1, <1>2

LEMMA LoopType ==
    ASSUME Types, NEW f \in Fds,
           NoVariables(f) \/ StartLoop(f) \/ MakeFile(f) \/ CountFails(f) \/ NameFails(f)
    PROVE  Types'
<1> USE Shapes
<1>0. IsOpen(f) /\ load[f].t \in Trans
  BY DEF NoVariables, StartLoop, MakeFile, CountFails, NameFails, IsOpen
<1>1. CASE NoVariables(f) \/ CountFails(f) \/ (NameFails(f) /\ Interrupted(f))
  <2>1. EndOpen(f, "sorry") /\ at' = [at EXCEPT ![f] = "out"] /\ asleep' \subseteq Fds
    BY <1>1 DEF NoVariables, CountFails, Interrupted, FailToSend
  <2>2. UNCHANGED Rest /\ UNCHANGED <<unused, heap, pending, valAccess, made, dir, files>>
    BY <1>1 DEF NoVariables, CountFails, Interrupted, Rest, modVars
  <2>. QED BY <1>0, <2>1, <2>2, EndType, TypesKept DEF EndOpen
<1>2. CASE StartLoop(f)
  <2>1. UNCHANGED Rest /\ UNCHANGED <<unused, heap, pending, asleep, files>>
    BY <1>2 DEF StartLoop, Rest
  <2>2. valAccess' \in BOOLEAN /\ made' \in BOOLEAN /\ dir' \in Dirs
    BY <1>2 DEF StartLoop, MakeDir, Dirs
  <2>3. CASE made
    <3>1. EndOpen(f, "sorry") /\ at' = [at EXCEPT ![f] = "out"]
      BY <1>2, <2>3 DEF StartLoop
    <3>. QED BY <1>0, <2>1, <2>2, <3>1, EndType, TypesKept DEF EndOpen
  <2>4. CASE ~ made
    <3>1. /\ load' = [load EXCEPT ![f].op = "name", ![f].n = nVars] /\ nVars > 0
          /\ trans' = [trans EXCEPT ![load[f].t] = Turn(@)] /\ at' = [at EXCEPT ![f] = "fill"]
      BY <1>2, <2>4 DEF StartLoop
    <3>2. load' \in [Fds -> Load] /\ load'[f].t = load[f].t /\ load'[f].op = "name"
      <4>1. load[f] \in Load /\ nVars \in Nat
        BY <3>1
      <4>2. load' = [load EXCEPT ![f] = [load[f] EXCEPT !.op = "name", !.n = nVars]]
        BY <3>1
      <4>3. /\ [load[f] EXCEPT !.op = "name", !.n = nVars] \in Load
            /\ [load[f] EXCEPT !.op = "name", !.n = nVars].t = load[f].t
            /\ [load[f] EXCEPT !.op = "name", !.n = nVars].op = "name"
        BY <4>1, LoadMade
      <4>. QED BY <4>2, <4>3
    <3>. QED BY <1>0, <2>1, <2>2, <3>1, <3>2, TurnType, TypesKept
  <2>. QED BY <2>3, <2>4
<1>3. CASE MakeFile(f)
  <2>1. UNCHANGED Rest /\ UNCHANGED <<unused, heap, pending, asleep, valAccess, made, dir>>
    BY <1>3 DEF MakeFile, Rest
  <2>2. load[f].op = "name" /\ NextTurn(f)
    BY <1>3 DEF MakeFile
  <2>3. files' \subseteq VarFile
    <3>1. [dir |-> dir, name |-> Mine(f).text, ind |-> load[f].i] \in VarFile
      BY <1>0 DEF VarFile, Struct, Load
    <3>. QED BY <1>3, <3>1 DEF MakeFile
  <2>. QED BY <1>0, <2>1, <2>2, <2>3, NextTurnType, TypesKept
<1>4. CASE NameFails(f) /\ ~ Interrupted(f)
  <2>1. load[f].op = "name" /\ NextTurn(f)
    BY <1>4 DEF NameFails
  <2>2. UNCHANGED Rest /\ UNCHANGED <<unused, heap, pending, asleep, valAccess, made, dir, files>>
    BY <1>4 DEF NameFails, Rest, modVars
  <2>. QED BY <1>0, <2>1, <2>2, NextTurnType, TypesKept
<1>. QED BY <1>1, <1>2, <1>3, <1>4

LEMMA SleepType == ASSUME Types, NEW f \in Fds, Sleep(f) PROVE Types'
BY DEF Sleep, linkVars, modVars, Types, TypeOK, LinkTypeOK, OpStage, AsksNames, Again

LEMMA CallbackType == ASSUME Types, Callback PROVE Types'
<1> USE Shapes
<1>1. CASE CbMatch /\ UNCHANGED <<loadVars, modVars>>
  <2>1. PICK t \in Trans : /\ pending' = pending \ {t}
                           /\ cb' = [pc |-> "fill", t |-> t, msg |-> Head(toLinux)]
    BY <1>1 DEF CbMatch, Unlink
  <2>2. Head(toLinux) \in LinkResponse /\ Tail(toLinux) \in Seq(LinkResponse)
    BY <1>1 DEF CbMatch
  <2>3. TypeOK'
    BY <1>1, <2>1, <2>2 DEF CbMatch, Types, TypeOK, LinkTypeOK, loadVars, modVars
  <2>. QED BY <1>1, <2>3 DEF CbMatch, Types, OpStage, AsksNames, Again, loadVars, modVars
<1>2. CASE CbDrop /\ UNCHANGED <<loadVars, modVars>>
  <2>1. Tail(toLinux) \in Seq(LinkResponse)
    BY <1>2 DEF CbDrop
  <2>2. TypeOK'
    BY <1>2, <2>1 DEF CbDrop, Types, TypeOK, LinkTypeOK, loadVars, modVars
  <2>. QED BY <1>2, <2>2 DEF CbDrop, Types, OpStage, AsksNames, Again, loadVars, modVars
<1>3. CASE CbFill /\ UNCHANGED <<loadVars, modVars>>
  <2>1. cb.t \in Trans /\ cb.msg \in LinkResponse
    BY <1>3 DEF CbFill
  <2>2. trans' \in [Trans -> Struct]
    BY <1>3, <2>1, FilledType DEF CbFill
  <2>3. nVars' \in Int
    BY <1>3, <2>1 DEF CbFill, LinkResponse
  <2>4. TypeOK'
    BY <1>3, <2>1, <2>2, <2>3 DEF CbFill, Types, TypeOK, LinkTypeOK, loadVars, modVars
  <2>. QED BY <1>3, <2>4 DEF CbFill, Types, OpStage, AsksNames, Again, loadVars, modVars
<1>4. CASE Wake
  <2>1. cb.t \in Trans /\ cb.msg \in LinkResponse
    BY <1>4 DEF Wake, CbFinish
  <2>2. trans' \in [Trans -> Struct]
    BY <1>4, <2>1, FinishedType DEF Wake, CbFinish
  <2>3. cb' \in [pc : {"idle", "fill", "finish"}, t : Trans \cup {NoTrans}, msg : LinkResponse] /\ cb'.pc = "idle"
    BY <1>4 DEF Wake, CbFinish, CbIdle, NoResponse, LinkResponse, LinkTypes
  <2>4. UNCHANGED <<unused, heap, pending, nextSeq, req, at, nVars, toBm, toLinux, load, nreq>> /\ asleep' \subseteq Fds
    BY <1>4 DEF Wake, CbFinish
  <2>5. UNCHANGED <<up, gen, size, valAccess, made, dir, files>>
    BY <1>4 DEF Wake, modVars
  <2>6. TypeOK'
    BY <2>2, <2>3, <2>4, <2>5 DEF Types, TypeOK, LinkTypeOK
  <2>. QED BY <2>4, <2>5, <2>6 DEF Types, OpStage, AsksNames, Again
<1>. QED BY <1>1, <1>2, <1>3, <1>4 DEF Callback

\* The firmware answers what load_list asks.
LEMMA AnswerType == ASSUME NEW m \in LoadRequest, size \in Nat, gen \in Nat PROVE Answer(m) \in LinkResponse
<1>1. {"N_VARS", "NAME", "ID_ERR"} \subseteq LinkTypes
  BY DEF LinkTypes, ValueTexts, ErrorTexts
<1>. QED BY <1>1 DEF Answer, LoadRequest, LinkResponse

LEMMA FirmwareType == ASSUME Types, Firmware PROVE Types'
<1> USE Shapes
<1>1. Head(toBm) \in LoadRequest /\ Tail(toBm) \in Seq(LoadRequest)
  BY DEF Firmware
<1>2. toLinux' \in Seq(LinkResponse)
  <2>1. Answer(Head(toBm)) \in LinkResponse
    BY <1>1, AnswerType
  <2>. QED BY <2>1 DEF Firmware
<1>3. toBm' \in Seq(LinkRequest) /\ toBm' \in Seq(LoadRequest)
  <2>1. LoadRequest \subseteq LinkRequest
    BY DEF LoadRequest, LinkRequest, ReqTypes
  <2>2. toBm' = Tail(toBm)
    BY DEF Firmware
  <2>. QED BY <1>1, <2>1, <2>2
<1>4. TypeOK'
  BY <1>2, <1>3 DEF Firmware, Types, TypeOK, LinkTypeOK, loadVars, modVars
<1>. QED BY <1>3, <1>4 DEF Firmware, Types, OpStage, AsksNames, Again, loadVars, modVars

LEMMA RestartType == ASSUME Types, Remove \/ Probe PROVE Types'
<1> USE Shapes
<1>1. CASE Remove
  <2>1. /\ unused' \subseteq Trans /\ heap' \subseteq Trans /\ pending' \subseteq Trans /\ gen < MaxGen
        /\ valAccess' \in BOOLEAN /\ made' \in BOOLEAN /\ up' \in BOOLEAN /\ files' \subseteq VarFile
    BY <1>1 DEF Remove, ExitEmpties
  <2>2. UNCHANGED <<trans, nextSeq, req, at, cb, nVars, load, asleep, nreq, gen, size, dir>>
    BY <1>1 DEF Remove, loadVars
  <2>3. toBm' = <<>> /\ toLinux' = <<>>
    BY <1>1 DEF Remove
  <2>4. toBm' \in Seq(LoadRequest) /\ toBm' \in Seq(LinkRequest) /\ toLinux' \in Seq(LinkResponse)
    BY <2>3
  <2>5. TypeOK'
    BY <2>1, <2>2, <2>4 DEF Types, TypeOK, LinkTypeOK
  <2>. QED BY <2>1, <2>2, <2>4, <2>5 DEF Types, OpStage, AsksNames, Again
<1>2. CASE Probe
  <2>1. /\ unused' \subseteq Trans /\ heap' \subseteq Trans /\ ~ up /\ up' = TRUE /\ gen' = gen + 1
        /\ size' \in Sizes
    BY <1>2 DEF Probe
  <2>2. gen' \in 0 .. MaxGen
    BY <2>1, SizesAssumption DEF Types, Again
  <2>3. UNCHANGED <<trans, pending, nextSeq, req, at, cb, nVars, toBm, toLinux, load, asleep, nreq,
                    valAccess, made, dir, files>>
    BY <1>2 DEF Probe, loadVars
  <2>4. TypeOK'
    BY <2>1, <2>2, <2>3 DEF Types, TypeOK, LinkTypeOK
  <2>. QED BY <2>1, <2>3, <2>4 DEF Types, OpStage, AsksNames, Again
<1>. QED BY <1>1, <1>2

LEMMA InitType == Init => Types
<1> SUFFICES ASSUME Init PROVE Types
  OBVIOUS
<1>1. LinkTypeOK
  <2>1. trans \in [Trans -> Struct]
    BY StructsMade DEF Init, LinkInit
  <2>2. req \in LinkRequest
    BY DEF Init, LinkInit, LinkRequest, ReqTypes
  <2>3. cb \in [pc : {"idle", "fill", "finish"}, t : Trans \cup {NoTrans}, msg : LinkResponse] /\ cb.pc = "idle"
    BY DEF Init, LinkInit, CbIdle, NoResponse, LinkResponse, LinkTypes
  <2>4. toBm \in Seq(LinkRequest) /\ toLinux \in Seq(LinkResponse) /\ nVars \in Int /\ nextSeq \in Nat
    BY DEF Init, LinkInit
  <2>. QED BY <2>1, <2>2, <2>3, <2>4, PoolAssumption DEF Init, LinkInit, LinkTypeOK, Stages
<1>2. NotOpen \in Load /\ NotOpen.op = "closed"
  BY DEF NotOpen, Load
<1>3. load \in [Fds -> Load] /\ \A f \in Fds : load[f].op = "closed"
  BY <1>2 DEF Init
<1>4. gen \in 0 .. MaxGen
  BY SizesAssumption DEF Init
<1>5. TypeOK
  BY <1>1, <1>3, <1>4 DEF Init, TypeOK, Dirs
<1>6. gen = 0 /\ up /\ at = [f \in Fds |-> "out"] /\ toBm = <<>>
  BY DEF Init, LinkInit
<1>. QED BY <1>3, <1>5, <1>6 DEF Types, OpStage, AsksNames, Again

LEMMA StepType == Types /\ [Next]_vars => Types'
<1> SUFFICES ASSUME Types, [Next]_vars PROVE Types'
  OBVIOUS
<1>1. CASE \E f \in Fds : Begin(f) \/ Continue(f) \/ CountFails(f) \/ NameFails(f)
  BY <1>1, BeginType, AskType, CountType, LoopType, SleepType DEF Continue
<1>2. CASE UNCHANGED vars
  BY <1>2 DEF vars, linkVars, loadVars, modVars, Types, TypeOK, LinkTypeOK, OpStage, AsksNames, Again
<1>. QED BY <1>1, <1>2, CallbackType, FirmwareType, RestartType DEF Next, Modules

\* Every variable of load_list, of the link it uses and of the module's debugfs
\* files keeps its type, also when the firmware is stopped and started again.
THEOREM TypeCorrect == Spec => []TypeOK
<1>1. Types => TypeOK
  BY DEF Types
<1>. QED BY <1>1, InitType, StepType, PTL DEF Spec

(***************************************************************************)
(* Whereabouts: the steps.                                                 *)
(***************************************************************************)

\* A struct that is handed out is neither a file's nor under way.
LEMMA AllocFresh ==
    ASSUME Core, NEW t \in Trans, Alloc(t)
    PROVE  /\ unused' \cup heap' = (unused \cup heap) \ {t} /\ unused' \cap heap' = {}
           /\ ~ Flying(t) /\ t \in unused \cup heap
           /\ \A g \in Fds : IsOpen(g) => load[g].t # t
<1>1. t \in unused \cup heap
  BY DEF Alloc
<1>2. unused \cap heap = {} /\ \A g \in Fds : IsOpen(g) => load[g].t # t
  BY <1>1 DEF Core, Places
<1>3. unused' = unused \ {t} /\ heap' = heap \ {t}
  BY DEF Alloc
<1>4. ~ Flying(t)
  BY <1>1 DEF Core, Flight
<1>. QED BY <1>1, <1>2, <1>3, <1>4

LEMMA OpenSafe ==
    ASSUME Core, NEW f \in Fds, NEW t \in Trans, NEW s, NEW op \in {"open", "count"}, load[f].op = "closed",
           Alloc(t), trans' = [trans EXCEPT ![t] = s], Opened(f, op, t),
           \A g \in Fds \ {f} : at'[g] = at[g], UNCHANGED <<pending, cb>>
    PROVE  Places' /\ Flight'
<1> USE Shapes DEF Core
<1>1. /\ unused' \cup heap' = (unused \cup heap) \ {t} /\ unused' \cap heap' = {}
      /\ ~ Flying(t) /\ t \in unused \cup heap
      /\ \A g \in Fds : IsOpen(g) => load[g].t # t
  BY AllocFresh
<1>2. load'[f].t = t /\ load'[f].op = op /\ \A g \in Fds \ {f} : load'[g] = load[g]
  BY DEF Opened, NotOpen
<1>3. \A g \in Fds \ {f} : (IsOpen(g)' <=> IsOpen(g)) /\ (IsOpen(g) => trans'[load'[g].t] = Mine(g))
  BY <1>1, <1>2 DEF IsOpen, Mine
<1>4. \A u \in Trans : (Flying(u)' <=> Flying(u)) /\ (u # t => trans'[u] = trans[u])
  BY DEF Flying
<1>5. Places'
  BY <1>1, <1>2, <1>3 DEF Places
<1>6. Flight'
  <2>1. \A u \in unused' \cup heap' : ~ Flying(u)'
    BY <1>1, <1>4 DEF Flight
  <2>2. (cb.pc = "fill" => cb.t \notin pending)'
    BY DEF Flight
  <2>3. ASSUME NEW g \in Fds, IsOpen(g)', Flying(load[g].t)'
        PROVE  (load[g].op = "open" \/ (load[g].op = "name" /\ at[g] \in {"send", "wait"} /\ ~ Mine(g).valid))'
    <3>1. g # f
      BY <1>1, <1>2, <1>4, <2>3
    <3>. QED BY <1>2, <1>3, <1>4, <2>3, <3>1 DEF Flight, Mine
  <2>4. ASSUME NEW g \in Fds, (load[g].op = "name" /\ at[g] \in {"fill", "seq", "pend"})'
        PROVE  ~ (Mine(g).valid)'
    <3>1. g # f
      BY <1>2, <2>4
    <3>. QED BY <1>2, <1>3, <2>4, <3>1 DEF Flight, Mine, IsOpen
  <2>. QED BY <2>1, <2>2, <2>3, <2>4 DEF Flight
<1>. QED BY <1>5, <1>6

LEMMA BeginSafe == ASSUME Core, NEW f \in Fds, Begin(f), ~ ClosesCut(f) PROVE Places' /\ Flight'
<1> USE Shapes DEF Core
<1>1. CASE OpenLoaded(f)
  <2>1. PICK t \in Trans : Alloc(t) /\ trans' = [trans EXCEPT ![t] = Ended(Zeroed, "sorry")] /\ Opened(f, "open", t)
    BY <1>1 DEF OpenLoaded
  <2>2. load[f].op = "closed" /\ UNCHANGED <<pending, cb>> /\ \A g \in Fds \ {f} : at'[g] = at[g]
    BY <1>1 DEF OpenLoaded, MayOpen
  <2>. QED BY <2>1, <2>2, OpenSafe
<1>2. CASE OpenLoad(f)
  <2>1. PICK t \in Trans : Alloc(t) /\ trans' = [trans EXCEPT ![t] = Zeroed] /\ Opened(f, "count", t)
    BY <1>2 DEF OpenLoad
  <2>2. load[f].op = "closed" /\ UNCHANGED <<pending, cb>> /\ \A g \in Fds \ {f} : at'[g] = at[g]
    BY <1>2 DEF OpenLoad, MayOpen
  <2>. QED BY <2>1, <2>2, OpenSafe
<1>3. CASE Close(f)
  <2> DEFINE t == load[f].t
  <2>1. IsOpen(f) /\ load[f].op = "open" /\ t \in Trans
    BY <1>3 DEF Close, IsOpen
  <2>2. /\ trans' = [trans EXCEPT ![t] = Zeroed] /\ unused' = unused \cup {t} /\ heap' = heap
        /\ ~ IsOpen(f)' /\ load'[f].op = "closed"
        /\ \A g \in Fds \ {f} : load'[g] = load[g]
        /\ UNCHANGED <<pending, cb, at>>
    BY <1>3 DEF Close, Return, IsOpen, NotOpen
  <2>3. ~ Flying(t) /\ t \notin unused \cup heap
    BY <2>1, <2>2 DEF ClosesCut, Places
  <2>4. \A g \in Fds \ {f} : (IsOpen(g)' <=> IsOpen(g)) /\ (IsOpen(g) => load[g].t # t /\ trans'[load'[g].t] = Mine(g))
    BY <2>1, <2>2 DEF IsOpen, Mine, Places
  <2>5. Places'
    BY <2>1, <2>2, <2>3, <2>4 DEF Places
  <2>6. \A u \in Trans : (Flying(u)' <=> Flying(u)) /\ (u # t => trans'[u] = trans[u])
    BY <2>2 DEF Flying
  <2>7. Flight'
    <3>1. \A u \in unused' \cup heap' : ~ Flying(u)'
      BY <2>1, <2>2, <2>3, <2>6 DEF Flight
    <3>2. (cb.pc = "fill" => cb.t \notin pending)'
      BY <2>2 DEF Flight
    <3>3. ASSUME NEW g \in Fds, IsOpen(g)', Flying(load[g].t)'
          PROVE  (load[g].op = "open" \/ (load[g].op = "name" /\ at[g] \in {"send", "wait"} /\ ~ Mine(g).valid))'
      <4>1. g # f
        BY <2>2, <3>3
      <4>. QED BY <2>2, <2>4, <2>6, <3>3, <4>1 DEF Flight, Mine
    <3>4. ASSUME NEW g \in Fds, (load[g].op = "name" /\ at[g] \in {"fill", "seq", "pend"})'
          PROVE  ~ (Mine(g).valid)'
      <4>1. g # f
        BY <2>2, <3>4
      <4>. QED BY <2>2, <2>4, <3>4, <4>1 DEF Flight, Mine, IsOpen
    <3>. QED BY <3>1, <3>2, <3>3, <3>4 DEF Flight
  <2>. QED BY <2>5, <2>7
<1>. QED BY <1>1, <1>2, <1>3 DEF Begin

\* get_n_vars asks with a struct of its own, which is in no file.
LEMMA CountSafe ==
    ASSUME Core, NEW f \in Fds, CountSeq(f) \/ CountPend(f) \/ CountSend(f) PROVE Places' /\ Flight'
<1> USE Shapes DEF Core
<1>0. load[f].op = "count" /\ load' = load /\ \A g \in Fds \ {f} : at'[g] = at[g]
  BY DEF CountSeq, CountPend, CountSend, loadVars
<1>1. CASE CountSeq(f) \/ CountSend(f)
  <2>1. UNCHANGED <<trans, unused, heap, pending, cb, load>>
    BY <1>0, <1>1 DEF CountSeq, CountSend
  <2>2. Flight'
    BY <1>0, <2>1 DEF Flight, Flying, IsOpen, Mine
  <2>. QED BY <2>1, <2>2 DEF Places, IsOpen
<1>2. CASE CountPend(f)
  <2>1. PICK t \in Trans : /\ Alloc(t) /\ trans' = [trans EXCEPT ![t] = [Zeroed EXCEPT !.seq = nreq, !.wq = TRUE]]
                           /\ pending' = pending \cup {t}
    BY <1>2 DEF CountPend
  <2>2. /\ unused' \cup heap' = (unused \cup heap) \ {t} /\ unused' \cap heap' = {}
        /\ ~ Flying(t) /\ t \in unused \cup heap
        /\ \A g \in Fds : IsOpen(g) => load[g].t # t
    BY <2>1, AllocFresh
  <2>3. cb' = cb
    BY <1>2 DEF CountPend
  <2>5. \A u \in Trans \ {t} : (Flying(u)' <=> Flying(u)) /\ trans'[u] = trans[u]
    BY <2>1, <2>3 DEF Flying
  <2>6. Places'
    BY <1>0, <2>2 DEF Places, IsOpen
  <2>7. Flight'
    <3>1. \A u \in unused' \cup heap' : ~ Flying(u)'
      BY <2>2, <2>5 DEF Flight
    <3>2. (cb.pc = "fill" => cb.t \notin pending)'
      BY <2>1, <2>2, <2>3 DEF Flight, Flying
    <3>3. \A g \in Fds : IsOpen(g) => Mine(g)' = Mine(g) /\ (Flying(load[g].t)' => Flying(load[g].t))
      BY <1>0, <2>2, <2>5 DEF Mine, IsOpen
    <3>4. \A g \in Fds : load[g].op = "name" => g # f
      BY <1>0
    <3>. QED BY <1>0, <3>1, <3>2, <3>3, <3>4 DEF Flight, IsOpen
  <2>. QED BY <2>6, <2>7
<1>. QED BY <1>1, <1>2

LEMMA AskSafe == ASSUME Core, NEW f \in Fds, Asks(f) PROVE Places' /\ Flight'
<1> USE Shapes DEF Core
<1> DEFINE t == load[f].t
<1>0. load[f].op = "name" /\ load' = load /\ IsOpen(f) /\ t \in Trans
  BY DEF Asks, loadVars, IsOpen
<1>1. CASE FillRequest(f, "NAME", load[f].i, 0) \/ TakeSeq(f) \/ SendRequest(f, "wait")
  <2>1. UNCHANGED <<trans, unused, heap, pending, cb, load>> /\ \A g \in Fds \ {f} : at'[g] = at[g]
    BY <1>0, <1>1 DEF FillRequest, TakeSeq, SendRequest
  <2>2. \/ at[f] \in {"fill", "seq"} /\ at'[f] \in {"seq", "pend"}
        \/ at[f] = "send" /\ at'[f] = "wait"
    BY <1>1 DEF FillRequest, TakeSeq, SendRequest
  <2>3. Flight'
    BY <1>0, <2>1, <2>2 DEF Flight, Flying, IsOpen, Mine
  <2>. QED BY <2>1, <2>3 DEF Places, IsOpen
<1>2. CASE AddPending(f, t)
  <2>1. /\ at[f] = "pend" /\ at' = [at EXCEPT ![f] = "send"] /\ pending' = pending \cup {t}
        /\ trans' = [trans EXCEPT ![t] = [trans[t] EXCEPT !.seq = req.seq]]
        /\ UNCHANGED <<unused, heap, cb, load>>
    BY <1>0, <1>2 DEF AddPending
  <2>2. \A u \in Trans : trans'[u].wq = trans[u].wq /\ trans'[u].rnw = trans[u].rnw /\ trans'[u].valid = trans[u].valid
    BY <2>1, <1>0 DEF Struct
  <2>3. t \notin unused \cup heap /\ ~ Flying(t) /\ ~ Mine(f).valid
    BY <1>0, <2>1 DEF Places, Flight
  <2>4. \A u \in Trans \ {t} : Flying(u)' <=> Flying(u)
    BY <2>1 DEF Flying
  <2>5. \A g \in Fds : /\ IsOpen(g)' <=> IsOpen(g)
                       /\ IsOpen(g) => Mine(g)'.valid = Mine(g).valid /\ (g # f => load[g].t # t)
    BY <1>0, <2>1, <2>2 DEF IsOpen, Mine, Places
  <2>6. Flight'
    <3>1. \A u \in unused' \cup heap' : ~ Flying(u)'
      BY <2>1, <2>3, <2>4 DEF Flight
    <3>2. (cb.pc = "fill" => cb.t \notin pending)'
      BY <2>1, <2>3 DEF Flight, Flying
    <3>3. ASSUME NEW g \in Fds, IsOpen(g)', Flying(load[g].t)'
          PROVE  (load[g].op = "open" \/ (load[g].op = "name" /\ at[g] \in {"send", "wait"} /\ ~ Mine(g).valid))'
      <4>1. CASE g = f
        BY <1>0, <2>1, <2>3, <2>5, <4>1
      <4>2. CASE g # f
        BY <2>1, <2>4, <2>5, <3>3, <4>2 DEF Flight
      <4>. QED BY <4>1, <4>2
    <3>4. ASSUME NEW g \in Fds, (load[g].op = "name" /\ at[g] \in {"fill", "seq", "pend"})'
          PROVE  ~ (Mine(g).valid)'
      <4>1. g # f
        BY <2>1, <3>4
      <4>. QED BY <2>1, <2>5, <3>4, <4>1 DEF Flight, IsOpen
    <3>. QED BY <3>1, <3>2, <3>3, <3>4 DEF Flight
  <2>. QED BY <2>1, <2>2, <2>6 DEF Places, IsOpen
<1>. QED BY <1>1, <1>2 DEF Asks

\* A file writes its struct and ends its open, or goes on to its next name with a
\* struct that is not under way.
LEMMA FileSafe ==
    ASSUME Core, NEW f \in Fds, IsOpen(f), load'[f].op = "open" \/ ~ Flying(load[f].t), NEW s,
           trans' = [trans EXCEPT ![load[f].t] = s],
           \/ load'[f].op = "open"
           \/ load'[f].op = "name" /\ at'[f] = "fill" /\ ~ s.valid,
           load'[f].t = load[f].t, \A g \in Fds \ {f} : load'[g] = load[g] /\ at'[g] = at[g],
           UNCHANGED <<unused, heap, pending, cb>>
    PROVE  Places' /\ Flight'
<1> USE Shapes DEF Core
<1>1. IsOpen(f)' /\ load[f].t \in Trans /\ Mine(f)' = s
  BY DEF IsOpen, Mine
<1>2. \A g \in Fds \ {f} : /\ IsOpen(g)' <=> IsOpen(g)
                           /\ IsOpen(g) => load[g].t # load[f].t /\ Mine(g)' = Mine(g)
  BY <1>1 DEF IsOpen, Mine, Places
<1>3. \A u : Flying(u)' <=> Flying(u)
  BY DEF Flying
<1>4. Places'
  <2>1. \A g \in Fds : IsOpen(g)' => IsOpen(g) /\ load'[g].t = load[g].t
    BY <1>2
  <2>. QED BY <2>1 DEF Places
<1>5. Flight'
  <2>1. (\A t \in unused \cup heap : ~ Flying(t))' /\ (cb.pc = "fill" => cb.t \notin pending)'
    BY <1>3 DEF Flight
  <2>2. ASSUME NEW g \in Fds, IsOpen(g)', Flying(load[g].t)'
        PROVE  (load[g].op = "open" \/ (load[g].op = "name" /\ at[g] \in {"send", "wait"} /\ ~ Mine(g).valid))'
    <3>1. CASE g = f
      BY <1>3, <2>2, <3>1
    <3>2. CASE g # f
      BY <1>2, <1>3, <2>2, <3>2 DEF Flight
    <3>. QED BY <3>1, <3>2
  <2>3. ASSUME NEW g \in Fds, (load[g].op = "name" /\ at[g] \in {"fill", "seq", "pend"})'
        PROVE  ~ (Mine(g).valid)'
    <3>1. CASE g = f
      BY <1>1, <2>3, <3>1
    <3>2. CASE g # f
      BY <1>2, <2>3, <3>2 DEF Flight, IsOpen
    <3>. QED BY <3>1, <3>2
  <2>. QED BY <2>1, <2>2, <2>3 DEF Flight
<1>. QED BY <1>4, <1>5

\* EndOpen and the next turn of the loop, in the terms of FileSafe.
LEMMA EndedSafe ==
    ASSUME Core, NEW f \in Fds, NEW kind \in {"ok", "sorry"}, IsOpen(f), EndOpen(f, kind),
           at' = [at EXCEPT ![f] = "out"], UNCHANGED <<unused, heap, pending, cb>>
    PROVE  Places' /\ Flight'
<1>1. trans' = [trans EXCEPT ![load[f].t] = Ended(Mine(f), kind)]
  BY DEF EndOpen, Mine
<1>2. /\ load'[f].op = "open" /\ load'[f].t = load[f].t
      /\ \A g \in Fds \ {f} : load'[g] = load[g] /\ at'[g] = at[g]
  BY Shapes DEF Core, EndOpen, Load
<1>. QED BY <1>1, <1>2, FileSafe

LEMMA TurnSafe ==
    ASSUME Core, NEW f \in Fds, IsOpen(f), ~ Flying(load[f].t), trans' = [trans EXCEPT ![load[f].t] = Turn(@)],
           at' = [at EXCEPT ![f] = "fill"], load'[f].op = "name", load'[f].t = load[f].t,
           \A g \in Fds \ {f} : load'[g] = load[g], UNCHANGED <<unused, heap, pending, cb>>
    PROVE  Places' /\ Flight'
<1>1. trans' = [trans EXCEPT ![load[f].t] = Turn(Mine(f))]
  BY DEF Mine
<1>2. ~ Turn(Mine(f)).valid
  BY Shapes DEF Core, Turn, Struct
<1>3. at'[f] = "fill" /\ \A g \in Fds \ {f} : load'[g] = load[g] /\ at'[g] = at[g]
  BY Shapes DEF Core
<1>4. PICK s : s = Turn(Mine(f))
  OBVIOUS
<1>5. trans' = [trans EXCEPT ![load[f].t] = s] /\ ~ s.valid
  BY <1>1, <1>2, <1>4
<1>6. load'[f].op = "name" /\ at'[f] = "fill" /\ ~ s.valid
  BY <1>3, <1>5
<1>. QED BY <1>3, <1>5, <1>6, FileSafe

\* The next turn of the loop, of a file whose struct is not under way if there is one.
LEMMA NextSafe ==
    ASSUME Core, NEW f \in Fds, load[f].op = "name", ~ SkipsName(f), NextTurn(f),
           Mine(f).valid \/ at[f] = "send", UNCHANGED <<unused, heap, pending, cb>>
    PROVE  Places' /\ Flight'
<1> USE Shapes DEF Core
<1>0. IsOpen(f)
  BY DEF IsOpen
<1>1. CASE LastTurn(f)
  BY <1>0, <1>1, EndedSafe DEF NextTurn
<1>2. CASE ~ LastTurn(f)
  <2>1. /\ load' = [load EXCEPT ![f] = [load[f] EXCEPT !.i = load[f].i + 1]]
        /\ trans' = [trans EXCEPT ![load[f].t] = Turn(@)] /\ at' = [at EXCEPT ![f] = "fill"]
    BY <1>2 DEF NextTurn
  <2>2. load[f] \in Load /\ load[f].i + 1 \in Nat
    BY DEF Load
  <2>3. /\ [load[f] EXCEPT !.i = load[f].i + 1].t = load[f].t
        /\ [load[f] EXCEPT !.i = load[f].i + 1].op = load[f].op
        /\ [load[f] EXCEPT !.i = load[f].i + 1].i = load[f].i + 1
    BY <2>2 DEF Load
  <2>4. /\ load'[f].op = "name" /\ load'[f].t = load[f].t /\ load'[f].i = load[f].i + 1
        /\ \A g \in Fds \ {f} : load'[g] = load[g]
    BY <2>1, <2>3
  <2>5. ~ Flying(load[f].t)
    BY <2>4 DEF SkipsName
  <2>. QED BY <1>0, <2>1, <2>4, <2>5, TurnSafe
<1>. QED BY <1>1, <1>2

LEMMA LoopSafe ==
    ASSUME Core, NEW f \in Fds, ~ SkipsName(f),
           NoVariables(f) \/ StartLoop(f) \/ MakeFile(f) \/ CountFails(f) \/ NameFails(f)
    PROVE  Places' /\ Flight'
<1> USE Shapes DEF Core
<1>0. IsOpen(f) /\ UNCHANGED <<unused, heap, pending, cb>>
  BY DEF NoVariables, StartLoop, MakeFile, CountFails, NameFails, Interrupted, IsOpen
<1>1. CASE NoVariables(f) \/ CountFails(f) \/ Interrupted(f)
  <2>1. EndOpen(f, "sorry") /\ at' = [at EXCEPT ![f] = "out"]
    BY <1>1 DEF NoVariables, CountFails, Interrupted, FailToSend
  <2>. QED BY <1>0, <2>1, EndedSafe
<1>2. CASE StartLoop(f)
  <2>1. ~ Flying(load[f].t)
    BY <1>0, <1>2 DEF Flight, StartLoop
  <2>2. CASE made
    <3>1. EndOpen(f, "sorry") /\ at' = [at EXCEPT ![f] = "out"]
      BY <1>2, <2>2 DEF StartLoop
    <3>. QED BY <1>0, <3>1, EndedSafe
  <2>3. CASE ~ made
    <3>1. /\ load' = [load EXCEPT ![f] = [load[f] EXCEPT !.op = "name", !.n = nVars]]
          /\ trans' = [trans EXCEPT ![load[f].t] = Turn(@)] /\ at' = [at EXCEPT ![f] = "fill"]
      BY <1>2, <2>3 DEF StartLoop
    <3>2. load[f] \in Load /\ nVars \in Nat
      BY <1>2 DEF StartLoop
    <3>3. /\ [load[f] EXCEPT !.op = "name", !.n = nVars].t = load[f].t
          /\ [load[f] EXCEPT !.op = "name", !.n = nVars].op = "name"
      BY <3>2, LoadMade
    <3>4. load'[f].op = "name" /\ load'[f].t = load[f].t /\ \A g \in Fds \ {f} : load'[g] = load[g]
      BY <3>1, <3>3
    <3>. QED BY <1>0, <2>1, <3>1, <3>4, TurnSafe
  <2>. QED BY <2>2, <2>3
<1>3. CASE MakeFile(f)
  <2>1. load[f].op = "name" /\ Mine(f).valid /\ NextTurn(f)
    BY <1>3 DEF MakeFile
  <2>. QED BY <1>0, <2>1, NextSafe
<1>4. CASE NameFails(f) /\ ~ Interrupted(f)
  <2>1. load[f].op = "name" /\ at[f] = "send" /\ NextTurn(f)
    BY <1>4 DEF NameFails
  <2>. QED BY <1>0, <2>1, NextSafe
<1>. QED BY <1>1, <1>2, <1>3, <1>4

\* The callback takes a struct off pending_list and makes it valid: only then is it
\* no longer under way.
LEMMA CallbackSafe == ASSUME Core, Callback PROVE Places' /\ Flight'
<1> USE Shapes DEF Core
<1>0. UNCHANGED <<unused, heap, at, load>>
  BY DEF Callback, CbMatch, CbDrop, CbFill, Wake, CbFinish, loadVars
<1>1. Places'
  BY <1>0 DEF Places, IsOpen
<1>2. CASE CbMatch
  <2>1. PICK t \in Trans : /\ t \in pending /\ pending' = pending \ {t}
                           /\ cb' = [pc |-> "fill", t |-> t, msg |-> Head(toLinux)]
    BY <1>2 DEF CbMatch, Matches, Unlink
  <2>2. trans' = trans /\ cb.pc = "idle"
    BY <1>2 DEF CbMatch
  <2>3. \A u \in Trans : Flying(u)' <=> Flying(u)
    BY <2>1, <2>2 DEF Flying
  <2>4. cb'.t \notin pending'
    BY <2>1
  <2>5. Flight'
    BY <1>0, <2>2, <2>3, <2>4 DEF Flight, IsOpen, Mine
  <2>. QED BY <1>1, <2>5
<1>3. CASE CbDrop
  BY <1>0, <1>1, <1>3 DEF CbDrop, Flight, Flying, IsOpen, Mine
<1>4. CASE CbFill
  <2>1. /\ cb.pc = "fill" /\ cb.t \in Trans /\ cb.msg \in LinkResponse /\ cb'.pc = "finish" /\ pending' = pending
        /\ trans' = [trans EXCEPT ![cb.t] = Filled(trans[cb.t], cb.msg)]
    BY <1>4 DEF CbFill
  <2>2. \A u \in Trans : trans'[u].wq = trans[u].wq /\ trans'[u].rnw = trans[u].rnw
    BY <2>1, FilledType
  <2>3. \A u \in Trans : Flying(u)' => Flying(u) /\ trans'[u] = trans[u]
    BY <2>1 DEF Flying, Flight
  <2>4. \A g \in Fds : load[g].op = "name" /\ at[g] \in {"fill", "seq", "pend"} => trans'[load[g].t] = Mine(g)
    <3> SUFFICES ASSUME NEW g \in Fds, load[g].op = "name", at[g] \in {"fill", "seq", "pend"}
                 PROVE  trans'[load[g].t] = Mine(g)
      OBVIOUS
    <3>1. IsOpen(g) /\ ~ Flying(load[g].t)
      BY DEF IsOpen, Flight
    <3>2. load[g].t # cb.t
      BY <2>1, <3>1 DEF Flying
    <3>. QED BY <2>1, <3>1, <3>2 DEF Mine
  <2>5. Flight'
    <3>1. (\A u \in unused \cup heap : ~ Flying(u))' /\ (cb.pc = "fill" => cb.t \notin pending)'
      BY <1>0, <2>1, <2>3 DEF Flight
    <3>. QED BY <1>0, <2>3, <2>4, <3>1 DEF Flight, IsOpen, Mine
  <2>. QED BY <1>1, <2>5
<1>5. CASE Wake
  <2>1. /\ cb.pc = "finish" /\ cb.t \in Trans /\ cb.msg \in LinkResponse /\ cb'.pc = "idle" /\ pending' = pending
        /\ trans' = [trans EXCEPT ![cb.t] = Finished(trans[cb.t], cb.msg)]
    BY <1>5 DEF Wake, CbFinish, CbIdle
  <2>2. \A u \in Trans : /\ trans'[u].wq = trans[u].wq /\ trans'[u].rnw = trans[u].rnw
                         /\ trans'[u].valid = trans[u].valid
    BY <2>1, FinishedType
  <2>3. \A u : Flying(u)' <=> Flying(u)
    BY <2>1 DEF Flying
  <2>4. \A g \in Fds : IsOpen(g) => Mine(g)'.valid = Mine(g).valid
    BY <1>0, <2>2 DEF Mine
  <2>5. Flight'
    BY <1>0, <2>1, <2>3, <2>4 DEF Flight, IsOpen
  <2>. QED BY <1>1, <2>5
<1>. QED BY <1>2, <1>3, <1>4, <1>5 DEF Callback

\* rpmsg_link_exit gives back every struct of its lists, while no file is open and
\* no callback runs.
LEMMA RestartSafe == ASSUME Core, Remove \/ Probe PROVE Places' /\ Flight'
<1> USE Shapes DEF Core
<1>1. CASE Remove
  <2>1. /\ unused' = {} /\ heap' = heap \cup unused \cup pending /\ pending' = {} /\ cb.pc = "idle"
        /\ UNCHANGED <<trans, at, cb, load>> /\ \A f \in Fds : ~ IsOpen(f) /\ load[f].op = "closed"
    BY <1>1 DEF Remove, ExitEmpties, Quiet, loadVars, IsOpen
  <2>. QED BY <2>1 DEF Places, Flight, Flying, IsOpen
<1>2. CASE Probe
  <2>1. /\ unused' \cup heap' = unused \cup heap /\ unused' \cap heap' = {}
        /\ UNCHANGED <<trans, at, cb, load, pending>>
    BY <1>2 DEF Probe, Places, loadVars
  <2>. QED BY <2>1 DEF Places, Flight, Flying, IsOpen, Mine
<1>. QED BY <1>1, <1>2

(***************************************************************************)
(* The structs in no list and no file: whatever the lists and the places   *)
(* of the others are like, only get_n_vars makes one.                      *)
(***************************************************************************)
Stray(u) == u \in Trans \ (unused \cup heap) /\ \A f \in Fds : IsOpen(f) => load[f].t # u
Counter(u) == trans[u].wq /\ ~ trans[u].rnw

\* A step makes no stray but a struct of get_n_vars.
LEMMA StraysKept ==
    ASSUME Types, Strays,
           \A u \in Trans : Stray(u)' => (Stray(u) /\ (Counter(u) => Counter(u)')) \/ Counter(u)'
    PROVE  Strays'
BY DEF Strays, Stray, Counter

\* A struct that an open is given is the open file's.
LEMMA StraysOpened ==
    ASSUME Types, Strays, NEW f \in Fds, NEW t \in Trans, NEW s, NEW op \in {"open", "count"},
           load[f].op = "closed", Alloc(t), trans' = [trans EXCEPT ![t] = s], Opened(f, op, t)
    PROVE  Strays'
<1> USE Shapes
<1>1. load'[f].t = t /\ load'[f].op = op /\ \A g \in Fds \ {f} : load'[g] = load[g]
  BY DEF Opened, NotOpen
<1>2. unused' = unused \ {t} /\ heap' = heap \ {t}
  BY DEF Alloc
<1>3. \A u \in Trans : Stray(u)' => u # t /\ trans'[u] = trans[u] /\ Stray(u)
  BY <1>1, <1>2 DEF Stray, IsOpen
<1>. QED BY <1>3, StraysKept DEF Counter

\* A struct that a file writes stays the file's.
LEMMA StraysWritten ==
    ASSUME Types, Strays, NEW f \in Fds, NEW s, IsOpen(f), trans' = [trans EXCEPT ![load[f].t] = s],
           load'[f].op # "closed", load'[f].t = load[f].t, \A g \in Fds \ {f} : load'[g] = load[g],
           UNCHANGED <<unused, heap>>
    PROVE  Strays'
<1>1. \A u \in Trans : Stray(u)' => u # load[f].t /\ trans'[u] = trans[u] /\ Stray(u)
  BY Shapes DEF Stray, IsOpen
<1>. QED BY <1>1, StraysKept DEF Counter

LEMMA StraysEnded ==
    ASSUME Types, Strays, NEW f \in Fds, NEW kind, IsOpen(f), EndOpen(f, kind), UNCHANGED <<unused, heap>>
    PROVE  Strays'
<1>1. trans' = [trans EXCEPT ![load[f].t] = Ended(Mine(f), kind)]
  BY DEF EndOpen, Mine
<1>2. load'[f].op = "open" /\ load'[f].t = load[f].t /\ \A g \in Fds \ {f} : load'[g] = load[g]
  BY Shapes DEF EndOpen, Load
<1>. QED BY <1>1, <1>2, StraysWritten

LEMMA StraysTurned ==
    ASSUME Types, Strays, NEW f \in Fds, load[f].op = "name", NextTurn(f), UNCHANGED <<unused, heap>>
    PROVE  Strays'
<1>1. IsOpen(f)
  BY DEF IsOpen
<1>2. CASE LastTurn(f)
  BY <1>1, <1>2, StraysEnded DEF NextTurn
<1>3. CASE ~ LastTurn(f)
  <2>1. trans' = [trans EXCEPT ![load[f].t] = Turn(Mine(f))]
    BY <1>3 DEF NextTurn, Mine
  <2>2. /\ load'[f].op # "closed" /\ load'[f].t = load[f].t
        /\ \A g \in Fds \ {f} : load'[g] = load[g]
    BY NextTurnType
  <2>. QED BY <1>1, <2>1, <2>2, StraysWritten
<1>. QED BY <1>2, <1>3

LEMMA StraysStep == Types /\ Strays /\ [Next]_vars => Strays'
<1> SUFFICES ASSUME Types, Strays, [Next]_vars PROVE Strays'
  OBVIOUS
<1> USE Shapes
<1>1. ASSUME NEW f \in Fds, OpenLoaded(f) \/ OpenLoad(f) PROVE Strays'
  <2>1. load[f].op = "closed"
    BY <1>1 DEF OpenLoaded, OpenLoad, MayOpen
  <2>2. PICK t \in Trans : /\ Alloc(t)
                           /\ \/ trans' = [trans EXCEPT ![t] = Ended(Zeroed, "sorry")] /\ Opened(f, "open", t)
                              \/ trans' = [trans EXCEPT ![t] = Zeroed] /\ Opened(f, "count", t)
    BY <1>1 DEF OpenLoaded, OpenLoad
  <2>. QED BY <2>1, <2>2, StraysOpened
<1>2. ASSUME NEW f \in Fds, Close(f) PROVE Strays'
  <2>1. /\ trans' = [trans EXCEPT ![load[f].t] = Zeroed] /\ unused' = unused \cup {load[f].t} /\ heap' = heap
        /\ \A g \in Fds \ {f} : load'[g] = load[g]
    BY <1>2 DEF Close, Return
  <2>2. \A u \in Trans : Stray(u)' => u # load[f].t /\ trans'[u] = trans[u] /\ Stray(u)
    BY <2>1 DEF Stray, IsOpen
  <2>. QED BY <2>2, StraysKept DEF Counter
<1>3. ASSUME NEW f \in Fds, CountPend(f) PROVE Strays'
  <2>1. PICK t \in Trans : Alloc(t) /\ trans' = [trans EXCEPT ![t] = [Zeroed EXCEPT !.seq = nreq, !.wq = TRUE]]
    BY <1>3 DEF CountPend
  <2>2. unused' = unused \ {t} /\ heap' = heap \ {t} /\ load' = load
    BY <1>3, <2>1 DEF Alloc, CountPend, loadVars
  <2>3. Counter(t)'
    BY <2>1 DEF Counter, Zeroed
  <2>4. \A u \in Trans \ {t} : trans'[u] = trans[u] /\ (Stray(u)' => Stray(u))
    BY <2>1, <2>2 DEF Stray, IsOpen
  <2>. QED BY <2>3, <2>4, StraysKept DEF Counter
<1>4. ASSUME NEW f \in Fds, Asks(f) PROVE Strays'
  <2>1. UNCHANGED <<unused, heap, load>>
    BY <1>4 DEF Asks, FillRequest, TakeSeq, AddPending, SendRequest, loadVars
  <2>2. \A u \in Trans : trans'[u].wq = trans[u].wq /\ trans'[u].rnw = trans[u].rnw
    <3>1. CASE AddPending(f, load[f].t)
      <4>1. trans' = [trans EXCEPT ![load[f].t] = [trans[load[f].t] EXCEPT !.seq = req.seq]]
        BY <3>1 DEF AddPending
      <4>. QED BY <4>1 DEF Struct
    <3>2. CASE ~ AddPending(f, load[f].t)
      BY <1>4, <3>2 DEF Asks, FillRequest, TakeSeq, SendRequest
    <3>. QED BY <3>1, <3>2
  <2>. QED BY <2>1, <2>2, StraysKept DEF Stray, Counter, IsOpen
<1>5. ASSUME NEW f \in Fds, \/ NoVariables(f) \/ StartLoop(f) \/ MakeFile(f)
                            \/ CountFails(f) \/ NameFails(f)
      PROVE  Strays'
  <2>1. IsOpen(f) /\ UNCHANGED <<unused, heap>>
    BY <1>5 DEF NoVariables, StartLoop, MakeFile, CountFails, NameFails, Interrupted, IsOpen
  <2>2. \/ EndOpen(f, "sorry")
        \/ load[f].op = "name" /\ NextTurn(f)
        \/ /\ load' = [load EXCEPT ![f].op = "name", ![f].n = nVars]
           /\ trans' = [trans EXCEPT ![load[f].t] = Turn(@)]
    BY <1>5 DEF NoVariables, StartLoop, MakeFile, CountFails, NameFails, Interrupted
  <2>3. CASE EndOpen(f, "sorry")
    BY <2>1, <2>3, StraysEnded
  <2>4. CASE load[f].op = "name" /\ NextTurn(f)
    BY <2>1, <2>4, StraysTurned
  <2>5. CASE /\ load' = [load EXCEPT ![f].op = "name", ![f].n = nVars]
             /\ trans' = [trans EXCEPT ![load[f].t] = Turn(@)]
    <3>1. load'[f].op = "name" /\ load'[f].t = load[f].t /\ \A g \in Fds \ {f} : load'[g] = load[g]
      BY <2>5 DEF Load
    <3>. QED BY <2>1, <2>5, <3>1, StraysWritten
  <2>. QED BY <2>2, <2>3, <2>4, <2>5
<1>6. CASE Callback
  <2>1. UNCHANGED <<unused, heap, load>>
    BY <1>6 DEF Callback, CbMatch, CbDrop, CbFill, Wake, CbFinish, loadVars
  <2>2. \A u \in Trans : trans'[u].wq = trans[u].wq /\ trans'[u].rnw = trans[u].rnw
    <3>1. CASE CbMatch \/ CbDrop
      BY <3>1 DEF CbMatch, CbDrop
    <3>2. CASE CbFill
      <4>1. /\ cb.t \in Trans /\ cb.msg \in LinkResponse
            /\ trans' = [trans EXCEPT ![cb.t] = Filled(trans[cb.t], cb.msg)]
        BY <3>2 DEF CbFill
      <4>. QED BY <4>1, FilledType
    <3>3. CASE Wake
      <4>1. /\ cb.t \in Trans /\ cb.msg \in LinkResponse
            /\ trans' = [trans EXCEPT ![cb.t] = Finished(trans[cb.t], cb.msg)]
        BY <3>3 DEF Wake, CbFinish
      <4>. QED BY <4>1, FinishedType
    <3>. QED BY <1>6, <3>1, <3>2, <3>3 DEF Callback
  <2>. QED BY <2>1, <2>2, StraysKept DEF Stray, Counter, IsOpen
<1>7. CASE Remove \/ Probe
  <2>1. unused \cup heap \subseteq unused' \cup heap' /\ trans' = trans /\ load' = load
    BY <1>7 DEF Remove, ExitEmpties, Probe, loadVars
  <2>. QED BY <2>1, StraysKept DEF Stray, Counter, IsOpen
<1>8. ASSUME \/ \E f \in Fds : CountSeq(f) \/ CountSend(f) \/ Sleep(f)
             \/ Firmware \/ UNCHANGED vars
      PROVE  Strays'
  <2>1. UNCHANGED <<trans, unused, heap, load>>
    BY <1>8 DEF CountSeq, CountSend, Sleep, Firmware, vars, linkVars, loadVars
  <2>. QED BY <2>1 DEF Strays, IsOpen
<1>. QED BY <1>1, <1>2, <1>3, <1>4, <1>5, <1>6, <1>7, <1>8 DEF Next, Modules, Begin, Continue

(***************************************************************************)
(* The invariant.                                                          *)
(***************************************************************************)
LEMMA InvInit == Init => Inv
<1> SUFFICES ASSUME Init PROVE Inv
  OBVIOUS
<1>1. /\ unused = Pool /\ heap = Trans \ Pool /\ pending = {} /\ cb.pc = "idle"
      /\ \A f \in Fds : ~ IsOpen(f) /\ load[f].op = "closed"
  BY DEF Init, LinkInit, CbIdle, NotOpen, IsOpen
<1>. QED BY <1>1, InitType, PoolAssumption DEF Inv, Core, Answered, Places, Flight, Flying, Strays

\* Whatever disturbs the requests: only a cut list or a skipped name is an end of it.
LEMMA CoreStep ==
    ASSUME Core, [Next]_vars, \A f \in Fds : ~ ClosesCut(f) /\ ~ SkipsName(f)
    PROVE  Core'
<1>1. Types'
  BY StepType DEF Core
<1>2. ASSUME NEW f \in Fds, Begin(f) \/ Continue(f) \/ CountFails(f) \/ NameFails(f)
      PROVE  Places' /\ Flight'
  <2>1. CASE Sleep(f)
    BY <2>1 DEF Sleep, linkVars, Core, Places, Flight, Flying, IsOpen, Mine
  <2>. QED BY <1>2, <2>1, BeginSafe, AskSafe, CountSafe, LoopSafe DEF Continue
<1>3. CASE Firmware \/ UNCHANGED vars
  <2>1. UNCHANGED <<trans, unused, heap, pending, at, cb, load>>
    BY <1>3 DEF Firmware, vars, linkVars, loadVars
  <2>2. Places' /\ Flight'
    BY <2>1 DEF Core, Places, Flight, Flying, IsOpen, Mine
  <2>. QED BY <1>1, <2>2 DEF Core
<1>4. CASE \E f \in Fds : Begin(f) \/ Continue(f) \/ CountFails(f) \/ NameFails(f)
  BY <1>1, <1>2, <1>4 DEF Core
<1>5. CASE Callback \/ Remove \/ Probe
  BY <1>1, <1>5, CallbackSafe, RestartSafe DEF Core
<1>. QED BY <1>3, <1>4, <1>5 DEF Next, Modules

\* Whatever disturbs the requests, and for every number of processes, structs,
\* sequence numbers and variables: as long as the lists are intact, only the close of
\* a list whose struct is still under way, or the turn of the loop of debugfs_open_ll
\* after a name that was not sent, parts a struct from its place.
THEOREM SafeUnlessCutHolds == Spec => SafeUnlessCut
<1>1. Types /\ [Next]_vars =>
         [SafeInv => SafeInv' \/ \E f \in Fds : ClosesCut(f) \/ SkipsName(f)]_vars
  BY CoreStep DEF Core, SafeInv
<1>2. Init => Types
  BY InitType
<1>3. Types /\ [Next]_vars => Types'
  BY StepType
<1>. QED BY <1>1, <1>2, <1>3, PTL DEF Spec, SafeUnlessCut

\* No name's wait is ended by a signal and the bus takes every name's request.
Undisturbed == Disturbances = {}

LEMMA Uncut ==
    ASSUME Undisturbed, Inv, [Next]_vars, NEW f \in Fds
    PROVE  ~ ClosesCut(f) /\ ~ SkipsName(f)
<1> USE Shapes DEF Inv, Core
<1>1. ~ ClosesCut(f)
  BY DEF Answered, ClosesCut
<1>2. ASSUME SkipsName(f) PROVE FALSE
  <2>1. IsOpen(f) /\ load[f] \in Load /\ load[f].i \in Nat /\ load'[f].i # load[f].i
    BY <1>2 DEF SkipsName, Load, IsOpen
  <2>2. PICK g \in Fds : Begin(g) \/ Continue(g) \/ CountFails(g)
    BY <2>1 DEF Next, Modules, NameFails, Undisturbed, Callback, CbMatch, CbDrop, CbFill, Wake, CbFinish,
               Remove, Probe, Firmware, vars, loadVars
  <2>3. ASSUME load' = load PROVE FALSE
    BY <2>1, <2>3
  <2>4. Begin(g) \/ NoVariables(g) \/ StartLoop(g) \/ MakeFile(g) \/ CountFails(g)
    BY <2>2, <2>3 DEF Continue, CountSeq, CountPend, CountSend, Sleep, Asks, loadVars
  <2>5. \A h \in Fds \ {g} : load'[h] = load[h]
    BY <2>4 DEF Begin, OpenLoaded, OpenLoad, Opened, Close, NoVariables, StartLoop, MakeFile, NextTurn,
               CountFails, Interrupted, EndOpen
  <2>6. g = f
    BY <2>1, <2>5
  <2>7. load[g].op = "name"
    BY <1>2, <2>6 DEF SkipsName
  <2>8. MakeFile(f)
    BY <2>4, <2>6, <2>7 DEF Begin, OpenLoaded, OpenLoad, MayOpen, Close, NoVariables, StartLoop, CountFails
  <2>. QED BY <1>2, <2>1, <2>8 DEF SkipsName, MakeFile, Flight
<1>. QED BY <1>1, <1>2

\* A list that can be read got there with an answer, or asked for nothing.
LEMMA AnsweredStep == ASSUME Undisturbed, Inv, [Next]_vars PROVE Answered'
<1> USE Shapes DEF Inv, Core
<1> SUFFICES ASSUME NEW f \in Fds, load'[f].op = "open", Flying(load[f].t)' PROVE FALSE
  BY DEF Answered
<1>1. CASE Callback
  <2>1. load' = load
    BY <1>1 DEF Callback, CbMatch, CbDrop, CbFill, Wake, CbFinish, loadVars
  <2>2. Flying(load[f].t)' => Flying(load[f].t)
    BY <1>1, <2>1 DEF Callback, CbMatch, CbDrop, CbFill, Wake, CbFinish, CbIdle, Matches, Unlink, Flying
  <2>. QED BY <2>1, <2>2 DEF Answered
<1>2. CASE Remove \/ Probe \/ Firmware \/ UNCHANGED vars
  <2>1. load' = load /\ cb' = cb /\ (pending' = pending \/ pending' = {})
    BY <1>2 DEF Remove, Probe, Firmware, vars, linkVars, loadVars
  <2>. QED BY <2>1 DEF Answered, Flying
<1>3. ASSUME NEW g \in Fds, Begin(g) \/ Continue(g) \/ CountFails(g) PROVE FALSE
  <2>1. CASE CountPend(g) \/ Asks(g)
    <3>1. load' = load /\ cb' = cb
      BY <2>1 DEF CountPend, Asks, FillRequest, TakeSeq, AddPending, SendRequest, loadVars
    <3>2. IsOpen(f) /\ load[f].op = "open" /\ ~ Flying(load[f].t)
      BY <3>1 DEF Answered, IsOpen
    <3>3. load[f].t \in pending' \ pending
      BY <3>1, <3>2 DEF Flying
    <3>4. CASE CountPend(g)
      <4>1. PICK t \in Trans : Alloc(t) /\ pending' = pending \cup {t}
        BY <3>4 DEF CountPend
      <4>. QED BY <3>2, <3>3, <4>1, AllocFresh
    <3>5. CASE Asks(g)
      <4>1. load[g].op = "name" /\ load[f].t = load[g].t
        BY <3>3, <3>5 DEF Asks, FillRequest, TakeSeq, AddPending, SendRequest
      <4>. QED BY <3>2, <4>1 DEF Places, IsOpen
    <3>. QED BY <2>1, <3>4, <3>5
  <2>2. CASE ~ (CountPend(g) \/ Asks(g))
    <3>1. UNCHANGED <<pending, cb>>
      BY <1>3, <2>2 DEF Begin, OpenLoaded, OpenLoad, Close, Continue, CountSeq, CountSend, Sleep, NoVariables, StartLoop,
                       MakeFile, CountFails, Interrupted, linkVars
    <3>2. \A h \in Fds \ {g} : load'[h] = load[h]
      BY <1>3, <2>2 DEF Begin, OpenLoaded, OpenLoad, Opened, Close, Continue, CountSeq, CountSend, Sleep, NoVariables,
                       StartLoop, MakeFile, NextTurn, CountFails, Interrupted, EndOpen, loadVars
    <3>3. g = f
      BY <3>1, <3>2 DEF Answered, Flying
    <3>4. ASSUME load' = load PROVE FALSE
      BY <3>1, <3>4 DEF Answered, Flying
    <3>5. OpenLoaded(f) \/ OpenLoad(f) \/ Close(f) \/ NoVariables(f) \/ StartLoop(f) \/ MakeFile(f) \/ CountFails(f)
      BY <1>3, <2>2, <3>3, <3>4 DEF Begin, Continue, CountSeq, CountSend, Sleep, loadVars
    <3>6. CASE OpenLoaded(f) \/ OpenLoad(f)
      <4>1. PICK t \in Trans, op \in {"open", "count"} : Alloc(t) /\ Opened(f, op, t)
        BY <3>6 DEF OpenLoaded, OpenLoad
      <4>2. ~ Flying(t) /\ load'[f].t = t
        BY <4>1, AllocFresh DEF Opened, NotOpen
      <4>. QED BY <3>1, <4>2 DEF Flying
    <3>7. CASE Close(f)
      BY <3>7 DEF Close, NotOpen
    <3>8. CASE NoVariables(f) \/ StartLoop(f) \/ MakeFile(f) \/ CountFails(f)
      <4>1. load'[f].t = load[f].t
        BY <3>8 DEF NoVariables, StartLoop, MakeFile, NextTurn, CountFails, Interrupted, EndOpen, Load
      <4>2. IsOpen(f) /\ load[f].op # "open" /\ (load[f].op = "name" => Mine(f).valid)
        BY <3>8 DEF NoVariables, StartLoop, MakeFile, CountFails, IsOpen
      <4>. QED BY <3>1, <4>1, <4>2 DEF Flight, Flying
    <3>. QED BY <3>5, <3>6, <3>7, <3>8
  <2>. QED BY <2>1, <2>2
<1>4. \A g \in Fds : ~ NameFails(g)
  BY DEF NameFails, Undisturbed
<1>. QED BY <1>1, <1>2, <1>3, <1>4 DEF Next, Modules

LEMMA InvStep == ASSUME Undisturbed PROVE Inv /\ [Next]_vars => Inv'
<1> SUFFICES ASSUME Inv, [Next]_vars PROVE Inv'
  OBVIOUS
<1>1. Core'
  BY Uncut, CoreStep DEF Inv
<1>2. Strays'
  BY StraysStep DEF Inv, Core
<1>. QED BY <1>1, <1>2, AnsweredStep DEF Inv

LEMMA InvHolds == ASSUME Undisturbed PROVE Spec => []Inv
<1>1. Inv /\ [Next]_vars => Inv'
  BY InvStep
<1>. QED BY <1>1, InvInit, PTL DEF Spec

\* When neither a signal nor a full bus disturbs the requests for the names (either
\* of get_n_vars may), a transaction struct of load_list is in one place at any time:
\* one in pending_list is not free, no two files share one, and none asks again with
\* a struct that is still in pending_list, also when rpmsg_link_exit and
\* rpmsg_link_init run between two loads.
THEOREM TransAccountedHolds == ASSUME Undisturbed PROVE Spec => []TransAccounted
<1>1. Inv => TransAccounted
  <2> SUFFICES ASSUME Inv PROVE TransAccounted
    OBVIOUS
  <2>1. \A f \in Fds : load[f].op = "name" /\ at[f] \in {"fill", "seq", "pend"} => ~ Flying(load[f].t)
    BY DEF Inv, Core, Flight, IsOpen
  <2>2. (Held \cup Unanswered) \cap (unused \cup heap) = {}
    BY DEF Inv, Core, Places, Flight, Held, Unanswered
  <2>. QED BY <2>1, <2>2 DEF Inv, Core, Places, TransAccounted
<1>. QED BY <1>1, InvHolds, PTL

\* Whatever becomes of the opens of load_list and of the firmware, as long as the
\* lists are intact a struct that is in no list, in no file and not under way was
\* used by get_n_vars: the names of the variables are asked for without losing any,
\* also when they are disturbed.
THEOREM OnlyCountsLeakHolds == Spec => []OnlyCountsLeak
<1>1. Strays => OnlyCountsLeak
  BY DEF Strays, OnlyCountsLeak, Lost, Held
<1>2. Init => Types /\ Strays
  BY InvInit DEF Inv, Core
<1>3. Types /\ Strays /\ [Next]_vars => Types' /\ Strays'
  BY StepType, StraysStep
<1>. QED BY <1>1, <1>2, <1>3, PTL DEF Spec

(***************************************************************************)
(* The names.  One process loads the list at a time, every firmware has    *)
(* the same variables, and there are more sequence numbers than structs.   *)
(***************************************************************************)
FewStructs == IsFiniteSet(Trans) /\ Cardinality(Trans) <= SeqMod
OneLoader == Undisturbed /\ Alone /\ SameTable /\ FewStructs

SeqNrs == 0 .. SeqMod - 1
One(b) == IF b THEN 1 ELSE 0

\* How many numbers ago s was given out, when n is the next.
Age(n, s) == IF s < n THEN n - s ELSE n - s + SeqMod

Naming(f) == load[f].op = "name"
Complete(f) == load[f].op = "open" /\ Mine(f).text = Said("ok")

Partial(i) == {[dir |-> "val", name |-> NameOf(gen, j), ind |-> j] : j \in 0 .. i - 1}

\* Who loads, and what the directories and the files are at each point.
Stage == /\ \A f, g \in Fds : Loading(f) /\ Loading(g) => f = g /\ up
         /\ made = valAccess
         /\ ~ up => ~ valAccess
         /\ ~ valAccess => files = {}
         /\ \A f \in Fds : load[f].op = "count" => ~ valAccess /\ load[f].i = 0
         /\ \A f \in Fds : Naming(f) => /\ valAccess /\ dir = "val"
                                        /\ load[f].n = size /\ load[f].i < size
                                        /\ files = Partial(load[f].i)
         /\ files \subseteq Table("val")
         /\ \A f \in Fds : Complete(f) => valAccess /\ files = Table("val") /\ \A g \in Fds : ~ Naming(g)

\* Every count under way is the firmware's.
Counts == /\ nVars \in {-1, size}
          /\ \A k \in 1 .. Len(toLinux) : toLinux[k].type = "N_VARS" => toLinux[k].val = size
          /\ cb.pc = "fill" /\ cb.msg.type = "N_VARS" => cb.msg.val = size

\* A name under way is the one that a file waits for, and the last message of all.
Asking(f, m) == /\ Naming(f) /\ at[f] = "wait" /\ ~ Mine(f).valid
                /\ m.seq = Mine(f).seq /\ m.ind = load[f].i
Answers(f, m) == Asking(f, m) /\ m.type = "NAME" /\ m.val = gen
Names == /\ \A k \in 1 .. Len(toBm) : toBm[k].type = "NAME" =>
               k = Len(toBm) /\ \E f \in Fds : Asking(f, toBm[k])
         /\ \A k \in 1 .. Len(toLinux) : toLinux[k].type # "N_VARS" =>
               k = Len(toLinux) /\ toBm = <<>> /\ \E f \in Fds : Answers(f, toLinux[k])
         /\ cb.pc = "fill" /\ cb.msg.type # "N_VARS" =>
               toBm = <<>> /\ toLinux = <<>> /\ \E f \in Fds : Answers(f, cb.msg)

\* A name that has come is the right one, and no message is under way then.
Silent == toBm = <<>> /\ toLinux = <<>>
Got == \A f \in Fds : Naming(f) =>
          /\ Mine(f).valid => Mine(f).text = NameOf(gen, load[f].i) /\ Silent
          /\ load[f].i > 0 /\ at[f] # "wait" => Silent
          /\ at[f] \in {"seq", "pend", "send"} => req.ind = load[f].i
          /\ at[f] = "send" => req.seq = Mine(f).seq /\ ~ Mine(f).valid

\* Numbers.  The struct of every get_n_vars stays away for good, so there are never
\* as many old messages as numbers.
StraySet == Trans \ (unused \cup heap \cup Held)
Counting == \E f \in Fds : load[f].op = "count" /\ at[f] = "pend"
BeforeNumber == \A f \in Fds : Naming(f) => load[f].i = 0 /\ at[f] \in {"fill", "seq"}

Recent(m) == m.seq \in SeqNrs /\ Age(nextSeq, m.seq) <= Cardinality(StraySet) + One(Counting)
Numbers ==
    /\ nextSeq \in SeqNrs
    /\ BeforeNumber => /\ \A k \in 1 .. Len(toBm) : Recent(toBm[k])
                       /\ \A k \in 1 .. Len(toLinux) : Recent(toLinux[k])
    /\ \A f \in Fds : load[f].op = "count" /\ at[f] \in {"pend", "send"} =>
                         nreq \in SeqNrs /\ Age(nextSeq, nreq) = 1
    /\ \A f \in Fds : load[f].op = "count" /\ at[f] = "send" => StraySet # {}

\* A file that waits for a name does not take the count for it.
Other(s, m) == m.type = "N_VARS" => m.seq # s
Apart == \A f \in Fds : Naming(f) =>
    /\ at[f] = "pend" =>
          /\ \A k \in 1 .. Len(toBm) : Other(req.seq, toBm[k])
          /\ \A k \in 1 .. Len(toLinux) : Other(req.seq, toLinux[k])
    /\ at[f] \in {"send", "wait"} =>
          /\ \A k \in 1 .. Len(toBm) : Other(Mine(f).seq, toBm[k])
          /\ \A k \in 1 .. Len(toLinux) : Other(Mine(f).seq, toLinux[k])
          /\ cb.pc = "fill" /\ cb.t = load[f].t => cb.msg.type # "N_VARS"

NameInv == Stage /\ Counts /\ Names /\ Got /\ Numbers /\ Apart

(***************************************************************************)
(* Numbers and sets.                                                       *)
(***************************************************************************)
LEMMA NextNr ==
    ASSUME NEW n \in SeqNrs
    PROVE  (n + 1) % SeqMod = IF n + 1 = SeqMod THEN 0 ELSE n + 1
BY SeqAssumption, SMTT(30) DEF SeqNrs

LEMMA Ages ==
    ASSUME NEW n \in SeqNrs
    PROVE  /\ (n + 1) % SeqMod \in SeqNrs /\ Age((n + 1) % SeqMod, n) = 1
           /\ \A s \in SeqNrs : /\ Age(n, s) \in 1 .. SeqMod
                                /\ Age(n, s) < SeqMod => s # n /\ Age((n + 1) % SeqMod, s) = Age(n, s) + 1
<1> DEFINE m == (n + 1) % SeqMod
<1>1. m = IF n + 1 = SeqMod THEN 0 ELSE n + 1
  BY NextNr
<1> HIDE DEF m
<1>2. m \in SeqNrs /\ Age(m, n) = 1
  BY <1>1, SeqAssumption DEF SeqNrs, Age
<1>3. ASSUME NEW s \in SeqNrs
      PROVE  Age(n, s) \in 1 .. SeqMod /\ (Age(n, s) < SeqMod => s # n /\ Age(m, s) = Age(n, s) + 1)
  BY <1>1, SeqAssumption DEF SeqNrs, Age
<1>. QED BY <1>2, <1>3 DEF m

\* As long as a file has a struct, fewer are with old counts than there are numbers.
LEMMA FewStrays ==
    ASSUME FewStructs
    PROVE  /\ IsFiniteSet(StraySet) /\ Cardinality(StraySet) \in Nat
           /\ \A t \in Trans \ StraySet : Cardinality(StraySet) < SeqMod
           /\ StraySet # {} => Cardinality(StraySet) >= 1
<1>1. StraySet \subseteq Trans
  BY DEF StraySet
<1>2. IsFiniteSet(StraySet) /\ Cardinality(StraySet) \in Nat /\ Cardinality(Trans) \in Nat
  BY <1>1, FS_Subset, FS_CardinalityType DEF FewStructs
<1>3. ASSUME NEW t \in Trans \ StraySet PROVE Cardinality(StraySet) < SeqMod
  <2>1. StraySet # Trans
    BY <1>3
  <2>2. StraySet \in SUBSET Trans /\ IsFiniteSet(Trans)
    BY <1>1 DEF FewStructs
  <2>3. /\ Cardinality(StraySet) <= Cardinality(Trans)
        /\ Cardinality(Trans) = Cardinality(StraySet) => Trans = StraySet
    BY <2>2, FS_Subset
  <2>. QED BY <1>2, <2>1, <2>3, SeqAssumption DEF FewStructs
<1>4. StraySet # {} => Cardinality(StraySet) # 0
  BY <1>2, FS_EmptySet
<1>. QED BY <1>2, <1>3, <1>4

\* A file that is open has a struct that is no stray.
LEMMA FileStruct == ASSUME Types, NEW f \in Fds, IsOpen(f) PROVE load[f].t \in Trans \ StraySet
BY Shapes DEF StraySet, Held

(***************************************************************************)
(* What is left alone by steps that are not about it.                      *)
(***************************************************************************)
LEMMA TableKept ==
    ASSUME UNCHANGED <<gen, size>>
    PROVE  /\ Table("val")' = Table("val") /\ \A i : Partial(i)' = Partial(i)
           /\ \A g, i : NameOf(g, i)' = NameOf(g, i)
BY DEF Table, Partial, NameOf

NamersKept == \A g \in Fds : /\ Naming(g)' <=> Naming(g)
                             /\ Naming(g) => load'[g] = load[g] /\ at'[g] = at[g] /\ Mine(g)' = Mine(g)

LEMMA MessagesKept ==
    ASSUME Counts, Names, Got, Apart, NamersKept, UNCHANGED <<nVars, size, gen, toBm, toLinux, cb, req>>
    PROVE  (Counts /\ Names /\ Got /\ Apart)'
<1>1. Counts'
  BY DEF Counts
<1>2. \A f \in Fds : \A m : (Asking(f, m)' <=> Asking(f, m)) /\ (Answers(f, m)' <=> Answers(f, m))
  BY DEF NamersKept, Asking, Answers
<1>3. Names'
  BY <1>2 DEF Names
<1>4. Got'
  BY TableKept DEF Got, NamersKept, Silent
<1>5. Apart'
  BY DEF Apart, NamersKept, Other
<1>. QED BY <1>1, <1>3, <1>4, <1>5

LEMMA StageKept ==
    ASSUME Stage, UNCHANGED <<up, gen, size, valAccess, made, dir, files>>,
           \A g \in Fds : (Naming(g)' <=> Naming(g)) /\ (Naming(g) => load'[g] = load[g]),
           (\A f, g \in Fds : Loading(f) /\ Loading(g) => f = g /\ up)',
           \A g \in Fds : /\ load'[g].op = "count" => ~ valAccess /\ load'[g].i = 0
                          /\ Complete(g)' => Complete(g)
    PROVE  Stage'
BY TableKept DEF Stage

\* No get_n_vars goes on.
CountersKept ==
    /\ Counting' <=> Counting
    /\ \A g \in Fds : load'[g].op = "count" /\ at'[g] \in {"pend", "send"}
                          => load[g].op = "count" /\ at[g] = at'[g]

LEMMA NumbersKept ==
    ASSUME Numbers, UNCHANGED <<nextSeq, nreq, toBm, toLinux>>, StraySet' = StraySet,
           \A g \in Fds : (Naming(g)' <=> Naming(g)) /\ (Naming(g) => load'[g] = load[g] /\ at'[g] = at[g]),
           CountersKept
    PROVE  Numbers'
<1>1. Counting' <=> Counting
  BY DEF CountersKept
<1>2. BeforeNumber' <=> BeforeNumber
  BY DEF BeforeNumber
<1>3. \A m : Recent(m)' <=> Recent(m)
  BY <1>1 DEF Recent, One
<1>. QED BY <1>2, <1>3 DEF Numbers, CountersKept

\* A step that touches neither the names nor the messages under way.
LEMMA NamesKept ==
    ASSUME NameInv, NamersKept, StraySet' = StraySet,
           UNCHANGED <<nVars, size, gen, toBm, toLinux, cb, req, nextSeq, nreq, up, valAccess, made, dir, files>>,
           \A g \in Fds : /\ load'[g].op = "count" => ~ valAccess /\ load'[g].i = 0
                          /\ Complete(g)' => Complete(g),
           CountersKept,
           (\A f, g \in Fds : Loading(f) /\ Loading(g) => f = g /\ up)'
    PROVE  NameInv'
<1>1. Counts' /\ Names' /\ Got' /\ Apart'
  BY MessagesKept DEF NameInv
<1>2. Stage'
  BY StageKept DEF NameInv, NamersKept
<1>3. Numbers'
  BY NumbersKept DEF NameInv, NamersKept
<1>. QED BY <1>1, <1>2, <1>3 DEF NameInv

LEMMA OpenNames ==
    ASSUME Inv, NameInv, Alone, NEW f \in Fds, NEW t \in Trans, NEW s, NEW op \in {"open", "count"}, MayOpen(f),
           Alloc(t), trans' = [trans EXCEPT ![t] = s], Opened(f, op, t),
           op = "open" => s.text # Said("ok"), op = "count" => ~ valAccess /\ at'[f] = "seq",
           \A g \in Fds \ {f} : at'[g] = at[g],
           UNCHANGED <<nVars, size, gen, toBm, toLinux, cb, req, nextSeq, nreq, up, valAccess, made, dir, files>>
    PROVE  NameInv'
<1> USE Shapes DEF Inv, Core
<1>1. /\ unused' \cup heap' = (unused \cup heap) \ {t} /\ t \in unused \cup heap
      /\ \A g \in Fds : IsOpen(g) => load[g].t # t
  BY AllocFresh
<1>2. load'[f].t = t /\ load'[f].op = op /\ load[f].op = "closed" /\ \A g \in Fds \ {f} : load'[g] = load[g]
  BY DEF Opened, NotOpen, MayOpen
<1>3. \A g \in Fds \ {f} : IsOpen(g) => Mine(g)' = Mine(g)
  BY <1>1, <1>2 DEF IsOpen, Mine
<1>4. NamersKept
  BY <1>2, <1>3 DEF NamersKept, Naming, IsOpen
<1>5. Held' = Held \cup {t}
  <2>1. \A g \in Fds \ {f} : (IsOpen(g)' <=> IsOpen(g)) /\ load'[g].t = load[g].t
    BY <1>2 DEF IsOpen
  <2>2. IsOpen(f)' /\ ~ IsOpen(f)
    BY <1>2 DEF IsOpen
  <2>. QED BY <1>2, <2>1, <2>2 DEF Held
<1>6. StraySet' = StraySet
  BY <1>1, <1>5 DEF StraySet
<1>7. \A g \in Fds : Complete(g)' => Complete(g)
  <2> SUFFICES ASSUME NEW g \in Fds, Complete(g)' PROVE Complete(g)
    OBVIOUS
  <2>1. CASE g = f
    <3>1. op = "open" /\ Mine(f)' = s /\ Mine(f)'.text = Said("ok")
      BY <1>2, <2>1 DEF Complete, Mine, Said
    <3>. QED BY <3>1
  <2>2. CASE g # f
    BY <1>2, <1>3, <2>2 DEF Complete, IsOpen, Said
  <2>. QED BY <2>1, <2>2
<1>8. CountersKept
  <2>1. \A g \in Fds : (load[g].op = "count" /\ at[g] = "pend")' <=> load[g].op = "count" /\ at[g] = "pend"
    BY <1>2
  <2>. QED BY <1>2, <2>1 DEF CountersKept, Counting
<1>9. \A g \in Fds : load'[g].op = "count" => ~ valAccess /\ load'[g].i = 0
  <2>1. load'[f].i = 0
    BY DEF Opened, NotOpen
  <2>. QED BY <1>2, <2>1 DEF NameInv, Stage
<1>10. (\A g, h \in Fds : Loading(g) /\ Loading(h) => g = h /\ up)'
  <2>1. up' /\ (op = "count" => \A g \in Fds : ~ Loading(g))
    BY DEF MayOpen
  <2>2. \A g \in Fds \ {f} : Loading(g)' <=> Loading(g)
    BY <1>2 DEF Loading
  <2>3. Loading(f)' => op = "count"
    BY <1>2 DEF Loading
  <2>. QED BY <2>1, <2>2, <2>3 DEF NameInv, Stage
<1>. QED BY <1>4, <1>6, <1>7, <1>8, <1>9, <1>10, NamesKept

LEMMA BeginNames == ASSUME OneLoader, Inv, NameInv, NEW f \in Fds, Begin(f) PROVE NameInv'
<1> USE Shapes DEF Inv, Core
<1>1. CASE OpenLoaded(f)
  <2>1. PICK t \in Trans : Alloc(t) /\ trans' = [trans EXCEPT ![t] = Ended(Zeroed, "sorry")] /\ Opened(f, "open", t)
    BY <1>1 DEF OpenLoaded
  <2>2. Ended(Zeroed, "sorry").text # Said("ok")
    BY DEF Ended, Zeroed, Said
  <2>3. /\ MayOpen(f) /\ \A g \in Fds \ {f} : at'[g] = at[g]
        /\ UNCHANGED <<nVars, size, gen, toBm, toLinux, cb, req, nextSeq, nreq, up, valAccess, made, dir, files>>
    BY <1>1 DEF OpenLoaded, modVars
  <2>. QED BY <2>1, <2>2, <2>3, OpenNames DEF OneLoader
<1>2. CASE OpenLoad(f)
  <2>1. PICK t \in Trans : Alloc(t) /\ trans' = [trans EXCEPT ![t] = Zeroed] /\ Opened(f, "count", t)
    BY <1>2 DEF OpenLoad
  <2>2. /\ MayOpen(f) /\ ~ valAccess /\ at'[f] = "seq" /\ \A g \in Fds \ {f} : at'[g] = at[g]
        /\ UNCHANGED <<nVars, size, gen, toBm, toLinux, cb, req, nextSeq, nreq, up, valAccess, made, dir, files>>
    BY <1>2 DEF OpenLoad, modVars
  <2>. QED BY <2>1, <2>2, OpenNames DEF OneLoader
<1>3. CASE Close(f)
  <2> DEFINE t == load[f].t
  <2>1. IsOpen(f) /\ load[f].op = "open" /\ t \in Trans
    BY <1>3 DEF Close, IsOpen
  <2>2. /\ trans' = [trans EXCEPT ![t] = Zeroed] /\ unused' = unused \cup {t} /\ heap' = heap
        /\ ~ IsOpen(f)' /\ load'[f].op = "closed" /\ at' = at
        /\ \A g \in Fds \ {f} : load'[g] = load[g]
        /\ UNCHANGED <<nVars, size, gen, toBm, toLinux, cb, req, nextSeq, nreq, up, valAccess, made, dir, files>>
    BY <1>3 DEF Close, Return, IsOpen, NotOpen, modVars
  <2>3. \A g \in Fds \ {f} : (IsOpen(g)' <=> IsOpen(g)) /\ (IsOpen(g) => load[g].t # t /\ Mine(g)' = Mine(g))
    BY <2>1, <2>2 DEF IsOpen, Mine, Places
  <2>4. NamersKept
    BY <2>1, <2>2, <2>3 DEF NamersKept, Naming, IsOpen
  <2>5. Held' = Held \ {t}
    BY <2>1, <2>2, <2>3 DEF Held
  <2>6. StraySet' = StraySet
    <3>1. t \in Held
      BY <2>1 DEF Held
    <3>. QED BY <2>2, <2>5, <3>1 DEF StraySet
  <2>7. \A g \in Fds : (Loading(g)' <=> Loading(g)) /\ (Complete(g)' => Complete(g))
    BY <2>1, <2>2, <2>3 DEF Loading, Complete, IsOpen, Said
  <2>8. CountersKept
    <3>1. \A g \in Fds : (load[g].op = "count" /\ at[g] = "pend")' <=> load[g].op = "count" /\ at[g] = "pend"
      BY <2>1, <2>2
    <3>. QED BY <2>1, <2>2, <3>1 DEF CountersKept, Counting
  <2>9. \A g \in Fds : load'[g].op = "count" => ~ valAccess /\ load'[g].i = 0
    BY <2>2 DEF NameInv, Stage
  <2>10. (\A g, h \in Fds : Loading(g) /\ Loading(h) => g = h /\ up)'
    BY <2>2, <2>7 DEF NameInv, Stage
  <2>. QED BY <2>2, <2>4, <2>6, <2>7, <2>8, <2>9, <2>10, NamesKept
<1>. QED BY <1>1, <1>2, <1>3 DEF Begin

\* While the variables are counted no name is under way.
LEMMA OnlyCounts ==
    ASSUME NameInv, \A f \in Fds : ~ Naming(f)
    PROVE  /\ \A k \in 1 .. Len(toBm) : toBm[k].type # "NAME"
           /\ \A k \in 1 .. Len(toLinux) : toLinux[k].type = "N_VARS"
           /\ cb.pc = "fill" => cb.msg.type = "N_VARS"
           /\ BeforeNumber
BY DEF NameInv, Names, Asking, Answers, BeforeNumber

LEMMA CounterAlone ==
    ASSUME NameInv, NEW f \in Fds, load[f].op = "count"
    PROVE  /\ \A g \in Fds : ~ Naming(g) /\ (load[g].op = "count" => g = f)
           /\ ~ valAccess
BY DEF NameInv, Stage, Loading, Naming

LEMMA CountSeqNames == ASSUME OneLoader, Inv, NameInv, NEW f \in Fds, CountSeq(f) PROVE NameInv'
<1> USE Shapes DEF Inv, Core
<1>0. /\ load[f].op = "count" /\ at[f] = "seq" /\ at'[f] = "pend" /\ \A g \in Fds \ {f} : at'[g] = at[g]
      /\ nreq' = nextSeq /\ nextSeq' = (nextSeq + 1) % SeqMod
      /\ UNCHANGED <<trans, unused, heap, load, nVars, toBm, toLinux, cb, req>> /\ UNCHANGED modVars
  BY DEF CountSeq
<1>1. /\ \A g \in Fds : ~ Naming(g) /\ (load[g].op = "count" => g = f)
      /\ IsOpen(f)
  BY <1>0, CounterAlone DEF IsOpen
<1>2. NamersKept /\ \A g \in Fds : Mine(g)' = Mine(g)
  BY <1>0, <1>1 DEF NamersKept, Naming, Mine
<1>3. Counts' /\ Names' /\ Got' /\ Apart'
  BY <1>0, <1>2, MessagesKept DEF NameInv, modVars
<1>4. Stage'
  <2>1. \A g \in Fds : (Loading(g)' <=> Loading(g)) /\ (Complete(g)' <=> Complete(g))
    BY <1>0, <1>2 DEF Loading, Complete, Said
  <2>. QED BY <1>0, <1>2, <2>1, StageKept DEF NameInv, Stage, NamersKept, modVars
<1>5. StraySet' = StraySet
  BY <1>0 DEF StraySet, Held, IsOpen
<1>6. Cardinality(StraySet) \in Nat /\ Cardinality(StraySet) < SeqMod
  BY <1>1, FewStrays, FileStruct DEF OneLoader
<1>7. nextSeq \in SeqNrs
  BY DEF NameInv, Numbers
<1>8. nextSeq' \in SeqNrs /\ Age(nextSeq', nreq') = 1 /\ nreq' \in SeqNrs
  BY <1>0, <1>7, Ages
<1>9. ASSUME NEW m, Recent(m)
      PROVE  m.seq \in SeqNrs /\ Age(nextSeq', m.seq) <= Cardinality(StraySet') + One(Counting')
  <2>1. m.seq \in SeqNrs /\ Age(nextSeq, m.seq) <= Cardinality(StraySet)
    BY <1>0, <1>1, <1>6, <1>9 DEF Recent, Counting, One
  <2>2. Age(nextSeq, m.seq) \in 1 .. SeqMod
    BY <1>7, <2>1, Ages
  <2>3. Age(nextSeq, m.seq) < SeqMod
    BY <1>6, <2>1, <2>2, SeqAssumption
  <2>4. Age(nextSeq', m.seq) = Age(nextSeq, m.seq) + 1
    BY <1>0, <1>7, <2>1, <2>3, Ages
  <2>5. Counting'
    BY <1>0 DEF Counting
  <2>6. Age(nextSeq', m.seq) <= Cardinality(StraySet') + 1
    BY <1>5, <1>6, <2>1, <2>2, <2>4
  <2>. QED BY <1>0, <2>1, <2>5, <2>6 DEF Recent, One
<1>10. Numbers'
  <2>1. BeforeNumber
    BY <1>1 DEF BeforeNumber
  <2>2. /\ \A k \in 1 .. Len(toBm) : Recent(toBm[k])'
        /\ \A k \in 1 .. Len(toLinux) : Recent(toLinux[k])'
    BY <1>0, <1>9, <2>1 DEF NameInv, Numbers, Recent
  <2>3. \A g \in Fds : load'[g].op = "count" => at'[g] # "send"
    BY <1>0, <1>1
  <2>. QED BY <1>0, <1>8, <2>2, <2>3 DEF Numbers, Recent
<1>. QED BY <1>3, <1>4, <1>10 DEF NameInv

LEMMA CountPendNames == ASSUME OneLoader, Inv, NameInv, NEW f \in Fds, CountPend(f) PROVE NameInv'
<1> USE Shapes DEF Inv, Core
<1>0. /\ load[f].op = "count" /\ at[f] = "pend" /\ at'[f] = "send" /\ \A g \in Fds \ {f} : at'[g] = at[g]
      /\ UNCHANGED <<nextSeq, nreq, load, nVars, toBm, toLinux, cb, req>> /\ UNCHANGED modVars
  BY DEF CountPend, loadVars
<1>t. PICK t \in Trans : Alloc(t) /\ trans' = [trans EXCEPT ![t] = [Zeroed EXCEPT !.seq = nreq, !.wq = TRUE]]
  BY DEF CountPend
<1>f. /\ unused' \cup heap' = (unused \cup heap) \ {t} /\ t \in unused \cup heap
      /\ \A g \in Fds : IsOpen(g) => load[g].t # t
  BY <1>t, AllocFresh
<1>1. \A g \in Fds : ~ Naming(g) /\ (load[g].op = "count" => g = f)
  BY <1>0, CounterAlone
<1>2. NamersKept /\ \A g \in Fds : IsOpen(g) => Mine(g)' = Mine(g)
  <2>1. \A g \in Fds : IsOpen(g) => Mine(g)' = Mine(g)
    BY <1>0, <1>t, <1>f DEF Mine
  <2>. QED BY <1>0, <1>1, <2>1 DEF NamersKept, Naming
<1>3. Counts' /\ Names' /\ Got' /\ Apart'
  BY <1>0, <1>2, MessagesKept DEF NameInv, modVars
<1>4. Stage'
  <2>1. \A g \in Fds : (Loading(g)' <=> Loading(g)) /\ (Complete(g)' <=> Complete(g))
    BY <1>0, <1>2 DEF Loading, Complete, Said, IsOpen
  <2>. QED BY <1>0, <1>2, <2>1, StageKept DEF NameInv, Stage, NamersKept, modVars
<1>5. Held' = Held
  BY <1>0 DEF Held, IsOpen
<1>6. StraySet' = StraySet \cup {t} /\ t \notin StraySet
  <2>1. t \notin Held
    BY <1>f DEF Held
  <2>. QED BY <1>5, <1>f, <2>1 DEF StraySet
<1>7. Cardinality(StraySet') = Cardinality(StraySet) + 1 /\ Cardinality(StraySet) \in Nat
  BY <1>6, FewStrays, FS_AddElement DEF OneLoader
<1>8. Counting /\ ~ Counting'
  BY <1>0, <1>1 DEF Counting
<1>9. ASSUME NEW m, Recent(m)
      PROVE  m.seq \in SeqNrs /\ Age(nextSeq', m.seq) <= Cardinality(StraySet') + One(Counting')
  <2>1. Cardinality(StraySet') + One(FALSE) = Cardinality(StraySet) + One(TRUE)
    BY <1>7 DEF One
  <2>. QED BY <1>0, <1>8, <1>9, <2>1 DEF Recent, One
<1>10. Numbers'
  <2>1. BeforeNumber
    BY <1>1 DEF BeforeNumber
  <2>2. /\ \A k \in 1 .. Len(toBm) : Recent(toBm[k])'
        /\ \A k \in 1 .. Len(toLinux) : Recent(toLinux[k])'
    BY <1>0, <1>9, <2>1 DEF NameInv, Numbers, Recent
  <2>3. nextSeq \in SeqNrs /\ nreq \in SeqNrs /\ Age(nextSeq, nreq) = 1
    BY <1>0 DEF NameInv, Numbers
  <2>4. StraySet' # {}
    BY <1>6
  <2>. QED BY <1>0, <2>2, <2>3, <2>4 DEF Numbers
<1>. QED BY <1>3, <1>4, <1>10 DEF NameInv

LEMMA CountSendNames == ASSUME OneLoader, Inv, NameInv, NEW f \in Fds, CountSend(f) PROVE NameInv'
<1> USE Shapes DEF Inv, Core
<1> DEFINE new == [seq |-> nreq, type |-> "N_VARS", ind |-> -1, val |-> 0]
<1>0. /\ load[f].op = "count" /\ at[f] = "send" /\ at'[f] = "wait" /\ \A g \in Fds \ {f} : at'[g] = at[g]
      /\ toBm' = Append(toBm, new)
      /\ UNCHANGED <<trans, unused, heap, nextSeq, nreq, load, nVars, toLinux, cb, req>> /\ UNCHANGED modVars
  BY DEF CountSend, loadVars
<1>1. \A g \in Fds : ~ Naming(g) /\ (load[g].op = "count" => g = f)
  BY <1>0, CounterAlone
<1>2. \A g \in Fds : ~ Naming(g)' /\ Mine(g)' = Mine(g)
  BY <1>0, <1>1 DEF Naming, Mine
<1>3. \A k \in 1 .. Len(toBm') : toBm'[k] = new \/ (k \in 1 .. Len(toBm) /\ toBm'[k] = toBm[k])
  BY <1>0
<1>4. Counts' /\ Names' /\ Got' /\ Apart'
  <2>1. Counts'
    BY <1>0 DEF NameInv, Counts, modVars
  <2>2. Names'
    BY <1>0, <1>1, <1>3, OnlyCounts DEF Names
  <2>. QED BY <1>2, <2>1, <2>2 DEF Got, Apart
<1>5. Stage'
  <2>1. \A g \in Fds : (Loading(g)' <=> Loading(g)) /\ (Complete(g)' <=> Complete(g))
    BY <1>0, <1>2 DEF Loading, Complete, Said
  <2>. QED BY <1>0, <1>1, <1>2, <2>1, StageKept DEF NameInv, Stage, modVars
<1>6. StraySet' = StraySet
  BY <1>0 DEF StraySet, Held, IsOpen
<1>7. /\ nextSeq \in SeqNrs /\ nreq \in SeqNrs /\ Age(nextSeq, nreq) = 1 /\ StraySet # {}
  BY <1>0 DEF NameInv, Numbers
<1>8. \A m : Recent(m) => m.seq \in SeqNrs /\ Age(nextSeq', m.seq) <= Cardinality(StraySet') + One(Counting')
  <2>1. ~ Counting /\ ~ Counting'
    BY <1>0, <1>1 DEF Counting
  <2>. QED BY <1>0, <1>6, <2>1 DEF Recent, One
<1>9. Recent(new)'
  <2>1. Cardinality(StraySet') \in Nat /\ Cardinality(StraySet') >= 1
    BY <1>6, <1>7, FewStrays DEF OneLoader
  <2>2. 1 <= Cardinality(StraySet') + One(Counting')
    BY <2>1 DEF One
  <2>. QED BY <1>0, <1>7, <2>2 DEF Recent, One
<1>10. Numbers'
  <2>1. BeforeNumber
    BY <1>1 DEF BeforeNumber
  <2>2. (\A k \in 1 .. Len(toBm) : Recent(toBm[k]))'
    <3>1. new' = new
      BY <1>0
    <3>. QED BY <1>3, <1>8, <1>9, <2>1, <3>1 DEF NameInv, Numbers, Recent
  <2>3. \A k \in 1 .. Len(toLinux) : Recent(toLinux[k])'
    BY <1>0, <1>8, <2>1 DEF NameInv, Numbers, Recent
  <2>4. \A g \in Fds : load'[g].op = "count" => at'[g] = "wait"
    BY <1>0, <1>1
  <2>. QED BY <1>0, <1>7, <2>2, <2>3, <2>4 DEF Numbers, Recent
<1>. QED BY <1>4, <1>5, <1>10 DEF NameInv

\* The open of a file that counts ends.
LEMMA CountEnds ==
    ASSUME Inv, NameInv, NEW f \in Fds, load[f].op = "count", at[f] # "pend", EndOpen(f, "sorry"),
           at' = [at EXCEPT ![f] = "out"],
           UNCHANGED <<unused, heap, nVars, size, gen, toBm, toLinux, cb, req, nextSeq, nreq, up, valAccess, made, dir, files>>
    PROVE  NameInv'
<1> USE Shapes DEF Inv, Core
<1>1. IsOpen(f) /\ \A g \in Fds : ~ Naming(g) /\ (load[g].op = "count" => g = f)
  BY CounterAlone DEF IsOpen
<1>2. /\ load'[f].op = "open" /\ load'[f].t = load[f].t /\ \A g \in Fds \ {f} : load'[g] = load[g] /\ at'[g] = at[g]
      /\ Mine(f)' = Ended(Mine(f), "sorry")
      /\ \A g \in Fds \ {f} : IsOpen(g) => Mine(g)' = Mine(g)
  <2>1. load'[f].op = "open" /\ load'[f].t = load[f].t /\ \A g \in Fds \ {f} : load'[g] = load[g] /\ at'[g] = at[g]
    BY DEF EndOpen, Load
  <2>2. \A g \in Fds \ {f} : IsOpen(g) => load[g].t # load[f].t
    BY <1>1 DEF Places
  <2>. QED BY <1>1, <2>1, <2>2 DEF EndOpen, Mine
<1>3. NamersKept
  BY <1>1, <1>2 DEF NamersKept, Naming
<1>4. StraySet' = StraySet
  <2>1. \A g \in Fds : (IsOpen(g)' <=> IsOpen(g)) /\ load'[g].t = load[g].t
    BY <1>1, <1>2 DEF IsOpen
  <2>. QED BY <2>1 DEF StraySet, Held
<1>5. \A g \in Fds : Complete(g)' => Complete(g)
  <2>1. Mine(f)'.text # Said("ok")
    BY <1>1, <1>2 DEF Ended, Said, Struct
  <2>2. \A g \in Fds \ {f} : Complete(g)' => Complete(g)
    BY <1>2 DEF Complete, Said, IsOpen
  <2>. QED BY <2>1, <2>2 DEF Complete, Said
<1>6. CountersKept
  <2>1. ~ Counting /\ \A g \in Fds : load'[g].op # "count"
    BY <1>1, <1>2 DEF Counting
  <2>. QED BY <2>1 DEF CountersKept, Counting
<1>7. (\A g, h \in Fds : Loading(g) /\ Loading(h) => g = h /\ up)'
  <2>1. \A g \in Fds : Loading(g)' => Loading(g)
    BY <1>2 DEF Loading
  <2>. QED BY <2>1 DEF NameInv, Stage
<1>8. \A g \in Fds : load'[g].op # "count"
  BY <1>1, <1>2
<1>. QED BY <1>3, <1>4, <1>5, <1>6, <1>7, <1>8, NamesKept

LEMMA CountEndNames == ASSUME Inv, NameInv, NEW f \in Fds, NoVariables(f) \/ CountFails(f) PROVE NameInv'
<1>1. /\ load[f].op = "count" /\ at[f] # "pend" /\ EndOpen(f, "sorry") /\ at' = [at EXCEPT ![f] = "out"]
      /\ UNCHANGED <<unused, heap, nVars, toBm, toLinux, cb, req, nextSeq, nreq>> /\ UNCHANGED modVars
  BY DEF NoVariables, CountFails, Interrupted, FailToSend, Waiting
<1>2. UNCHANGED <<size, gen, up, valAccess, made, dir, files>>
  BY <1>1 DEF modVars
<1>. QED BY <1>1, <1>2, CountEnds

\* The loop starts: the count is right and nothing has been made yet.
LEMMA StartLoopNames == ASSUME OneLoader, Inv, NameInv, NEW f \in Fds, StartLoop(f) PROVE NameInv'
<1> USE Shapes DEF Inv, Core
<1>0. /\ load[f].op = "count" /\ at[f] = "wait" /\ nVars > 0 /\ ~ valAccess /\ ~ made /\ IsOpen(f)
      /\ \A g \in Fds : ~ Naming(g) /\ (load[g].op = "count" => g = f)
  BY CounterAlone DEF StartLoop, Waiting, NameInv, Stage, IsOpen
<1>1. /\ valAccess' /\ made' /\ dir' = "val" /\ at'[f] = "fill" /\ \A g \in Fds \ {f} : at'[g] = at[g]
      /\ load' = [load EXCEPT ![f] = [load[f] EXCEPT !.op = "name", !.n = nVars]]
      /\ trans' = [trans EXCEPT ![load[f].t] = Turn(Mine(f))]
      /\ UNCHANGED <<unused, heap, nVars, size, gen, toBm, toLinux, cb, req, nextSeq, nreq, up, files>>
  BY <1>0 DEF StartLoop, MakeDir, Mine
<1>2. /\ load'[f].op = "name" /\ load'[f].n = nVars /\ load'[f].t = load[f].t /\ load'[f].i = 0
      /\ \A g \in Fds \ {f} : load'[g] = load[g]
  BY <1>0, <1>1 DEF Load, NameInv, Stage
<1>3. nVars = size /\ files = {} /\ size \in Nat
  BY <1>0 DEF NameInv, Stage, Counts
<1>4. /\ Mine(f)' = Turn(Mine(f)) /\ ~ Mine(f)'.valid
      /\ \A g \in Fds \ {f} : IsOpen(g) => Mine(g)' = Mine(g)
  <2>1. \A g \in Fds \ {f} : IsOpen(g) => load[g].t # load[f].t
    BY <1>0 DEF Places
  <2>2. Mine(f)' = Turn(Mine(f)) /\ \A g \in Fds \ {f} : IsOpen(g) => Mine(g)' = Mine(g)
    BY <1>0, <1>1, <1>2, <2>1 DEF Mine
  <2>3. ~ Turn(Mine(f)).valid
    BY <1>0, <1>1 DEF Turn, Struct
  <2>. QED BY <2>2, <2>3
<1>5. \A g \in Fds : Naming(g)' <=> g = f
  BY <1>0, <1>2 DEF Naming
<1>6. /\ \A k \in 1 .. Len(toBm) : toBm[k].type # "NAME"
      /\ \A k \in 1 .. Len(toLinux) : toLinux[k].type = "N_VARS"
      /\ cb.pc = "fill" => cb.msg.type = "N_VARS"
      /\ BeforeNumber
  BY <1>0, OnlyCounts
<1>7. Counts' /\ Names' /\ Got' /\ Apart'
  <2>1. Counts'
    BY <1>1 DEF NameInv, Counts
  <2>2. Names'
    BY <1>1, <1>6 DEF Names
  <2>3. Got' /\ Apart'
    BY <1>1, <1>2, <1>4, <1>5 DEF Got, Apart
  <2>. QED BY <2>1, <2>2, <2>3
<1>8. Stage'
  <2>1. (\A g \in Fds : Naming(g) => /\ valAccess /\ dir = "val" /\ load[g].n = size /\ load[g].i < size
                                     /\ files = Partial(load[g].i))'
    <3> SUFFICES ASSUME NEW g \in Fds, Naming(g)'
                 PROVE  /\ valAccess' /\ dir' = "val" /\ load'[g].n = size' /\ load'[g].i < size'
                        /\ files' = Partial(load[g].i)'
      OBVIOUS
    <3>1. g = f /\ size' > 0
      BY <1>0, <1>1, <1>3, <1>5
    <3>2. 0 .. load'[g].i - 1 = {}
      BY <1>2, <3>1
    <3>3. Partial(load[g].i)' = {}
      BY <3>2 DEF Partial
    <3>. QED BY <1>1, <1>2, <1>3, <3>1, <3>3
  <2>2. \A g \in Fds : ~ Complete(g)'
    <3>1. \A g \in Fds \ {f} : Complete(g)' => Complete(g)
      BY <1>2, <1>4 DEF Complete, Said, IsOpen
    <3>2. \A g \in Fds : ~ Complete(g)
      BY <1>0 DEF NameInv, Stage
    <3>. QED BY <1>2, <3>1, <3>2 DEF Complete
  <2>3. \A g \in Fds : Loading(g)' => g = f
    BY <1>0, <1>2, <1>5 DEF Loading, Naming
  <2>4. \A g \in Fds : load'[g].op # "count"
    BY <1>0, <1>2
  <2>5. up'
    BY <1>0, <1>1 DEF NameInv, Stage, Loading
  <2>. QED BY <1>1, <1>3, <2>1, <2>2, <2>3, <2>4, <2>5 DEF Stage
<1>9. StraySet' = StraySet
  <2>1. \A g \in Fds : (IsOpen(g)' <=> IsOpen(g)) /\ load'[g].t = load[g].t
    BY <1>0, <1>2 DEF IsOpen
  <2>. QED BY <1>1, <2>1 DEF StraySet, Held
<1>10. Numbers'
  <2>1. \A m : Recent(m) => Recent(m)'
    BY <1>0, <1>1, <1>2, <1>9 DEF Recent, Counting, One
  <2>2. /\ (\A k \in 1 .. Len(toBm) : Recent(toBm[k]))'
        /\ (\A k \in 1 .. Len(toLinux) : Recent(toLinux[k]))'
    BY <1>1, <1>6, <2>1 DEF NameInv, Numbers
  <2>3. \A g \in Fds : load'[g].op # "count"
    BY <1>0, <1>2
  <2>. QED BY <1>1, <2>2, <2>3 DEF NameInv, Numbers
<1>. QED BY <1>7, <1>8, <1>10 DEF NameInv

\* Before a name is asked for, only counts are under way.
LEMMA NoAnswers ==
    ASSUME NameInv, \A f \in Fds : Naming(f) => at[f] # "wait"
    PROVE  /\ \A k \in 1 .. Len(toBm) : toBm[k].type # "NAME"
           /\ \A k \in 1 .. Len(toLinux) : toLinux[k].type = "N_VARS"
           /\ cb.pc = "fill" => cb.msg.type = "N_VARS"
BY DEF NameInv, Names, Asking, Answers

LEMMA NamerAlone ==
    ASSUME NameInv, NEW f \in Fds, Naming(f)
    PROVE  /\ \A g \in Fds : (Naming(g) => g = f) /\ load[g].op # "count" /\ ~ Complete(g)
           /\ ~ Counting /\ IsOpen(f)
BY DEF NameInv, Stage, Loading, Naming, Counting, IsOpen

\* What all steps of access_var for a name have in common.
LEMMA AskCommon ==
    ASSUME OneLoader, Inv, NameInv, NEW f \in Fds, Naming(f), NEW stage, at' = [at EXCEPT ![f] = stage], UNCHANGED <<loadVars, modVars>>,
           NEW s, trans' = [trans EXCEPT ![load[f].t] = s], UNCHANGED <<unused, heap, nVars, toLinux, cb>>
    PROVE  /\ Stage' /\ Counts' /\ StraySet' = StraySet /\ ~ Counting'
           /\ \A m : Recent(m)' <=> m.seq \in SeqNrs /\ Age(nextSeq', m.seq) <= Cardinality(StraySet)
           /\ \A g \in Fds : (Naming(g)' <=> g = f) /\ load'[g].op # "count"
           /\ load' = load /\ Mine(f)' = s /\ at'[f] = stage
<1> USE Shapes DEF Inv, Core
<1>1. /\ \A g \in Fds : (Naming(g) => g = f) /\ load[g].op # "count" /\ ~ Complete(g)
      /\ ~ Counting /\ IsOpen(f)
  BY NamerAlone
<1>2. load' = load /\ \A g \in Fds \ {f} : at'[g] = at[g]
  BY DEF loadVars
<1>3. \A g \in Fds \ {f} : IsOpen(g) => Mine(g)' = Mine(g)
  BY <1>1, <1>2 DEF Mine, Places
<1>4. \A g \in Fds : ~ Complete(g)'
  <2>1. \A g \in Fds : Complete(g)' => g # f
    BY <1>2 DEF Complete, Naming
  <2>. QED BY <1>1, <1>2, <1>3, <2>1 DEF Complete, IsOpen, Said
<1>5. \A g \in Fds : (Naming(g)' <=> Naming(g)) /\ (Loading(g)' <=> Loading(g))
  BY <1>2 DEF Naming, Loading
<1>6. Stage'
  <2>1. (\A g, h \in Fds : Loading(g) /\ Loading(h) => g = h /\ up)'
    BY <1>5 DEF NameInv, Stage, modVars
  <2>2. \A g \in Fds : load'[g].op # "count"
    BY <1>1, <1>2
  <2>. QED BY <1>2, <1>4, <1>5, <2>1, <2>2, StageKept DEF NameInv, modVars
<1>7. Counts'
  BY DEF NameInv, Counts, modVars
<1>8. StraySet' = StraySet
  BY <1>2 DEF StraySet, Held, IsOpen
<1>9. ~ Counting'
  BY <1>1, <1>2 DEF Counting
<1>10. \A m : Recent(m)' <=> m.seq \in SeqNrs /\ Age(nextSeq', m.seq) <= Cardinality(StraySet) + 0
  BY <1>8, <1>9 DEF Recent, One
<1>11. Cardinality(StraySet) + 0 = Cardinality(StraySet)
  BY FewStrays DEF OneLoader
<1>. QED BY <1>1, <1>2, <1>5, <1>6, <1>7, <1>8, <1>9, <1>10, <1>11 DEF Mine

LEMMA SameStruct ==
    ASSUME Types, NEW f \in Fds, IsOpen(f), trans' = trans PROVE trans' = [trans EXCEPT ![load[f].t] = Mine(f)]
BY Shapes DEF Mine

LEMMA FillNames ==
    ASSUME OneLoader, Inv, NameInv, NEW f \in Fds, Naming(f), UNCHANGED <<loadVars, modVars>>,
           FillRequest(f, "NAME", load[f].i, 0)
    PROVE  NameInv'
<1> USE Shapes DEF Inv, Core
<1>0. /\ at[f] = "fill" /\ at' = [at EXCEPT ![f] = "seq"] /\ req'.ind = load[f].i
      /\ UNCHANGED <<trans, unused, heap, nextSeq, cb, nVars, toBm, toLinux>>
  BY DEF FillRequest, LinkRequest
<1>1. (\A g \in Fds : Naming(g) => g = f) /\ IsOpen(f)
  BY NamerAlone
<1>2. trans' = [trans EXCEPT ![load[f].t] = Mine(f)]
  BY <1>0, <1>1, SameStruct
<1>3. /\ Stage' /\ Counts' /\ StraySet' = StraySet /\ ~ Counting'
      /\ \A m : Recent(m)' <=> m.seq \in SeqNrs /\ Age(nextSeq', m.seq) <= Cardinality(StraySet)
      /\ \A g \in Fds : (Naming(g)' <=> g = f) /\ load'[g].op # "count"
      /\ load' = load /\ Mine(f)' = Mine(f) /\ at'[f] = "seq"
  <2>1. PICK s : s = Mine(f)
    OBVIOUS
  <2>. QED BY <1>0, <1>2, <2>1, AskCommon
<1>4. /\ \A k \in 1 .. Len(toBm) : toBm[k].type # "NAME"
      /\ \A k \in 1 .. Len(toLinux) : toLinux[k].type = "N_VARS"
      /\ cb.pc = "fill" => cb.msg.type = "N_VARS"
  BY <1>0, <1>1, NoAnswers
<1>5. Names'
  BY <1>0, <1>4 DEF Names
<1>6. Got'
  <2>1. ~ Mine(f).valid
    BY <1>0, <1>1 DEF Flight, Naming
  <2>2. load[f].i > 0 => Silent
    BY <1>0 DEF NameInv, Got
  <2>3. Silent' <=> Silent
    BY <1>0 DEF Silent
  <2>. QED BY <1>0, <1>3, <2>1, <2>2, <2>3 DEF Got
<1>7. Apart'
  BY <1>3 DEF Apart
<1>8. Numbers'
  <2>1. ~ Counting
    BY NamerAlone
  <2>2. BeforeNumber' => BeforeNumber
    BY <1>0, <1>1, <1>3 DEF BeforeNumber
  <2>3. \A m : Recent(m) => m.seq \in SeqNrs /\ Age(nextSeq, m.seq) <= Cardinality(StraySet') + One(Counting')
    BY <1>3, <2>1 DEF Recent, One
  <2>4. BeforeNumber' => /\ (\A k \in 1 .. Len(toBm) : Recent(toBm[k]))'
                         /\ (\A k \in 1 .. Len(toLinux) : Recent(toLinux[k]))'
    BY <1>0, <2>2, <2>3 DEF NameInv, Numbers, Recent
  <2>. QED BY <1>0, <1>3, <2>4 DEF NameInv, Numbers
<1>. QED BY <1>3, <1>5, <1>6, <1>7, <1>8 DEF NameInv

\* The number of a name differs from those of the counts that are still under way.
LEMMA TakeSeqNames ==
    ASSUME OneLoader, Inv, NameInv, NEW f \in Fds, Naming(f), UNCHANGED <<loadVars, modVars>>, TakeSeq(f)
    PROVE  NameInv'
<1> USE Shapes DEF Inv, Core
<1>0. /\ at[f] = "seq" /\ at' = [at EXCEPT ![f] = "pend"] /\ req'.ind = req.ind /\ req'.seq = nextSeq
      /\ nextSeq' = (nextSeq + 1) % SeqMod
      /\ UNCHANGED <<trans, unused, heap, cb, nVars, toBm, toLinux>>
  BY DEF TakeSeq, LinkRequest
<1>1. (\A g \in Fds : Naming(g) => g = f) /\ IsOpen(f) /\ ~ Counting
  BY NamerAlone
<1>2. trans' = [trans EXCEPT ![load[f].t] = Mine(f)]
  BY <1>0, <1>1, SameStruct
<1>3. /\ Stage' /\ Counts' /\ StraySet' = StraySet /\ ~ Counting'
      /\ \A g \in Fds : (Naming(g)' <=> g = f) /\ load'[g].op # "count"
      /\ load' = load /\ Mine(f)' = Mine(f) /\ at'[f] = "pend"
  <2>1. PICK s : s = Mine(f)
    OBVIOUS
  <2>. QED BY <1>0, <1>2, <2>1, AskCommon
<1>4. /\ \A k \in 1 .. Len(toBm) : toBm[k].type # "NAME"
      /\ \A k \in 1 .. Len(toLinux) : toLinux[k].type = "N_VARS"
      /\ cb.pc = "fill" => cb.msg.type = "N_VARS"
  BY <1>0, <1>1, NoAnswers
<1>5. Names'
  BY <1>0, <1>4 DEF Names
<1>6. Got'
  <2>1. ~ Mine(f).valid
    BY <1>0, <1>1 DEF Flight, Naming
  <2>2. (load[f].i > 0 => Silent) /\ req.ind = load[f].i
    BY <1>0 DEF NameInv, Got
  <2>3. Silent' <=> Silent
    BY <1>0 DEF Silent
  <2>. QED BY <1>0, <1>3, <2>1, <2>2, <2>3 DEF Got
<1>n. nextSeq \in SeqNrs
  BY DEF NameInv, Numbers
<1>7. Apart'
  <2>1. CASE load[f].i > 0
    <3>1. Silent
      BY <1>0, <2>1 DEF NameInv, Got
    <3>2. toBm' = <<>> /\ toLinux' = <<>>
      BY <1>0, <3>1 DEF Silent
    <3>. QED BY <1>3, <3>2 DEF Apart
  <2>2. CASE ~ load[f].i > 0
    <3>1. load[f].i = 0
      BY <2>2 DEF Load
    <3>2. BeforeNumber
      BY <1>0, <1>1, <3>1 DEF BeforeNumber
    <3>3. Cardinality(StraySet) \in Nat /\ Cardinality(StraySet) < SeqMod
      BY <1>1, FewStrays, FileStruct DEF OneLoader
    <3>4. ASSUME NEW m, Recent(m) PROVE m.seq # nextSeq
      <4>1. m.seq \in SeqNrs /\ Age(nextSeq, m.seq) <= Cardinality(StraySet)
        BY <1>1, <3>3, <3>4 DEF Recent, One
      <4>2. Age(nextSeq, m.seq) \in 1 .. SeqMod
        BY <1>n, <4>1, Ages
      <4>3. Age(nextSeq, m.seq) < SeqMod
        BY <3>3, <4>1, <4>2, SeqAssumption
      <4>. QED BY <1>n, <4>1, <4>3, Ages
    <3>5. /\ \A k \in 1 .. Len(toBm) : Recent(toBm[k])
          /\ \A k \in 1 .. Len(toLinux) : Recent(toLinux[k])
      BY <3>2 DEF NameInv, Numbers
    <3>6. /\ \A k \in 1 .. Len(toBm) : toBm[k].seq # nextSeq
          /\ \A k \in 1 .. Len(toLinux) : toLinux[k].seq # nextSeq
      BY <3>4, <3>5
    <3>. QED BY <1>0, <1>3, <3>6 DEF Apart, Other
  <2>. QED BY <2>1, <2>2
<1>8. Numbers'
  <2>1. ~ BeforeNumber'
    BY <1>3 DEF BeforeNumber
  <2>2. nextSeq' \in SeqNrs
    BY <1>0, <1>n, Ages
  <2>. QED BY <1>3, <2>1, <2>2 DEF Numbers
<1>. QED BY <1>3, <1>5, <1>6, <1>7, <1>8 DEF NameInv

LEMMA AddPendingNames ==
    ASSUME OneLoader, Inv, NameInv, NEW f \in Fds, Naming(f), UNCHANGED <<loadVars, modVars>>, AddPending(f, load[f].t)
    PROVE  NameInv'
<1> USE Shapes DEF Inv, Core
<1>0. /\ at[f] = "pend" /\ at' = [at EXCEPT ![f] = "send"]
      /\ trans' = [trans EXCEPT ![load[f].t] = [Mine(f) EXCEPT !.seq = req.seq]]
      /\ UNCHANGED <<unused, heap, nextSeq, req, cb, nVars, toBm, toLinux>>
  BY DEF AddPending, Mine
<1>1. (\A g \in Fds : Naming(g) => g = f) /\ IsOpen(f) /\ ~ Counting
  BY NamerAlone
<1>2. PICK s : s = [Mine(f) EXCEPT !.seq = req.seq]
  OBVIOUS
<1>3. /\ Stage' /\ Counts' /\ StraySet' = StraySet /\ ~ Counting'
      /\ \A g \in Fds : (Naming(g)' <=> g = f) /\ load'[g].op # "count"
      /\ load' = load /\ Mine(f)' = s /\ at'[f] = "send"
  BY <1>0, <1>2, AskCommon
<1>s. s.seq = req.seq /\ s.valid = Mine(f).valid
  BY <1>1, <1>2 DEF Struct
<1>4. /\ \A k \in 1 .. Len(toBm) : toBm[k].type # "NAME"
      /\ \A k \in 1 .. Len(toLinux) : toLinux[k].type = "N_VARS"
      /\ cb.pc = "fill" => cb.msg.type = "N_VARS"
  BY <1>0, <1>1, NoAnswers
<1>5. Names'
  BY <1>0, <1>4 DEF Names
<1>6. Got'
  <2>1. ~ Mine(f).valid
    BY <1>0, <1>1 DEF Flight, Naming
  <2>2. (load[f].i > 0 => Silent) /\ req.ind = load[f].i
    BY <1>0 DEF NameInv, Got
  <2>3. Silent' <=> Silent
    BY <1>0 DEF Silent
  <2>. QED BY <1>0, <1>3, <1>s, <2>1, <2>2, <2>3 DEF Got
<1>7. Apart'
  <2>1. ~ (cb.pc = "fill" /\ cb.t = load[f].t)
    BY <1>0, <1>1 DEF Flight, Flying, Naming, IsOpen
  <2>2. /\ \A k \in 1 .. Len(toBm) : Other(req.seq, toBm[k])
        /\ \A k \in 1 .. Len(toLinux) : Other(req.seq, toLinux[k])
    BY <1>0 DEF NameInv, Apart
  <2>. QED BY <1>0, <1>3, <1>s, <2>1, <2>2 DEF Apart, Other
<1>8. Numbers'
  <2>1. ~ BeforeNumber'
    BY <1>3 DEF BeforeNumber
  <2>. QED BY <1>0, <1>3, <2>1 DEF NameInv, Numbers
<1>. QED BY <1>3, <1>5, <1>6, <1>7, <1>8 DEF NameInv

\* A request for a name is the last message under way.
LEMMA SendNames ==
    ASSUME OneLoader, Inv, NameInv, NEW f \in Fds, Naming(f), UNCHANGED <<loadVars, modVars>>, SendRequest(f, "wait")
    PROVE  NameInv'
<1> USE Shapes DEF Inv, Core
<1>0. /\ at[f] = "send" /\ at' = [at EXCEPT ![f] = "wait"] /\ toBm' = Append(toBm, req)
      /\ UNCHANGED <<trans, unused, heap, nextSeq, req, cb, nVars, toLinux>>
  BY DEF SendRequest
<1>1. (\A g \in Fds : Naming(g) => g = f) /\ IsOpen(f) /\ ~ Counting
  BY NamerAlone
<1>2. trans' = [trans EXCEPT ![load[f].t] = Mine(f)]
  BY <1>0, <1>1, SameStruct
<1>3. /\ Stage' /\ Counts' /\ StraySet' = StraySet /\ ~ Counting'
      /\ \A g \in Fds : (Naming(g)' <=> g = f) /\ load'[g].op # "count"
      /\ load' = load /\ Mine(f)' = Mine(f) /\ at'[f] = "wait"
  <2>1. PICK s : s = Mine(f)
    OBVIOUS
  <2>. QED BY <1>0, <1>2, <2>1, AskCommon
<1>4. /\ \A k \in 1 .. Len(toBm) : toBm[k].type # "NAME"
      /\ \A k \in 1 .. Len(toLinux) : toLinux[k].type = "N_VARS"
      /\ cb.pc = "fill" => cb.msg.type = "N_VARS"
  BY <1>0, <1>1, NoAnswers
<1>5. /\ req.type = "NAME" /\ req.ind = load[f].i /\ req.seq = Mine(f).seq /\ ~ Mine(f).valid
  BY <1>0 DEF NameInv, Got, Types, AsksNames, Naming
<1>6. /\ Len(toBm') = Len(toBm) + 1 /\ toBm'[Len(toBm')] = req
      /\ \A k \in 1 .. Len(toBm) : toBm'[k] = toBm[k]
  BY <1>0 DEF LoadRequest
<1>7. Names'
  <2>1. Asking(f, req)'
    BY <1>0, <1>3, <1>5 DEF Asking
  <2>2. ASSUME NEW k \in 1 .. Len(toBm'), toBm'[k].type = "NAME"
        PROVE  k = Len(toBm') /\ toBm'[k] = req
    <3>1. k \in 1 .. Len(toBm) \/ k = Len(toBm) + 1
      <4>1. Len(toBm) \in Nat
        OBVIOUS
      <4>. QED BY <1>6, <4>1
    <3>2. k \notin 1 .. Len(toBm)
      BY <1>4, <1>6, <2>2
    <3>. QED BY <1>6, <3>1, <3>2
  <2>3. (\A k \in 1 .. Len(toBm) : toBm[k].type = "NAME" => k = Len(toBm) /\ \E g \in Fds : Asking(g, toBm[k]))'
    BY <1>0, <2>1, <2>2 DEF Asking
  <2>. QED BY <1>0, <1>4, <2>3 DEF Names
<1>8. Got'
  BY <1>3, <1>5 DEF Got
<1>9. Apart'
  <2>1. /\ \A k \in 1 .. Len(toBm) : Other(Mine(f).seq, toBm[k])
        /\ \A k \in 1 .. Len(toLinux) : Other(Mine(f).seq, toLinux[k])
        /\ cb.pc = "fill" /\ cb.t = load[f].t => cb.msg.type # "N_VARS"
    BY <1>0 DEF NameInv, Apart
  <2>2. \A k \in 1 .. Len(toBm') : toBm'[k] = req \/ (k \in 1 .. Len(toBm) /\ toBm'[k] = toBm[k])
    BY <1>6
  <2>3. \A k \in 1 .. Len(toBm') : toBm'[k].type = "N_VARS" => toBm'[k].seq # Mine(f).seq
    BY <1>5, <2>1, <2>2 DEF Other
  <2>4. \A k \in 1 .. Len(toLinux') : toLinux'[k].type = "N_VARS" => toLinux'[k].seq # Mine(f).seq
    BY <1>0, <2>1 DEF Other
  <2>. QED BY <1>0, <1>3, <2>1, <2>3, <2>4 DEF Apart, Other
<1>10. Numbers'
  <2>1. ~ BeforeNumber'
    BY <1>3 DEF BeforeNumber
  <2>. QED BY <1>0, <1>3, <2>1 DEF NameInv, Numbers
<1>. QED BY <1>3, <1>7, <1>8, <1>9, <1>10 DEF NameInv

LEMMA AskNames == ASSUME OneLoader, Inv, NameInv, NEW f \in Fds, Asks(f) PROVE NameInv'
<1>1. Naming(f) /\ UNCHANGED <<loadVars, modVars>>
  BY DEF Asks, Naming
<1>. QED BY <1>1, FillNames, TakeSeqNames, AddPendingNames, SendNames DEF Asks

LEMMA PartialNext ==
    ASSUME NEW i \in Nat
    PROVE  Partial(i + 1) = Partial(i) \cup {[dir |-> "val", name |-> NameOf(gen, i), ind |-> i]}
<1>1. 0 .. (i + 1) - 1 = (0 .. i - 1) \cup {i}
  OBVIOUS
<1>. QED BY <1>1 DEF Partial

\* Every turn of the loop adds the file of its variable; "ok" is said after the last.
LEMMA MakeFileNames == ASSUME OneLoader, Inv, NameInv, NEW f \in Fds, MakeFile(f) PROVE NameInv'
<1> USE Shapes DEF Inv, Core
<1>0. /\ Naming(f) /\ at[f] = "wait" /\ Mine(f).valid /\ load[f].op = "name" /\ NextTurn(f)
      /\ files' = files \cup {[dir |-> dir, name |-> Mine(f).text, ind |-> load[f].i]}
      /\ UNCHANGED <<unused, heap, nextSeq, req, cb, nVars, toBm, toLinux, nreq, up, gen, size, valAccess, made, dir>>
  BY DEF MakeFile, Waiting, Naming
<1>1. /\ \A g \in Fds : (Naming(g) => g = f) /\ load[g].op # "count" /\ ~ Complete(g)
      /\ IsOpen(f) /\ load[f] \in Load /\ load[f].i \in Nat /\ load[f].t \in Trans
  BY <1>0, NamerAlone DEF Load
<1>i. PICK i \in Nat : i = load[f].i
  BY <1>1
<1>2. Mine(f).text = NameOf(gen, i) /\ Silent
  BY <1>0, <1>i DEF NameInv, Got
<1>3. valAccess /\ dir = "val" /\ load[f].n = size /\ i < size /\ files = Partial(i) /\ up
  BY <1>0, <1>i DEF NameInv, Stage, Loading
<1>4. files' = Partial(i + 1)' /\ files' \subseteq Table("val")' /\ (i + 1 = size => files' = Table("val")')
  <2>1. files' = Partial(i + 1)
    BY <1>0, <1>i, <1>2, <1>3, PartialNext
  <2>2. 0 .. (i + 1) - 1 \subseteq 0 .. size - 1
    BY <1>3
  <2>3. Partial(i + 1) \subseteq Table("val") /\ (i + 1 = size => Partial(i + 1) = Table("val"))
    BY <2>2 DEF Partial, Table
  <2>4. Table("val")' = Table("val") /\ Partial(i + 1)' = Partial(i + 1)
    BY <1>0, TableKept
  <2>. QED BY <2>1, <2>3, <2>4
<1>5. cb.pc = "fill" => cb.msg.type = "N_VARS"
  BY <1>0, <1>1 DEF NameInv, Names, Asking, Answers
<1>6. Counts' /\ Names'
  <2>1. toBm' = <<>> /\ toLinux' = <<>>
    BY <1>0, <1>2 DEF Silent
  <2>. QED BY <1>0, <1>5, <2>1 DEF NameInv, Counts, Names
<1>7. \A g \in Fds \ {f} : IsOpen(g) => load[g].t # load[f].t
  BY <1>1 DEF Places
<1>8. CASE LastTurn(f)
  <2>1. EndOpen(f, "ok") /\ at' = [at EXCEPT ![f] = "out"] /\ i + 1 = size
    BY <1>0, <1>i, <1>3, <1>8 DEF NextTurn, LastTurn
  <2>2. load'[f].op = "open" /\ load'[f].t = load[f].t /\ \A g \in Fds \ {f} : load'[g] = load[g]
    BY <2>1 DEF EndOpen, Load
  <2>3. \A g \in Fds : ~ Naming(g)' /\ ~ Loading(g)' /\ load'[g].op # "count"
    BY <1>1, <2>2 DEF Naming, Loading
  <2>4. Stage'
    BY <1>0, <1>3, <1>4, <2>1, <2>3 DEF NameInv, Stage
  <2>5. Got' /\ Apart'
    BY <2>3 DEF Got, Apart
  <2>6. Numbers'
    <3>1. toBm' = <<>> /\ toLinux' = <<>>
      BY <1>0, <1>2 DEF Silent
    <3>. QED BY <1>0, <2>3, <3>1 DEF NameInv, Numbers
  <2>. QED BY <1>6, <2>4, <2>5, <2>6 DEF NameInv
<1>9. CASE ~ LastTurn(f)
  <2>1. /\ load' = [load EXCEPT ![f] = [load[f] EXCEPT !.i = load[f].i + 1]] /\ at' = [at EXCEPT ![f] = "fill"]
        /\ trans' = [trans EXCEPT ![load[f].t] = Turn(Mine(f))] /\ i + 1 # size
    BY <1>0, <1>i, <1>3, <1>9 DEF NextTurn, LastTurn, Mine
  <2>2. /\ load'[f].op = "name" /\ load'[f].t = load[f].t /\ load'[f].i = i + 1 /\ load'[f].n = load[f].n
        /\ \A g \in Fds \ {f} : load'[g] = load[g]
        /\ at'[f] = "fill"
    BY <1>0, <1>1, <1>i, <2>1 DEF Load
  <2>3. /\ Mine(f)' = Turn(Mine(f)) /\ ~ Mine(f)'.valid
        /\ \A g \in Fds \ {f} : IsOpen(g) => Mine(g)' = Mine(g)
    <3>1. Mine(f) \in Struct
      BY <1>1
    <3>2. trans'[load'[f].t] = Turn(Mine(f)) /\ ~ Turn(Mine(f)).valid
      BY <1>1, <2>1, <2>2, <3>1 DEF Turn, Struct
    <3>3. \A g \in Fds \ {f} : IsOpen(g) => trans'[load'[g].t] = trans[load[g].t]
      BY <1>7, <2>1, <2>2
    <3>. QED BY <3>2, <3>3 DEF Mine
  <2>4. \A g \in Fds : (Naming(g)' <=> g = f) /\ (Loading(g)' => g = f) /\ load'[g].op # "count"
    BY <1>0, <1>1, <2>2 DEF Naming, Loading
  <2>5. Stage'
    <3>1. (\A g \in Fds : Naming(g) => /\ valAccess /\ dir = "val" /\ load[g].n = size /\ load[g].i < size
                                       /\ files = Partial(load[g].i))'
      <4> SUFFICES ASSUME NEW g \in Fds, Naming(g)'
                   PROVE  /\ valAccess' /\ dir' = "val" /\ load'[g].n = size' /\ load'[g].i < size'
                          /\ files' = Partial(load[g].i)'
        OBVIOUS
      <4>1. g = f
        BY <2>4
      <4>2. Partial(load[g].i)' = Partial(i + 1)'
        BY <2>2, <4>1 DEF Partial
      <4>3. load'[f].n = size /\ load'[f].i < size
        BY <1>3, <2>1, <2>2
      <4>. QED BY <1>0, <1>3, <1>4, <4>1, <4>2, <4>3
    <3>2. \A g \in Fds : ~ Complete(g)'
      BY <1>1, <2>2, <2>3 DEF Complete, IsOpen, Said
    <3>. QED BY <1>0, <1>3, <1>4, <2>4, <3>1, <3>2 DEF NameInv, Stage
  <2>6. Got' /\ Apart'
    <3>1. Silent'
      BY <1>0, <1>2 DEF Silent
    <3>. QED BY <2>1, <2>2, <2>3, <2>4, <3>1 DEF Got, Apart
  <2>7. Numbers'
    <3>1. toBm' = <<>> /\ toLinux' = <<>>
      BY <1>0, <1>2 DEF Silent
    <3>. QED BY <1>0, <2>4, <3>1 DEF NameInv, Numbers
  <2>. QED BY <1>6, <2>5, <2>6, <2>7 DEF NameInv
<1>. QED BY <1>8, <1>9

(***************************************************************************)
(* The callback, the firmware and the restart.                             *)
(***************************************************************************)
LEMMA TailAt ==
    ASSUME NEW S, NEW q \in Seq(S), q # <<>>
    PROVE  /\ Len(q) \in Nat \ {0} /\ Len(Tail(q)) = Len(q) - 1 /\ Head(q) = q[1] /\ 1 \in 1 .. Len(q)
           /\ \A k \in 1 .. Len(Tail(q)) : Tail(q)[k] = q[k + 1] /\ k + 1 \in 1 .. Len(q)
           /\ Len(q) = 1 => Tail(q) = <<>>
OBVIOUS

\* What the callback and the firmware leave alone.
LEMMA FilesKept ==
    ASSUME Types, UNCHANGED <<unused, heap, nextSeq, req, at, load, nreq>>, UNCHANGED modVars
    PROVE  /\ StraySet' = StraySet /\ (Counting' <=> Counting) /\ (BeforeNumber' <=> BeforeNumber)
           /\ \A g \in Fds : (Naming(g)' <=> Naming(g)) /\ (Loading(g)' <=> Loading(g))
BY DEF StraySet, Held, IsOpen, Counting, BeforeNumber, Naming, Loading

LEMMA StageStays ==
    ASSUME Types, Stage, UNCHANGED <<unused, heap, nextSeq, req, at, load, nreq>>, UNCHANGED modVars,
           \A g \in Fds : load[g].op = "open" => Mine(g)'.text = Mine(g).text
    PROVE  Stage'
<1>1. \A g \in Fds : (Naming(g)' <=> Naming(g)) /\ (Loading(g)' <=> Loading(g))
  BY FilesKept
<1>2. \A g \in Fds : Complete(g)' => Complete(g)
  BY DEF Complete, Said
<1>3. (\A g, h \in Fds : Loading(g) /\ Loading(h) => g = h /\ up)'
  BY <1>1 DEF Stage, modVars
<1>4. \A g \in Fds : load'[g].op = "count" => ~ valAccess /\ load'[g].i = 0
  BY DEF Stage
<1>. QED BY <1>1, <1>2, <1>3, <1>4, StageKept DEF modVars

\* The numbers of the messages that are left were under way before.
LEMMA NumbersStay ==
    ASSUME Types, Numbers, UNCHANGED <<unused, heap, nextSeq, req, at, load, nreq>>, UNCHANGED modVars,
           \A k \in 1 .. Len(toBm') : \E j \in 1 .. Len(toBm) : toBm'[k].seq = toBm[j].seq,
           \A k \in 1 .. Len(toLinux') : \/ \E j \in 1 .. Len(toBm) : toLinux'[k].seq = toBm[j].seq
                                         \/ \E j \in 1 .. Len(toLinux) : toLinux'[k].seq = toLinux[j].seq
    PROVE  Numbers'
<1>1. /\ StraySet' = StraySet /\ (Counting' <=> Counting) /\ (BeforeNumber' <=> BeforeNumber)
  BY FilesKept
<1>2. ASSUME BeforeNumber'
      PROVE  /\ (\A k \in 1 .. Len(toBm) : Recent(toBm[k]))'
             /\ (\A k \in 1 .. Len(toLinux) : Recent(toLinux[k]))'
  BY <1>1, <1>2 DEF Numbers, Recent, One
<1>. QED BY <1>1, <1>2 DEF Numbers

\* The callback takes the first answer.
LEMMA TailNames ==
    ASSUME Types, Names, toLinux # <<>>, toLinux' = Tail(toLinux), UNCHANGED <<trans, load, at, toBm>>, UNCHANGED modVars
    PROVE  /\ (\A k \in 1 .. Len(toLinux) : toLinux[k].type # "N_VARS" =>
                  k = Len(toLinux) /\ toBm = <<>> /\ \E f \in Fds : Answers(f, toLinux[k]))'
           /\ Head(toLinux).type # "N_VARS" =>
                  toBm' = <<>> /\ toLinux' = <<>> /\ \E f \in Fds : Answers(f, Head(toLinux))
<1>1. toLinux \in Seq(LinkResponse)
  BY Shapes
<1>2. /\ Len(toLinux) \in Nat \ {0} /\ Len(toLinux') = Len(toLinux) - 1
      /\ Head(toLinux) = toLinux[1] /\ 1 \in 1 .. Len(toLinux)
      /\ \A k \in 1 .. Len(toLinux') : toLinux'[k] = toLinux[k + 1] /\ k + 1 \in 1 .. Len(toLinux)
      /\ Len(toLinux) = 1 => toLinux' = <<>>
  BY <1>1, TailAt
<1>3. ASSUME NEW k \in 1 .. Len(toLinux'), toLinux'[k].type # "N_VARS"
      PROVE  k = Len(toLinux') /\ toBm' = <<>> /\ (\E f \in Fds : Answers(f, toLinux[k]))'
  <2>n. PICK n \in Nat : n = Len(toLinux) /\ n - 1 = Len(toLinux')
    BY <1>2
  <2>k. k \in 1 .. n - 1
    BY <2>n
  <2>1. PICK j \in 1 .. n : j = k + 1 /\ toLinux'[k] = toLinux[j]
    BY <1>2, <2>n
  <2>2. j = n /\ toBm = <<>> /\ \E f \in Fds : Answers(f, toLinux[j])
    BY <1>3, <2>n, <2>1 DEF Names
  <2>3. PICK f \in Fds : Answers(f, toLinux[j])
    BY <2>2
  <2>4. (\E g \in Fds : Answers(g, toLinux[k]))'
    BY <2>1, <2>3 DEF Answers, Asking, Naming, Mine, modVars
  <2>5. k = n - 1
    BY <2>k, <2>1, <2>2
  <2>. QED BY <2>n, <2>2, <2>4, <2>5
<1>4. Head(toLinux).type # "N_VARS" =>
         toBm' = <<>> /\ toLinux' = <<>> /\ \E f \in Fds : Answers(f, Head(toLinux))
  BY <1>2 DEF Names
<1>. QED BY <1>3, <1>4

LEMMA MatchNames == ASSUME OneLoader, Inv, NameInv, CbMatch, UNCHANGED <<loadVars, modVars>> PROVE NameInv'
<1> USE Shapes DEF Inv, Core
<1>0. /\ cb.pc = "idle" /\ toLinux # <<>> /\ toLinux' = Tail(toLinux)
      /\ UNCHANGED <<trans, unused, heap, nextSeq, req, at, nVars, toBm, load, nreq>> /\ UNCHANGED modVars
  BY DEF CbMatch, loadVars
<1>1. PICK t \in Trans : trans[t].seq = Head(toLinux).seq /\ cb' = [pc |-> "fill", t |-> t, msg |-> Head(toLinux)]
  BY DEF CbMatch, Matches
<1>2. /\ Len(toLinux) \in Nat \ {0} /\ Len(toLinux') = Len(toLinux) - 1
      /\ Head(toLinux) = toLinux[1] /\ 1 \in 1 .. Len(toLinux)
      /\ \A k \in 1 .. Len(toLinux') : toLinux'[k] = toLinux[k + 1] /\ k + 1 \in 1 .. Len(toLinux)
      /\ Len(toLinux) = 1 => toLinux' = <<>>
  BY <1>0, TailAt
<1>3. /\ \A g \in Fds : (Naming(g)' <=> Naming(g)) /\ Mine(g)' = Mine(g)
      /\ \A g \in Fds : \A m : (Asking(g, m)' <=> Asking(g, m)) /\ (Answers(g, m)' <=> Answers(g, m))
  BY <1>0 DEF Naming, Mine, Asking, Answers, modVars
<1>4. Stage'
  BY <1>0, <1>3, StageStays DEF NameInv
<1>5. Counts'
  BY <1>0, <1>1, <1>2 DEF NameInv, Counts, modVars
<1>6. Names'
  <2>1. (\A k \in 1 .. Len(toBm) : toBm[k].type = "NAME" => k = Len(toBm) /\ \E f \in Fds : Asking(f, toBm[k]))'
    BY <1>0, <1>3 DEF NameInv, Names, Asking
  <2>2. (\A k \in 1 .. Len(toLinux) : toLinux[k].type # "N_VARS" =>
            k = Len(toLinux) /\ toBm = <<>> /\ \E f \in Fds : Answers(f, toLinux[k]))'
    BY <1>0, TailNames DEF NameInv
  <2>3. (cb.pc = "fill" /\ cb.msg.type # "N_VARS" =>
            toBm = <<>> /\ toLinux = <<>> /\ \E f \in Fds : Answers(f, cb.msg))'
    <3>1. cb'.msg = Head(toLinux)
      BY <1>1
    <3>2. ASSUME Head(toLinux).type # "N_VARS" PROVE (\E f \in Fds : Answers(f, cb.msg))'
      <4>1. PICK f \in Fds : Answers(f, Head(toLinux))
        BY <1>0, <3>2, TailNames DEF NameInv
      <4>2. Answers(f, cb.msg)'
        BY <1>0, <3>1, <4>1 DEF Answers, Asking, Naming, Mine, modVars
      <4>. QED BY <4>2
    <3>3. Head(toLinux).type # "N_VARS" => toBm' = <<>> /\ toLinux' = <<>>
      BY <1>0, TailNames DEF NameInv
    <3>. QED BY <3>1, <3>2, <3>3
  <2>. QED BY <2>1, <2>2, <2>3 DEF Names
<1>7. Got'
  BY <1>0, <1>3 DEF NameInv, Got, Silent
<1>8. Apart'
  BY <1>0, <1>1, <1>2, <1>3 DEF NameInv, Apart, Other, Mine
<1>9. Numbers'
  BY <1>0, <1>2, NumbersStay DEF NameInv
<1>. QED BY <1>4, <1>5, <1>6, <1>7, <1>8, <1>9 DEF NameInv

LEMMA DropNames == ASSUME OneLoader, Inv, NameInv, CbDrop, UNCHANGED <<loadVars, modVars>> PROVE NameInv'
<1> USE Shapes DEF Inv, Core
<1>0. /\ cb.pc = "idle" /\ cb' = cb /\ toLinux # <<>> /\ toLinux' = Tail(toLinux)
      /\ UNCHANGED <<trans, unused, heap, nextSeq, req, at, nVars, toBm, load, nreq>> /\ UNCHANGED modVars
  BY DEF CbDrop, loadVars
<1>2. /\ Len(toLinux) \in Nat \ {0} /\ Len(toLinux') = Len(toLinux) - 1
      /\ \A k \in 1 .. Len(toLinux') : toLinux'[k] = toLinux[k + 1] /\ k + 1 \in 1 .. Len(toLinux)
  BY <1>0, TailAt
<1>3. /\ \A g \in Fds : (Naming(g)' <=> Naming(g)) /\ Mine(g)' = Mine(g)
      /\ \A g \in Fds : \A m : (Asking(g, m)' <=> Asking(g, m)) /\ (Answers(g, m)' <=> Answers(g, m))
  BY <1>0 DEF Naming, Mine, Asking, Answers, modVars
<1>4. Stage'
  BY <1>0, <1>3, StageStays DEF NameInv
<1>5. Counts'
  BY <1>0, <1>2 DEF NameInv, Counts, modVars
<1>6. Names'
  <2>1. (\A k \in 1 .. Len(toBm) : toBm[k].type = "NAME" => k = Len(toBm) /\ \E f \in Fds : Asking(f, toBm[k]))'
    BY <1>0, <1>3 DEF NameInv, Names, Asking
  <2>2. (\A k \in 1 .. Len(toLinux) : toLinux[k].type # "N_VARS" =>
            k = Len(toLinux) /\ toBm = <<>> /\ \E f \in Fds : Answers(f, toLinux[k]))'
    BY <1>0, TailNames DEF NameInv
  <2>. QED BY <1>0, <2>1, <2>2 DEF Names
<1>7. Got'
  BY <1>0, <1>3 DEF NameInv, Got, Silent
<1>8. Apart'
  BY <1>0, <1>2, <1>3 DEF NameInv, Apart, Other, Mine
<1>9. Numbers'
  BY <1>0, <1>2, NumbersStay DEF NameInv
<1>. QED BY <1>4, <1>5, <1>6, <1>7, <1>8, <1>9 DEF NameInv

\* What the callback stores in a file's struct is the name the file waits for.
LEMMA FillsName ==
    ASSUME Inv, NameInv, NEW f \in Fds, IsOpen(f), cb.pc = "fill", cb.t = load[f].t
    PROVE  /\ Naming(f) /\ at[f] = "wait" /\ Silent
           /\ Filled(Mine(f), cb.msg).text = NameOf(gen, load[f].i) /\ Filled(Mine(f), cb.msg).valid
<1> USE Shapes DEF Inv, Core
<1>1. Naming(f) /\ at[f] \in {"send", "wait"}
  BY DEF Flight, Flying, Naming, IsOpen, Answered
<1>2. cb.msg.type # "N_VARS"
  BY <1>1 DEF NameInv, Apart
<1>3. PICK g \in Fds : Answers(g, cb.msg) /\ Silent
  BY <1>2 DEF NameInv, Names, Silent
<1>4. g = f
  BY <1>1, <1>3, NamerAlone DEF Answers, Asking
<1>5. /\ at[f] = "wait" /\ cb.msg.type = "NAME" /\ cb.msg.val = gen /\ cb.msg.ind = load[f].i
  BY <1>3, <1>4 DEF Answers, Asking
<1>6. /\ Filled(Mine(f), cb.msg).text = [kind |-> "NAME", ind |-> load[f].i, val |-> gen]
      /\ Filled(Mine(f), cb.msg).valid
  BY <1>5 DEF Filled, ValueTexts, ErrorTexts, Struct
<1>. QED BY <1>1, <1>3, <1>5, <1>6 DEF NameOf

LEMMA CbFillNames == ASSUME OneLoader, Inv, NameInv, CbFill, UNCHANGED <<loadVars, modVars>> PROVE NameInv'
<1> USE Shapes DEF Inv, Core
<1>0. /\ cb.pc = "fill" /\ cb.t \in Trans /\ cb'.pc = "finish"
      /\ trans' = [trans EXCEPT ![cb.t] = Filled(trans[cb.t], cb.msg)]
      /\ nVars' = IF cb.msg.type = "N_VARS" THEN cb.msg.val ELSE nVars
      /\ UNCHANGED <<unused, heap, nextSeq, req, at, toBm, toLinux, load, nreq>> /\ UNCHANGED modVars
  BY DEF CbFill, loadVars
<1>1. \A g \in Fds : /\ Naming(g)' <=> Naming(g)
                     /\ IsOpen(g) /\ cb.t # load[g].t => Mine(g)' = Mine(g)
                     /\ cb.t = load[g].t => Mine(g)' = Filled(Mine(g), cb.msg)
  BY <1>0 DEF Naming, Mine
<1>2. \A g \in Fds : IsOpen(g) => Mine(g)'.seq = Mine(g).seq
  <2>1. \A s \in Struct, m \in LinkResponse : Filled(s, m).seq = s.seq
    BY DEF Filled, Struct
  <2>2. cb.msg \in LinkResponse
    OBVIOUS
  <2>. QED BY <1>1, <2>1, <2>2
<1>3. Stage'
  <2>1. \A g \in Fds : load[g].op = "open" => cb.t # load[g].t /\ IsOpen(g)
    BY <1>0, FillsName DEF Naming, IsOpen
  <2>. QED BY <1>0, <1>1, <2>1, StageStays DEF NameInv
<1>4. Counts'
  BY <1>0 DEF NameInv, Counts, modVars
<1>5. Names'
  <2>1. \A g \in Fds : Naming(g) => IsOpen(g)
    BY DEF Naming, IsOpen
  <2>2. ~ Silent => \A g \in Fds : Naming(g) => Mine(g)' = Mine(g)
    BY <1>0, <1>1, <2>1, FillsName
  <2>3. (\A k \in 1 .. Len(toBm) : toBm[k].type = "NAME" => k = Len(toBm) /\ \E f \in Fds : Asking(f, toBm[k]))'
    BY <1>0, <1>1, <2>2 DEF NameInv, Names, Asking, Silent
  <2>4. (\A k \in 1 .. Len(toLinux) : toLinux[k].type # "N_VARS" =>
            k = Len(toLinux) /\ toBm = <<>> /\ \E f \in Fds : Answers(f, toLinux[k]))'
    BY <1>0, <1>1, <2>2 DEF NameInv, Names, Answers, Asking, Silent, modVars
  <2>. QED BY <1>0, <2>3, <2>4 DEF Names
<1>6. Got'
  <2> SUFFICES ASSUME NEW f \in Fds, Naming(f)
               PROVE  /\ Mine(f)'.valid => Mine(f)'.text = NameOf(gen, load[f].i)' /\ Silent'
                      /\ load[f].i > 0 /\ at[f] # "wait" => Silent'
                      /\ at[f] \in {"seq", "pend", "send"} => req.ind = load[f].i
                      /\ at[f] = "send" => req.seq = Mine(f)'.seq /\ ~ Mine(f)'.valid
    BY <1>0, <1>1 DEF Got
  <2>1. IsOpen(f) /\ (Silent' <=> Silent) /\ NameOf(gen, load[f].i)' = NameOf(gen, load[f].i)
    BY <1>0 DEF Naming, IsOpen, Silent, NameOf, modVars
  <2>2. CASE cb.t = load[f].t
    BY <1>0, <1>1, <2>1, <2>2, FillsName
  <2>3. CASE cb.t # load[f].t
    BY <1>1, <2>1, <2>3 DEF NameInv, Got
  <2>. QED BY <2>2, <2>3
<1>7. Apart'
  BY <1>0, <1>1, <1>2 DEF NameInv, Apart, Other, Naming, IsOpen
<1>8. Numbers'
  BY <1>0, NumbersStay DEF NameInv
<1>. QED BY <1>3, <1>4, <1>5, <1>6, <1>7, <1>8 DEF NameInv

LEMMA WakeNames == ASSUME OneLoader, Inv, NameInv, Wake PROVE NameInv'
<1> USE Shapes DEF Inv, Core
<1>0. /\ cb.pc = "finish" /\ cb.t \in Trans /\ cb'.pc = "idle"
      /\ trans' = [trans EXCEPT ![cb.t] = Finished(trans[cb.t], cb.msg)]
      /\ UNCHANGED <<unused, heap, nextSeq, req, at, nVars, toBm, toLinux, load, nreq>> /\ UNCHANGED modVars
  BY DEF Wake, CbFinish, CbIdle
<1>1. \A s \in Struct, m \in LinkResponse : /\ Finished(s, m).seq = s.seq /\ Finished(s, m).text = s.text
                                            /\ Finished(s, m).valid = s.valid
  BY DEF Finished, Struct
<1>2. \A g \in Fds : IsOpen(g) => /\ Mine(g)'.seq = Mine(g).seq /\ Mine(g)'.text = Mine(g).text
                                  /\ Mine(g)'.valid = Mine(g).valid
  <2>1. cb.msg \in LinkResponse
    OBVIOUS
  <2>. QED BY <1>0, <1>1, <2>1 DEF Mine
<1>3. \A g \in Fds : (Naming(g)' <=> Naming(g)) /\ (Naming(g) => IsOpen(g))
  BY <1>0 DEF Naming, IsOpen
<1>4. Stage'
  BY <1>0, <1>2, StageStays DEF NameInv, IsOpen
<1>5. Counts'
  BY <1>0 DEF NameInv, Counts, modVars
<1>6. Names'
  <2>1. (\A k \in 1 .. Len(toBm) : toBm[k].type = "NAME" => k = Len(toBm) /\ \E f \in Fds : Asking(f, toBm[k]))'
    BY <1>0, <1>2, <1>3 DEF NameInv, Names, Asking
  <2>2. (\A k \in 1 .. Len(toLinux) : toLinux[k].type # "N_VARS" =>
            k = Len(toLinux) /\ toBm = <<>> /\ \E f \in Fds : Answers(f, toLinux[k]))'
    BY <1>0, <1>2, <1>3 DEF NameInv, Names, Answers, Asking, modVars
  <2>. QED BY <1>0, <2>1, <2>2 DEF Names
<1>7. Got'
  <2>1. \A f \in Fds : NameOf(gen, load[f].i)' = NameOf(gen, load[f].i)
    BY <1>0 DEF NameOf, modVars
  <2>. QED BY <1>0, <1>2, <1>3, <2>1 DEF NameInv, Got, Silent
<1>8. Apart'
  BY <1>0, <1>2, <1>3 DEF NameInv, Apart, Other
<1>9. Numbers'
  BY <1>0, NumbersStay DEF NameInv
<1>. QED BY <1>4, <1>5, <1>6, <1>7, <1>8, <1>9 DEF NameInv

LEMMA FirmwareNames == ASSUME OneLoader, Inv, NameInv, Firmware PROVE NameInv'
<1> USE Shapes DEF Inv, Core
<1> DEFINE m == Head(toBm)
<1>0. /\ toBm # <<>> /\ toBm' = Tail(toBm) /\ toLinux' = Append(toLinux, Answer(Head(toBm)))
      /\ UNCHANGED <<trans, unused, heap, nextSeq, req, at, nVars, cb, load, nreq>> /\ UNCHANGED modVars
  BY DEF Firmware, loadVars
<1>n. PICK n \in Nat \ {0} : n = Len(toBm) /\ Len(toBm') = n - 1
  <2>1. Len(toBm) \in Nat \ {0} /\ Len(toBm') = Len(toBm) - 1
    BY <1>0, TailAt
  <2>. QED BY <2>1
<1>1. /\ Head(toBm) = toBm[1] /\ 1 \in 1 .. n /\ (n = 1 => toBm' = <<>>)
      /\ \A k \in 1 .. n - 1 : toBm'[k] = toBm[k + 1] /\ k + 1 \in 1 .. n
  BY <1>0, <1>n, TailAt
<1>l. PICK l \in Nat : l = Len(toLinux) /\ Len(toLinux') = l + 1
  <2>1. Len(toLinux) \in Nat /\ Len(toLinux') = Len(toLinux) + 1
    BY <1>0
  <2>. QED BY <2>1
<1>2. /\ toLinux'[l + 1] = Answer(m) /\ \A k \in 1 .. l : toLinux'[k] = toLinux[k]
      /\ \A k \in 1 .. l + 1 : k = l + 1 \/ k \in 1 .. l
  BY <1>0, <1>l
<1> HIDE DEF m
<1>m. m \in LoadRequest /\ m = toBm[1]
  BY <1>0, <1>1 DEF m
<1>3. Answer(m).seq = m.seq /\ (Answer(m).type = "N_VARS" <=> m.type = "N_VARS")
  BY <1>m DEF Answer, LoadRequest
<1>4. \A g \in Fds : (Naming(g)' <=> Naming(g)) /\ Mine(g)' = Mine(g)
  BY <1>0 DEF Naming, Mine
<1>5. /\ ~ Silent
      /\ cb.pc = "fill" => cb.msg.type = "N_VARS"
      /\ \A k \in 1 .. l : toLinux[k].type = "N_VARS"
  BY <1>0, <1>l DEF NameInv, Names, Silent
<1>6. Stage'
  BY <1>0, <1>4, StageStays DEF NameInv
<1>7. Counts'
  <2>1. Answer(m).type = "N_VARS" => Answer(m).val = size
    BY <1>m DEF Answer, LoadRequest
  <2>2. \A k \in 1 .. l + 1 : toLinux'[k].type = "N_VARS" => toLinux'[k].val = size
    BY <1>l, <1>2, <2>1 DEF NameInv, Counts
  <2>. QED BY <1>0, <1>l, <2>2 DEF NameInv, Counts, modVars
<1>8. Names'
  <2>1. (\A k \in 1 .. Len(toBm) : toBm[k].type = "NAME" => k = Len(toBm) /\ \E f \in Fds : Asking(f, toBm[k]))'
    <3> SUFFICES ASSUME NEW k \in 1 .. n - 1, toBm'[k].type = "NAME"
                 PROVE  k = n - 1 /\ (\E f \in Fds : Asking(f, toBm[k]))'
      BY <1>n
    <3>1. PICK j \in 1 .. n : j = k + 1 /\ toBm'[k] = toBm[j]
      BY <1>1
    <3>2. j = n /\ \E f \in Fds : Asking(f, toBm[j])
      BY <1>n, <3>1 DEF NameInv, Names
    <3>3. PICK f \in Fds : Asking(f, toBm[j])
      BY <3>2
    <3>4. (\E g \in Fds : Asking(g, toBm[k]))'
      BY <1>0, <1>4, <3>1, <3>3 DEF Asking, modVars
    <3>. QED BY <3>1, <3>2, <3>4
  <2>2. ASSUME m.type # "N_VARS" PROVE toBm' = <<>> /\ \E f \in Fds : Answers(f, Answer(m))
    <3>1. m.type = "NAME"
      BY <1>m, <2>2 DEF LoadRequest
    <3>2. PICK f \in Fds : Asking(f, m)
      BY <1>m, <1>n, <1>1, <3>1 DEF NameInv, Names
    <3>3. n = 1
      BY <1>m, <1>n, <1>1, <3>1 DEF NameInv, Names
    <3>4. m.ind < size
      BY <3>2 DEF Asking, NameInv, Stage
    <3>5. Answer(m) = [m EXCEPT !.val = gen]
      BY <3>1, <3>4 DEF Answer
    <3>6. Answer(m).type = "NAME" /\ Answer(m).val = gen /\ Answer(m).ind = m.ind /\ Answer(m).seq = m.seq
      BY <1>m, <3>1, <3>5 DEF LoadRequest
    <3>7. Answers(f, Answer(m))
      BY <3>2, <3>6 DEF Answers, Asking
    <3>. QED BY <1>1, <3>3, <3>7
  <2>3. (\A k \in 1 .. Len(toLinux) : toLinux[k].type # "N_VARS" =>
            k = Len(toLinux) /\ toBm = <<>> /\ \E f \in Fds : Answers(f, toLinux[k]))'
    <3> SUFFICES ASSUME NEW k \in 1 .. l + 1, toLinux'[k].type # "N_VARS"
                 PROVE  k = l + 1 /\ toBm' = <<>> /\ (\E f \in Fds : Answers(f, toLinux[k]))'
      BY <1>l
    <3>1. k = l + 1 /\ toLinux'[k] = Answer(m) /\ m.type # "N_VARS"
      BY <1>2, <1>3, <1>5
    <3>2. PICK f \in Fds : Answers(f, Answer(m))
      BY <2>2, <3>1
    <3>3. (\E g \in Fds : Answers(g, toLinux[k]))'
      BY <1>0, <1>4, <3>1, <3>2 DEF Answers, Asking, modVars
    <3>. QED BY <2>2, <3>1, <3>3
  <2>. QED BY <1>0, <1>5, <2>1, <2>3 DEF Names
<1>9. Got'
  <2>1. \A f \in Fds : Naming(f) => ~ Mine(f).valid /\ ~ (load[f].i > 0 /\ at[f] # "wait")
    BY <1>5 DEF NameInv, Got
  <2>. QED BY <1>0, <1>4, <2>1 DEF NameInv, Got
<1>10. Apart'
  <2>1. ASSUME NEW s, /\ \A k \in 1 .. n : Other(s, toBm[k])
                      /\ \A k \in 1 .. l : Other(s, toLinux[k])
        PROVE  /\ \A k \in 1 .. n - 1 : Other(s, toBm'[k])
               /\ \A k \in 1 .. l + 1 : Other(s, toLinux'[k])
    <3>1. Other(s, Answer(m))
      BY <1>m, <1>1, <1>3, <2>1 DEF Other
    <3>. QED BY <1>1, <1>2, <2>1, <3>1
  <2>2. ASSUME NEW f \in Fds, Naming(f), at[f] = "pend"
        PROVE  /\ \A k \in 1 .. n - 1 : Other(req.seq, toBm'[k])
               /\ \A k \in 1 .. l + 1 : Other(req.seq, toLinux'[k])
    BY <1>n, <1>l, <2>1, <2>2 DEF NameInv, Apart
  <2>3. ASSUME NEW f \in Fds, Naming(f), at[f] \in {"send", "wait"}
        PROVE  /\ \A k \in 1 .. n - 1 : Other(Mine(f).seq, toBm'[k])
               /\ \A k \in 1 .. l + 1 : Other(Mine(f).seq, toLinux'[k])
    BY <1>n, <1>l, <2>1, <2>3 DEF NameInv, Apart
  <2>4. ASSUME NEW f \in Fds, Naming(f), at[f] \in {"send", "wait"}
        PROVE  cb.pc = "fill" /\ cb.t = load[f].t => cb.msg.type # "N_VARS"
    BY <2>4 DEF NameInv, Apart
  <2>. QED BY <1>0, <1>4, <1>n, <1>l, <2>2, <2>3, <2>4 DEF Apart, Other
<1>11. Numbers'
  <2>1. \A k \in 1 .. Len(toBm') : \E j \in 1 .. Len(toBm) : toBm'[k].seq = toBm[j].seq
    BY <1>n, <1>1
  <2>2. \A k \in 1 .. Len(toLinux') : \/ \E j \in 1 .. Len(toBm) : toLinux'[k].seq = toBm[j].seq
                                      \/ \E j \in 1 .. Len(toLinux) : toLinux'[k].seq = toLinux[j].seq
    BY <1>m, <1>n, <1>l, <1>1, <1>2, <1>3
  <2>. QED BY <1>0, <2>1, <2>2, NumbersStay DEF NameInv
<1>. QED BY <1>6, <1>7, <1>8, <1>9, <1>10, <1>11 DEF NameInv

\* cfg_mgmt_remove takes every file away, and the next firmware has as many variables.
LEMMA RestartNames == ASSUME OneLoader, Inv, NameInv, Remove \/ Probe PROVE NameInv'
<1> USE Shapes DEF Inv, Core
<1>1. /\ UNCHANGED <<trans, nextSeq, req, at, cb, nVars, load, nreq, dir>>
      /\ \/ UNCHANGED <<toBm, toLinux>>
         \/ toBm' = <<>> /\ toLinux' = <<>>
      /\ size' = size /\ files' = {} /\ valAccess' = FALSE /\ made' = FALSE
      /\ \A f \in Fds : ~ Loading(f)
  <2>1. CASE Remove
    <3>1. \A e \in files : e.dir = "val"
      BY DEF NameInv, Stage, Table
    <3>. QED BY <2>1, <3>1 DEF Remove, Quiet, Loading, loadVars
  <2>2. CASE Probe
    <3>1. valAccess = FALSE /\ files = {} /\ made = FALSE /\ \A f \in Fds : ~ Loading(f)
      BY <2>2 DEF Probe, NameInv, Stage
    <3>. QED BY <2>2, <3>1 DEF Probe, loadVars, OneLoader
  <2>. QED BY <2>1, <2>2
<1>2. \A f \in Fds : /\ ~ Naming(f) /\ ~ Naming(f)' /\ ~ Loading(f)' /\ load'[f].op # "count"
                     /\ Mine(f)' = Mine(f)
  BY <1>1 DEF Loading, Naming, Mine
<1>3. /\ \A k \in 1 .. Len(toBm) : toBm[k].type # "NAME"
      /\ \A k \in 1 .. Len(toLinux) : toLinux[k].type = "N_VARS"
      /\ cb.pc = "fill" => cb.msg.type = "N_VARS"
      /\ BeforeNumber
  BY <1>2, OnlyCounts
<1>4. \A f \in Fds : ~ Complete(f)'
  <2>1. Remove => \A f \in Fds : load[f].op = "closed"
    BY DEF Remove, Quiet
  <2>2. Probe => \A f \in Fds : ~ Complete(f)
    BY DEF Probe, NameInv, Stage
  <2>. QED BY <1>1, <1>2, <2>1, <2>2 DEF Complete, Said
<1>5. Stage'
  BY <1>1, <1>2, <1>4 DEF Stage
<1>6. Counts' /\ Names' /\ Got' /\ Apart'
  <2>1. Counts'
    BY <1>1 DEF NameInv, Counts
  <2>2. Names'
    BY <1>1, <1>3 DEF Names
  <2>. QED BY <1>2, <2>1, <2>2 DEF Got, Apart
<1>7. Numbers'
  <2>1. CASE Remove
    <3>1. toBm' = <<>> /\ toLinux' = <<>>
      BY <2>1 DEF Remove
    <3>. QED BY <1>1, <1>2, <3>1 DEF NameInv, Numbers
  <2>2. CASE Probe
    <3>1. unused' \cup heap' = unused \cup heap
      BY <2>2 DEF Probe
    <3>2. StraySet' = StraySet
      BY <1>1, <3>1 DEF StraySet, Held, IsOpen
    <3>3. CountersKept
      BY <1>1, <2>2 DEF CountersKept, Counting, Probe
    <3>4. UNCHANGED <<toBm, toLinux>>
      BY <2>2 DEF Probe
    <3>. QED BY <1>1, <1>2, <3>2, <3>3, <3>4, NumbersKept DEF NameInv
  <2>. QED BY <2>1, <2>2
<1>. QED BY <1>5, <1>6, <1>7 DEF NameInv

LEMMA NameInvInit == Init => NameInv
<1> SUFFICES ASSUME Init PROVE NameInv
  OBVIOUS
<1>1. /\ \A f \in Fds : load[f].op = "closed"
      /\ toBm = <<>> /\ toLinux = <<>> /\ cb.pc = "idle" /\ nVars = -1 /\ nextSeq = 0
      /\ up = TRUE /\ valAccess = FALSE /\ made = FALSE /\ files = {}
  BY DEF Init, LinkInit, CbIdle, NotOpen
<1>2. nextSeq \in SeqNrs
  BY <1>1, SeqAssumption DEF SeqNrs
<1>3. \A f \in Fds : ~ Naming(f) /\ ~ Loading(f) /\ ~ Complete(f)
  BY <1>1 DEF Naming, Loading, Complete
<1>4. Stage
  BY <1>1, <1>3 DEF Stage
<1>5. Counts /\ Names /\ Got /\ Apart
  BY <1>1, <1>3 DEF Counts, Names, Got, Apart
<1>6. Numbers
  BY <1>1, <1>2 DEF Numbers
<1>. QED BY <1>4, <1>5, <1>6 DEF NameInv

LEMMA NamesSame == ASSUME NameInv, UNCHANGED <<linkVars, load, nreq, modVars>> PROVE NameInv'
<1>1. /\ UNCHANGED <<trans, unused, heap, nVars, size, gen, toBm, toLinux, cb, req, nextSeq, nreq, up, valAccess, made, dir>>
      /\ UNCHANGED <<files, at, load>>
  BY DEF linkVars, modVars
<1>2. NamersKept /\ StraySet' = StraySet /\ CountersKept
  BY <1>1 DEF NamersKept, Naming, Mine, StraySet, Held, IsOpen, CountersKept, Counting
<1>3. \A g \in Fds : (Complete(g)' <=> Complete(g)) /\ (Loading(g)' <=> Loading(g))
  BY <1>1 DEF Complete, Mine, Said, Loading
<1>4. /\ \A g \in Fds : load'[g].op = "count" => ~ valAccess /\ load'[g].i = 0
      /\ (\A f, g \in Fds : Loading(f) /\ Loading(g) => f = g /\ up)'
  BY <1>1, <1>3 DEF NameInv, Stage
<1>. QED BY <1>1, <1>2, <1>3, <1>4, NamesKept

LEMMA NameInvStep == ASSUME OneLoader PROVE Inv /\ NameInv /\ [Next]_vars => NameInv'
<1> SUFFICES ASSUME Inv, NameInv, [Next]_vars PROVE NameInv'
  OBVIOUS
<1>1. ASSUME NEW f \in Fds, Begin(f) \/ Continue(f) \/ CountFails(f) PROVE NameInv'
  <2>1. CASE Sleep(f)
    BY <2>1, NamesSame DEF Sleep
  <2>. QED BY <1>1, <2>1, BeginNames, AskNames, CountSeqNames, CountPendNames, CountSendNames, CountEndNames,
              StartLoopNames, MakeFileNames DEF Continue
<1>2. CASE UNCHANGED vars
  BY <1>2, NamesSame DEF vars, loadVars
<1>3. CASE Callback
  BY <1>3, MatchNames, DropNames, CbFillNames, WakeNames DEF Callback
<1>4. \A f \in Fds : ~ NameFails(f)
  BY DEF NameFails, OneLoader, Undisturbed
<1>. QED BY <1>1, <1>2, <1>3, <1>4, FirmwareNames, RestartNames DEF Next, Modules

LEMMA NameInvHolds == ASSUME OneLoader PROVE Spec => []NameInv
<1>1. Inv /\ NameInv /\ [Next]_vars => NameInv'
  BY NameInvStep
<1>2. Spec => []Inv
  BY InvHolds DEF OneLoader
<1>. QED BY <1>1, <1>2, NameInvInit, PTL DEF Spec

\* When one process loads the list at a time, nothing disturbs the requests for the
\* names, and every firmware has as many variables as the one before, the files in
\* debugfs have the names that the running firmware has for their indices: no answer
\* about an old firmware (the stale n_vars, a struct that rpmsg_link_exit took along,
\* an old get_n_vars with the number of a name) ends in a file's name.
THEOREM FilesNamedHolds == ASSUME OneLoader PROVE Spec => []FilesNamed
<1>1. NameInv => FilesNamed
  BY DEF NameInv, Stage, FilesNamed
<1>. QED BY <1>1, NameInvHolds, PTL

\* Under the same assumptions load_list says "ok" only when every variable of the
\* firmware has its files (the loop of debugfs_open_ll).
OkMeansAll == \A f \in Fds : Complete(f) => files = Table("val")
THEOREM OkCompleteHolds == ASSUME OneLoader PROVE Spec => [](OkMeansAll /\ OkComplete)
<1>1. NameInv => OkMeansAll /\ OkComplete
  BY DEF NameInv, Stage, Complete, OkMeansAll, OkComplete
<1>. QED BY <1>1, NameInvHolds, PTL

\* Under the same assumptions all files are made in the module's own directory, where
\* cfg_mgmt_remove finds them: only loads that overlap leave files in debugfs' root.
THEOREM FilesInPlaceHolds == ASSUME OneLoader PROVE Spec => []FilesInPlace
<1>1. NameInv => FilesInPlace
  BY DEF NameInv, Stage, Table, FilesInPlace
<1>. QED BY <1>1, NameInvHolds, PTL

=============================================================================
