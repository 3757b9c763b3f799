----------------------------- MODULE ConfigVars -----------------------------
(***************************************************************************)
(* The firmware's table of configuration variables (bm_fw/src/config.c,    *)
(* config_vars.c): a value with limits per variable, callbacks that the    *)
(* application registers, and the handler that serves the requests of the  *)
(* Linux side from one static reply buffer.  Bare metal code: every        *)
(* handler and every call of the application runs to its end.              *)
(*                                                                         *)
(* A message is a record of the fields of cfgMsg_t that the two sides      *)
(* decide on (seq, type, ind, val); the text of a name or a description is *)
(* determined by type and ind.  Callbacks are told apart by what they do   *)
(* to the table: "app" stands for any that leaves it alone (var_cb of      *)
(* main.c, cfgCpyCB without a location).                                   *)
(***************************************************************************)
EXTENDS Integers

CONSTANTS NVars,            \* n_vars: number of entries of vars[]
          VarId,            \* id of each entry
          VarMin, VarMax,   \* its limits
          VarInit,          \* its initial value
          Ids,              \* ids the application passes
          Ints,             \* values passed to the table from outside
          Kinds,            \* kinds of callback the application registers
          Lossy             \* values that a float holds one milli too low

Idx == 0 .. NVars - 1

AllKinds == {"none", "app", "cpy", "milli"}

ASSUME NVarsAssumption == NVars \in Nat
ASSUME TableAssumption ==
    /\ VarId \in [Idx -> Int]
    /\ VarMin \in [Idx -> Int]
    /\ VarMax \in [Idx -> Int]
    /\ VarInit \in [Idx -> Int]
ASSUME LimitsAssumption ==
    \A i \in Idx : VarMin[i] <= VarInit[i] /\ VarInit[i] <= VarMax[i]
ASSUME UniqueIds == \A i, j \in Idx : VarId[i] = VarId[j] => i = j
ASSUME InputAssumption ==
    /\ Ids \subseteq Int
    /\ Ints \subseteq Int
    /\ Kinds \subseteq AllKinds
    /\ Lossy \subseteq Int

VARIABLES val,          \* vars[i].val
          rdCb, wrCb,   \* vars[i].rd_cb, vars[i].wr_cb
          cell,         \* the application's location behind rd_cb_data, wr_cb_data
          rep           \* cfgMsgTxBuf: the static reply buffer

cfgVars == <<val, rdCb, wrCb, cell, rep>>

(***************************************************************************)
(* Requests and responses.  "BAD" stands for every other request type.     *)
(***************************************************************************)
VarRequests == {"WR", "RD", "RD_MIN", "RD_MAX", "NAME", "DESC"}
Requests    == VarRequests \cup {"NOP", "N_VARS", "BAD"}
Responses   == {"OK", "N_VARS", "ID_ERR", "RD_VAL", "RD_MIN", "RD_MAX",
                "NAME", "DESC", "REQ_ERR"}

Message(types) == [seq : Nat, type : types, ind : Int, val : Int]

(***************************************************************************)
(* Setting a value.                                                        *)
(***************************************************************************)
\* (Variant: the lower limit is forgotten.)
ClampNoMin(i, v) == IF v > VarMax[i] THEN VarMax[i] ELSE v
\* The upper limit is applied first, then the lower one.
Clamp(i, v) == LET w == IF v > VarMax[i] THEN VarMax[i] ELSE v
               IN  IF w < VarMin[i] THEN VarMin[i] ELSE w

Known(id) == \E i \in Idx : VarId[i] = id
IndexOf(id) == CHOOSE i \in Idx : /\ VarId[i] = id
                                  /\ \A j \in Idx : VarId[j] = id => i <= j

\* What (int32_t)(*f * 1000) makes of a float that was stored as v * 1.0e-3:
\* 251 comes back as 250.  A "milli" cell is given by what is read from it.
Milli(v) == IF v \in Lossy THEN v - 1 ELSE v

\* cfgSetInd stores the limited value and then runs the write callback.
AfterWrite(i, v) ==
    CASE wrCb[i] = "cpy"   -> [cell EXCEPT ![i] = Clamp(i, v)]
      [] wrCb[i] = "milli" -> [cell EXCEPT ![i] = Milli(Clamp(i, v))]
      [] OTHER             -> cell

cfgSetInd(i, v, trigCb) ==
    /\ val' = [val EXCEPT ![i] = Clamp(i, v)]
    /\ cell' = IF trigCb THEN AfterWrite(i, v) ELSE cell

\* The table after the read callback of i: cfgCpyCB goes through cfgSetId,
\* cfgFloatMilliCB stores into var->val itself.
AfterRead(i) ==
    CASE rdCb[i] = "cpy"   -> LET j == IndexOf(VarId[i])
                              IN  [val EXCEPT ![j] = Clamp(j, cell[i])]
      [] rdCb[i] = "milli" -> [val EXCEPT ![i] = cell[i]]
      [] OTHER             -> val

(***************************************************************************)
(* config_msg_handler.  The reply echoes seq and ind; replies that carry   *)
(* no number leave the previous one in the buffer.                         *)
(***************************************************************************)
Reply(r, type, v) == rep' = [seq |-> r.seq, type |-> type, ind |-> r.ind, val |-> v]

HandleNop(r) == /\ r.type = "NOP"
                /\ Reply(r, "OK", 0)
                /\ UNCHANGED <<val, cell>>

HandleNVars(r) == /\ r.type = "N_VARS"
                  /\ Reply(r, "N_VARS", NVars)
                  /\ UNCHANGED <<val, cell>>

HandleBadIndex(r) == /\ r.type \notin {"NOP", "N_VARS"}
                     /\ r.ind \notin Idx
                     /\ Reply(r, "ID_ERR", rep.val)
                     /\ UNCHANGED <<val, cell>>

HandleWrite(r) == /\ r.type = "WR" /\ r.ind \in Idx
                  /\ cfgSetInd(r.ind, r.val, TRUE)
                  /\ Reply(r, "OK", rep.val)

\* (Variant: the value is copied before the read callback runs.)
AnsweredEarly(i) == val[i]
\* The read callback runs before the value is copied.
Answered(i) == AfterRead(i)[i]

HandleRead(r) == /\ r.type = "RD" /\ r.ind \in Idx
                 /\ val' = AfterRead(r.ind)
                 /\ Reply(r, "RD_VAL", Answered(r.ind))
                 /\ UNCHANGED cell

HandleLimit(r) == /\ r.type \in {"RD_MIN", "RD_MAX"} /\ r.ind \in Idx
                  /\ Reply(r, r.type, IF r.type = "RD_MIN" THEN VarMin[r.ind]
                                                           ELSE VarMax[r.ind])
                  /\ UNCHANGED <<val, cell>>

\* Names and descriptions come with the value as it stands, no callback runs.
HandleText(r) == /\ r.type \in {"NAME", "DESC"} /\ r.ind \in Idx
                 /\ Reply(r, r.type, val[r.ind])
                 /\ UNCHANGED <<val, cell>>

\* (Variant: the type of the request is echoed.)
HandleUnknownEcho(r) == /\ r.type = "BAD" /\ r.ind \in Idx
                        /\ Reply(r, r.type, rep.val)
                        /\ UNCHANGED <<val, cell>>
HandleUnknown(r) == /\ r.type = "BAD" /\ r.ind \in Idx
                    /\ Reply(r, "REQ_ERR", rep.val)
                    /\ UNCHANGED <<val, cell>>

config_msg_handler(r) ==
    /\ \/ HandleNop(r)   \/ HandleNVars(r) \/ HandleBadIndex(r)
       \/ HandleWrite(r) \/ HandleRead(r)  \/ HandleLimit(r)
       \/ HandleText(r)  \/ HandleUnknown(r)
    /\ UNCHANGED <<rdCb, wrCb>>

(***************************************************************************)
(* Calls of the application.                                               *)
(***************************************************************************)
cfgSetId(id, v, trigCb) ==
    /\ Known(id)
    /\ cfgSetInd(IndexOf(id), v, trigCb)
    /\ UNCHANGED <<rdCb, wrCb, rep>>

cfgSetCallback(id, kind, read) ==
    /\ Known(id)
    /\ IF read THEN rdCb' = [rdCb EXCEPT ![IndexOf(id)] = kind] /\ UNCHANGED wrCb
               ELSE wrCb' = [wrCb EXCEPT ![IndexOf(id)] = kind] /\ UNCHANGED rdCb
    /\ UNCHANGED <<val, cell, rep>>

\* The application stores into a location that a callback reads.
AppStore(i, v) == /\ cell' = [cell EXCEPT ![i] = v]
                  /\ UNCHANGED <<val, rdCb, wrCb, rep>>

(***************************************************************************)
(* The firmware on its own, facing any sequence of requests.               *)
(***************************************************************************)
CfgInit == /\ val = VarInit
           /\ rdCb = [i \in Idx |-> "none"]
           /\ wrCb = [i \in Idx |-> "none"]
           /\ cell = [i \in Idx |-> 0]
           /\ rep = [seq |-> 0, type |-> "OK", ind |-> 0, val |-> 0]

Request == [seq : {0}, type : Requests, ind : -1 .. NVars, val : Ints]

Serve == \E r \in Request : config_msg_handler(r)

Local == \/ \E id \in Ids, v \in Ints, trigCb \in BOOLEAN : cfgSetId(id, v, trigCb)
         \/ \E id \in Ids, kind \in Kinds, read \in BOOLEAN : cfgSetCallback(id, kind, read)
         \/ \E i \in Idx, v \in Ints : AppStore(i, v)

CfgNext == Serve \/ Local

CfgSpec == CfgInit /\ [][CfgNext]_cfgVars

(***************************************************************************)
(* Properties.                                                             *)
(***************************************************************************)
\* Every variable of the firmware has its type: config.c's table and buffer.
CfgTypeOK == /\ val \in [Idx -> Int]
             /\ rdCb \in [Idx -> AllKinds]
             /\ wrCb \in [Idx -> AllKinds]
             /\ cell \in [Idx -> Int]
             /\ rep \in Message(Responses)

\* No sequence of requests, application calls and callbacks takes a variable
\* outside the limits of its table entry (cfgSetInd and the callbacks).
InLimits == \A i \in Idx : VarMin[i] <= val[i] /\ val[i] <= VarMax[i]
=============================================================================
