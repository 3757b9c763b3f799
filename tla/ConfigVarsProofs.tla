-------------------------- MODULE ConfigVarsProofs --------------------------
(***************************************************************************)
(* Proofs about the firmware's table: its types, and that no callback but  *)
(* cfgFloatMilliCB takes a variable outside its limits.                    *)
(***************************************************************************)
EXTENDS ConfigTable, TLAPS

\* cfgSetId finds the entry whose id it was given.
LEMMA IndexOfType == ASSUME NEW id, Known(id)
                     PROVE  IndexOf(id) \in Idx /\ VarId[IndexOf(id)] = id
<1>1. PICK i \in Idx : VarId[i] = id
  BY DEF Known
<1>2. \A j \in Idx : VarId[j] = id => i <= j
  <2>1. ASSUME NEW j \in Idx, VarId[j] = id  PROVE i = j
    BY <1>1, <2>1, UniqueIds
  <2>2. i \in Int
    BY NVarsAssumption DEF Idx
  <2> QED BY <2>1, <2>2
<1> QED BY <1>1, <1>2 DEF IndexOf

\* cfgSetInd stores a value within the limits, for any value it is given.
LEMMA ClampInLimits ==
    ASSUME NEW i \in Idx, NEW v \in Int
    PROVE  /\ Clamp(i, v) \in Int
           /\ VarMin[i] <= Clamp(i, v)
           /\ Clamp(i, v) <= VarMax[i]
<1>1. /\ VarMin[i] \in Int /\ VarMax[i] \in Int /\ VarInit[i] \in Int
      /\ VarMin[i] <= VarInit[i] /\ VarInit[i] <= VarMax[i]
  BY TableAssumption, LimitsAssumption
<1> QED BY <1>1 DEF Clamp

LEMMA MilliType == ASSUME NEW v \in Int PROVE Milli(v) \in Int
  BY DEF Milli

LEMMA AfterWriteType ==
    ASSUME CfgTypeOK, NEW i \in Idx, NEW v \in Int
    PROVE  AfterWrite(i, v) \in [Idx -> Int]
<1>1. Clamp(i, v) \in Int
  BY ClampInLimits
<1>2. Milli(Clamp(i, v)) \in Int
  BY <1>1, MilliType
<1> QED BY <1>1, <1>2 DEF CfgTypeOK, AfterWrite

LEMMA AfterReadType ==
    ASSUME CfgTypeOK, NEW i \in Idx
    PROVE  AfterRead(i) \in [Idx -> Int]
<1> DEFINE j == IndexOf(VarId[i])
<1>1. j \in Idx
  BY IndexOfType DEF Known
<1>2. cell[i] \in Int
  BY DEF CfgTypeOK
<1>3. Clamp(j, cell[i]) \in Int
  BY <1>1, <1>2, ClampInLimits
<1> HIDE DEF j
<1>4. [val EXCEPT ![j] = Clamp(j, cell[i])] \in [Idx -> Int]
  BY <1>1, <1>3 DEF CfgTypeOK
<1>5. [val EXCEPT ![i] = cell[i]] \in [Idx -> Int]
  BY <1>2 DEF CfgTypeOK
<1>6. val \in [Idx -> Int]
  BY DEF CfgTypeOK
<1> QED BY <1>4, <1>5, <1>6 DEF AfterRead, j

LEMMA RequestType == Request \subseteq Message(Requests)
<1> SUFFICES ASSUME NEW r \in Request PROVE r \in Message(Requests)
  OBVIOUS
<1>1. r = [seq |-> r.seq, type |-> r.type, ind |-> r.ind, val |-> r.val]
  BY DEF Request
<1>2. r.seq \in Nat /\ r.type \in Requests
  BY DEF Request
<1>3. r.ind \in Int
  BY NVarsAssumption DEF Request
<1>4. r.val \in Int
  BY InputAssumption DEF Request
<1> QED BY <1>1, <1>2, <1>3, <1>4 DEF Message

\* A request of the right type leaves the table and the reply well typed.
LEMMA HandlerType ==
    ASSUME CfgTypeOK, NEW r \in Message(Requests), config_msg_handler(r)
    PROVE  CfgTypeOK'
<1>0. /\ r.seq \in Nat /\ r.ind \in Int /\ r.val \in Int /\ r.type \in Requests
      /\ rep.val \in Int
  BY DEF CfgTypeOK, Message
<1>1. rdCb' = rdCb /\ wrCb' = wrCb
  BY DEF config_msg_handler
<1>r. ASSUME NEW type \in Responses, NEW v \in Int, Reply(r, type, v)
      PROVE  rep' \in Message(Responses)
  BY <1>0, <1>r DEF Reply, Message
<1>2. CASE HandleNop(r)
  BY <1>1, <1>2, <1>r DEF HandleNop, CfgTypeOK, Responses
<1>3. CASE HandleNVars(r)
  BY <1>1, <1>3, <1>r, NVarsAssumption DEF HandleNVars, CfgTypeOK, Responses
<1>4. CASE HandleBadIndex(r)
  BY <1>0, <1>1, <1>4, <1>r DEF HandleBadIndex, CfgTypeOK, Responses
<1>5. CASE HandleWrite(r)
  <2>1. r.ind \in Idx /\ Clamp(r.ind, r.val) \in Int
    BY <1>0, <1>5, ClampInLimits DEF HandleWrite
  <2>2. val' \in [Idx -> Int]
    BY <1>5, <2>1 DEF HandleWrite, cfgSetInd, CfgTypeOK
  <2>3. cell' \in [Idx -> Int]
    BY <1>0, <1>5, <2>1, AfterWriteType DEF HandleWrite, cfgSetInd
  <2>4. rep' \in Message(Responses)
    BY <1>0, <1>5, <1>r DEF HandleWrite, Responses
  <2> QED BY <1>1, <2>2, <2>3, <2>4 DEF CfgTypeOK
<1>6. CASE HandleRead(r)
  <2>1. r.ind \in Idx /\ val' \in [Idx -> Int] /\ cell' = cell
    BY <1>6, AfterReadType DEF HandleRead
  <2>2. rep' \in Message(Responses)
    BY <1>6, <2>1, <1>r DEF HandleRead, Answered, Responses
  <2> QED BY <1>1, <2>1, <2>2 DEF CfgTypeOK
<1>7. CASE HandleLimit(r)
  <2>1. r.type \in Responses /\ VarMin[r.ind] \in Int /\ VarMax[r.ind] \in Int
    BY <1>7, TableAssumption DEF HandleLimit, Responses
  <2>2. rep' \in Message(Responses)
    BY <1>7, <2>1, <1>r DEF HandleLimit
  <2> QED BY <1>1, <1>7, <2>2 DEF HandleLimit, CfgTypeOK
<1>8. CASE HandleText(r)
  <2>1. r.type \in Responses /\ val[r.ind] \in Int
    BY <1>8 DEF HandleText, Responses, CfgTypeOK
  <2>2. rep' \in Message(Responses)
    BY <1>8, <2>1, <1>r DEF HandleText
  <2> QED BY <1>1, <1>8, <2>2 DEF HandleText, CfgTypeOK
<1>9. CASE HandleUnknown(r)
  BY <1>0, <1>1, <1>9, <1>r DEF HandleUnknown, CfgTypeOK, Responses
<1> QED BY <1>2, <1>3, <1>4, <1>5, <1>6, <1>7, <1>8, <1>9 DEF config_msg_handler

LEMMA SetIdType ==
    ASSUME CfgTypeOK, NEW id, NEW v \in Int, NEW trigCb \in BOOLEAN,
           cfgSetId(id, v, trigCb)
    PROVE  CfgTypeOK'
<1> DEFINE i == IndexOf(id)
<1>1. i \in Idx
  BY IndexOfType DEF cfgSetId
<1> HIDE DEF i
<1>2. cfgSetInd(i, v, trigCb) /\ UNCHANGED <<rdCb, wrCb, rep>>
  BY DEF cfgSetId, i
<1>3. Clamp(i, v) \in Int
  BY <1>1, ClampInLimits
<1>4. val' \in [Idx -> Int]
  BY <1>1, <1>2, <1>3 DEF cfgSetInd, CfgTypeOK
<1>5. cell' \in [Idx -> Int]
  BY <1>1, <1>2, AfterWriteType DEF cfgSetInd, CfgTypeOK
<1> QED BY <1>2, <1>4, <1>5 DEF CfgTypeOK

LEMMA SetCallbackType ==
    ASSUME CfgTypeOK, NEW id, NEW kind \in Kinds, NEW read \in BOOLEAN,
           cfgSetCallback(id, kind, read)
    PROVE  CfgTypeOK'
<1>1. IndexOf(id) \in Idx
  BY IndexOfType DEF cfgSetCallback
<1>2. kind \in AllKinds
  BY InputAssumption
<1> QED BY <1>1, <1>2 DEF cfgSetCallback, CfgTypeOK

LEMMA AppStoreType ==
    ASSUME CfgTypeOK, NEW i \in Idx, NEW v \in Int, AppStore(i, v)
    PROVE  CfgTypeOK'
  BY DEF AppStore, CfgTypeOK

LEMMA CfgInitType == CfgInit => CfgTypeOK
<1> SUFFICES ASSUME CfgInit PROVE CfgTypeOK
  OBVIOUS
<1>1. val \in [Idx -> Int] /\ cell \in [Idx -> Int]
  BY TableAssumption DEF CfgInit
<1>2. rdCb \in [Idx -> AllKinds] /\ wrCb \in [Idx -> AllKinds]
  BY DEF CfgInit, AllKinds
<1>3. rep \in Message(Responses)
  BY DEF CfgInit, Message, Responses
<1> QED BY <1>1, <1>2, <1>3 DEF CfgTypeOK

\* The firmware's variables keep their types.
THEOREM CfgTypeCorrect == CfgSpec => []CfgTypeOK
<1>1. CfgTypeOK /\ [CfgNext]_cfgVars => CfgTypeOK'
  <2> SUFFICES ASSUME CfgTypeOK, [CfgNext]_cfgVars PROVE CfgTypeOK'
    OBVIOUS
  <2>1. CASE Serve
    <3>1. PICK r \in Request : config_msg_handler(r)
      BY <2>1 DEF Serve
    <3>2. r \in Message(Requests)
      BY RequestType
    <3> QED BY <3>1, <3>2, HandlerType
  <2>2. ASSUME NEW id \in Ids, NEW v \in Ints, NEW trigCb \in BOOLEAN,
               cfgSetId(id, v, trigCb)
        PROVE  CfgTypeOK'
    BY <2>2, SetIdType, InputAssumption
  <2>3. ASSUME NEW id \in Ids, NEW kind \in Kinds, NEW read \in BOOLEAN,
               cfgSetCallback(id, kind, read)
        PROVE  CfgTypeOK'
    BY <2>3, SetCallbackType
  <2>4. ASSUME NEW i \in Idx, NEW v \in Ints, AppStore(i, v)
        PROVE  CfgTypeOK'
    BY <2>4, AppStoreType, InputAssumption
  <2>5. CASE UNCHANGED cfgVars
    BY <2>5 DEF cfgVars, CfgTypeOK
  <2> QED BY <2>1, <2>2, <2>3, <2>4, <2>5 DEF CfgNext, Local
<1> QED BY <1>1, CfgInitType, PTL DEF CfgSpec

(***************************************************************************)
(* Limits.  The invariant adds that no cfgFloatMilliCB reads: it stores    *)
(* into the variable without limiting what it stores.                      *)
(***************************************************************************)
NoMilliRead == \A i \in Idx : rdCb[i] # "milli"

LimitInv == CfgTypeOK /\ NoMilliRead /\ InLimits

\* One limited store keeps every variable in its limits.
LEMMA StoreInLimits ==
    ASSUME CfgTypeOK, InLimits, NEW i \in Idx, NEW v \in Int
    PROVE  LET new == [val EXCEPT ![i] = Clamp(i, v)]
           IN  \A j \in Idx : VarMin[j] <= new[j] /\ new[j] <= VarMax[j]
<1>1. val \in [Idx -> Int]
  BY DEF CfgTypeOK
<1>2. VarMin[i] <= Clamp(i, v) /\ Clamp(i, v) <= VarMax[i]
  BY ClampInLimits
<1> QED BY <1>1, <1>2 DEF InLimits

LEMMA ReadInLimits ==
    ASSUME LimitInv, NEW i \in Idx, val' = AfterRead(i)
    PROVE  InLimits'
<1> DEFINE j == IndexOf(VarId[i])
<1>1. j \in Idx
  BY IndexOfType DEF Known
<1>2. cell[i] \in Int
  BY DEF LimitInv, CfgTypeOK
<1>3. CASE rdCb[i] = "cpy"
  <2>1. val' = [val EXCEPT ![j] = Clamp(j, cell[i])]
    BY <1>3 DEF AfterRead
  <2> HIDE DEF j
  <2> QED BY <1>1, <1>2, <2>1, StoreInLimits DEF LimitInv, InLimits
<1>4. CASE rdCb[i] # "cpy"
  <2>1. val' = val
    BY <1>4 DEF AfterRead, LimitInv, NoMilliRead
  <2> QED BY <2>1 DEF LimitInv, InLimits
<1> QED BY <1>3, <1>4

LEMMA HandlerInLimits ==
    ASSUME LimitInv, NEW r \in Message(Requests), config_msg_handler(r)
    PROVE  LimitInv'
<1>1. CfgTypeOK'
  BY HandlerType DEF LimitInv
<1>2. NoMilliRead'
  BY DEF LimitInv, NoMilliRead, config_msg_handler
<1>3. InLimits'
  <2>1. CASE HandleWrite(r)
    <3>1. r.ind \in Idx /\ r.val \in Int
      BY <2>1 DEF HandleWrite, Message
    <3>2. val' = [val EXCEPT ![r.ind] = Clamp(r.ind, r.val)]
      BY <2>1 DEF HandleWrite, cfgSetInd
    <3> QED BY <3>1, <3>2, StoreInLimits DEF LimitInv, InLimits
  <2>2. CASE HandleRead(r)
    BY <2>2, ReadInLimits DEF HandleRead
  <2>3. CASE val' = val
    BY <2>3 DEF LimitInv, InLimits
  <2> QED BY <2>1, <2>2, <2>3 DEF config_msg_handler, HandleNop, HandleNVars,
             HandleBadIndex, HandleLimit, HandleText, HandleUnknown
<1> QED BY <1>1, <1>2, <1>3 DEF LimitInv

LEMMA SetIdInLimits ==
    ASSUME LimitInv, NEW id, NEW v \in Int, NEW trigCb \in BOOLEAN,
           cfgSetId(id, v, trigCb)
    PROVE  LimitInv'
<1> DEFINE i == IndexOf(id)
<1>1. i \in Idx
  BY IndexOfType DEF cfgSetId
<1>2. val' = [val EXCEPT ![i] = Clamp(i, v)] /\ rdCb' = rdCb
  BY DEF cfgSetId, cfgSetInd
<1> HIDE DEF i
<1>3. InLimits'
  BY <1>1, <1>2, StoreInLimits DEF LimitInv, InLimits
<1>4. CfgTypeOK'
  BY SetIdType DEF LimitInv
<1> QED BY <1>2, <1>3, <1>4 DEF LimitInv, NoMilliRead

LEMMA LimitInit == CfgInit => LimitInv
<1> SUFFICES ASSUME CfgInit PROVE LimitInv
  OBVIOUS
<1>1. InLimits
  BY LimitsAssumption DEF CfgInit, InLimits
<1> QED BY <1>1, CfgInitType DEF CfgInit, LimitInv, NoMilliRead

LEMMA LimitStep == ASSUME "milli" \notin Kinds
                   PROVE  LimitInv /\ [CfgNext]_cfgVars => LimitInv'
<1> SUFFICES ASSUME LimitInv, [CfgNext]_cfgVars PROVE LimitInv'
  OBVIOUS
<1>1. CASE Serve
  <2>1. PICK r \in Request : config_msg_handler(r)
    BY <1>1 DEF Serve
  <2>2. r \in Message(Requests)
    BY RequestType
  <2> QED BY <2>1, <2>2, HandlerInLimits
<1>2. ASSUME NEW id \in Ids, NEW v \in Ints, NEW trigCb \in BOOLEAN,
             cfgSetId(id, v, trigCb)
      PROVE  LimitInv'
  BY <1>2, SetIdInLimits, InputAssumption
<1>3. ASSUME NEW id \in Ids, NEW kind \in Kinds, NEW read \in BOOLEAN,
             cfgSetCallback(id, kind, read)
      PROVE  LimitInv'
  <2>1. CfgTypeOK'
    BY <1>3, SetCallbackType DEF LimitInv
  <2>2. IndexOf(id) \in Idx /\ kind # "milli"
    BY <1>3, IndexOfType DEF cfgSetCallback
  <2>3. NoMilliRead'
    BY <1>3, <2>2 DEF cfgSetCallback, LimitInv, NoMilliRead, CfgTypeOK
  <2>4. InLimits'
    BY <1>3 DEF cfgSetCallback, LimitInv, InLimits
  <2> QED BY <2>1, <2>3, <2>4 DEF LimitInv
<1>4. ASSUME NEW i \in Idx, NEW v \in Ints, AppStore(i, v)
      PROVE  LimitInv'
  <2>1. CfgTypeOK'
    BY <1>4, AppStoreType, InputAssumption DEF LimitInv
  <2> QED BY <1>4, <2>1 DEF AppStore, LimitInv, NoMilliRead, InLimits
<1>5. CASE UNCHANGED cfgVars
  BY <1>5 DEF cfgVars, LimitInv, CfgTypeOK, NoMilliRead, InLimits
<1> QED BY <1>1, <1>2, <1>3, <1>4, <1>5 DEF CfgNext, Local

\* As long as the application registers no cfgFloatMilliCB, no sequence of
\* requests, callbacks and calls of the application takes a variable outside
\* its limits, whatever the table is (cfgSetInd, cfgCpyCB).
THEOREM LimitsHold == ASSUME "milli" \notin Kinds
                      PROVE  CfgSpec => []InLimits
<1>1. LimitInv => InLimits
  BY DEF LimitInv
<1> QED BY <1>1, LimitInit, LimitStep, PTL DEF CfgSpec

(***************************************************************************)
(* The table implements one limited register per variable.  The invariant  *)
(* adds that no cfgFloatMilliCB is run by a write either.                  *)
(***************************************************************************)
TableInv == LimitInv /\ \A i \in Idx : wrCb[i] # "milli"

\* cfgSetInd limits as the register does, and limiting twice changes nothing.
LEMMA ClampIsLimited ==
    ASSUME NEW i \in Idx, NEW v \in Int
    PROVE  /\ Clamp(i, v) = Table!Limited(i, v)
           /\ Clamp(i, Clamp(i, v)) = Clamp(i, v)
           /\ Clamp(i, v) \in VarMin[i] .. VarMax[i]
<1>1. /\ VarMin[i] \in Int /\ VarMax[i] \in Int /\ VarInit[i] \in Int
      /\ VarMin[i] <= VarInit[i] /\ VarInit[i] <= VarMax[i]
  BY TableAssumption, LimitsAssumption
<1>. QED BY <1>1 DEF Clamp, Table!Limited

\* Ids are unique: cfgCpyCB, which looks its variable up by id, finds its own.
LEMMA FindsItself == ASSUME NEW i \in Idx PROVE IndexOf(VarId[i]) = i
BY IndexOfType, UniqueIds DEF Known

LEMMA PublishedInLimits ==
    ASSUME LimitInv, NEW i \in Idx
    PROVE  Published(i) \in VarMin[i] .. VarMax[i]
<1>1. cell[i] \in Int /\ val[i] \in Int /\ VarMin[i] <= val[i] /\ val[i] <= VarMax[i]
  BY DEF LimitInv, CfgTypeOK, InLimits
<1>2. VarMin[i] \in Int /\ VarMax[i] \in Int
  BY TableAssumption
<1>. QED BY <1>1, <1>2, ClampIsLimited DEF Published

\* A call of the application that touches one variable.
LEMMA TouchOne ==
    ASSUME LimitInv', NEW i \in Idx,
           \A j \in Idx \ {i} : Published(j)' = Published(j),
           \A j \in Idx \ {i} : j \in ReadOnly' <=> j \in ReadOnly,
           rep' = rep, given' = given
    PROVE  Table!Next
<1> DEFINE v == Published(i)'
<1>1. v \in VarMin[i] .. VarMax[i]
  <2>1. cell'[i] \in Int /\ val'[i] \in Int /\ VarMin[i] <= val'[i] /\ val'[i] <= VarMax[i]
    BY DEF LimitInv, CfgTypeOK, InLimits
  <2>2. VarMin[i] \in Int /\ VarMax[i] \in Int
    BY TableAssumption
  <2>. QED BY <2>1, <2>2, ClampIsLimited DEF Published
<1>2. [j \in Idx |-> Published(j)]' = [[j \in Idx |-> Published(j)] EXCEPT ![i] = v]
  OBVIOUS
<1>3. ReadOnly' \in {ReadOnly, ReadOnly \cup {i}, ReadOnly \ {i}}
  <2>1. ReadOnly \subseteq Idx /\ ReadOnly' \subseteq Idx
    BY DEF ReadOnly
  <2>2. CASE i \in ReadOnly'
    <3>1. ReadOnly' = ReadOnly \cup {i}
      BY <2>1, <2>2
    <3>. QED BY <3>1
  <2>3. CASE i \notin ReadOnly'
    <3>1. ReadOnly' = ReadOnly \ {i}
      BY <2>1, <2>3
    <3>. QED BY <3>1
  <2>. QED BY <2>2, <2>3
<1>4. Exchanged' = Exchanged
  BY DEF Exchanged
<1> HIDE DEF v
<1>5. Table!Local(i, v)
  BY <1>2, <1>3, <1>4 DEF Table!Local
<1>. QED BY <1>1, <1>5 DEF Table!Next

\* A write request, also through a copying callback.
LEMMA WriteStep ==
    ASSUME TableInv, NEW r \in Message(Requests), r.val \in Ints, HandleWrite(r),
           UNCHANGED <<rdCb, wrCb>>, given' = r
    PROVE  Table!Next
<1> DEFINE i == r.ind
           w == Clamp(i, r.val)
<1>1. i \in Idx /\ r.val \in Int /\ r.val \in Ints
  BY DEF HandleWrite, Message
<1>2. w = Table!Limited(i, r.val) /\ Clamp(i, w) = w /\ w \in Int
  BY <1>1, ClampIsLimited, ClampInLimits
<1>3. val' = [val EXCEPT ![i] = w]
  BY DEF HandleWrite, cfgSetInd
<1>4. cell' = IF wrCb[i] = "cpy" THEN [cell EXCEPT ![i] = w] ELSE cell
  BY <1>1 DEF HandleWrite, cfgSetInd, AfterWrite, TableInv
<1>5. val \in [Idx -> Int] /\ cell \in [Idx -> Int]
  BY DEF TableInv, LimitInv, CfgTypeOK
<1>6. Exchanged' = Table!Exchange("WR", i, r.val)
  BY DEF HandleWrite, Reply, Exchanged, Table!Exchange
<1>7. ReadOnly' = ReadOnly
  BY DEF ReadOnly
<1> HIDE DEF i, w
<1>8. \A j \in Idx \ {i} : Published(j)' = Published(j)
  BY <1>1, <1>3, <1>4, <1>5 DEF Published, Clamp
<1>9. CASE i \in ReadOnly
  <2>1. Published(i)' = Published(i)
    BY <1>1, <1>4, <1>9 DEF Published, Clamp, ReadOnly
  <2>2. [j \in Idx |-> Published(j)]' = [j \in Idx |-> Published(j)]
    BY <1>8, <2>1
  <2>3. Table!Write(i, r.val)
    BY <1>6, <1>7, <1>9, <2>2 DEF Table!Write
  <2>. QED BY <1>1, <2>3 DEF Table!Next
<1>10. CASE i \notin ReadOnly
  <2>1. Published(i)' = w
    <3>1. CASE rdCb[i] = "cpy"
      <4>1. wrCb[i] = "cpy"
        BY <1>1, <1>10, <3>1 DEF ReadOnly
      <4>2. cell'[i] = w
        BY <1>1, <1>4, <1>5, <4>1
      <4>. QED BY <1>2, <3>1, <4>2 DEF Published, Clamp
    <3>2. CASE rdCb[i] # "cpy"
      BY <1>1, <1>3, <1>5, <3>2 DEF Published
    <3>. QED BY <3>1, <3>2
  <2>2. [j \in Idx |-> Published(j)]' = [[j \in Idx |-> Published(j)] EXCEPT ![i] = w]
    BY <1>8, <2>1
  <2>3. Table!Write(i, r.val)
    BY <1>2, <1>6, <1>7, <1>10, <2>2 DEF Table!Write
  <2>. QED BY <1>1, <2>3 DEF Table!Next
<1>. QED BY <1>9, <1>10

\* A read request answers with the register, whichever callback runs.
LEMMA ReadStep ==
    ASSUME TableInv, NEW r \in Message(Requests), HandleRead(r), UNCHANGED <<rdCb, wrCb>>
    PROVE  Table!Next
<1> DEFINE i == r.ind
<1>1. i \in Idx /\ IndexOf(VarId[i]) = i /\ cell' = cell
  BY FindsItself DEF HandleRead
<1>2. val \in [Idx -> Int] /\ cell \in [Idx -> Int] /\ rdCb[i] # "milli"
  BY <1>1 DEF TableInv, LimitInv, CfgTypeOK, NoMilliRead
<1>3. AfterRead(i) = IF rdCb[i] = "cpy" THEN [val EXCEPT ![i] = Clamp(i, cell[i])] ELSE val
  BY <1>1, <1>2 DEF AfterRead
<1>4. Answered(i) = Published(i)
  BY <1>1, <1>2, <1>3 DEF Answered, Published
<1>5. Exchanged' = Table!Exchange("RD_VAL", i, Published(i))
  BY <1>4 DEF HandleRead, Reply, Exchanged, Table!Exchange
<1>6. val' = IF rdCb[i] = "cpy" THEN [val EXCEPT ![i] = Clamp(i, cell[i])] ELSE val
  BY <1>3 DEF HandleRead
<1>7. ReadOnly' = ReadOnly
  BY DEF ReadOnly
<1> HIDE DEF i
<1>8. \A j \in Idx : Published(j)' = Published(j)
  BY <1>1, <1>2, <1>6 DEF Published, Clamp
<1>9. Table!Read(i)
  BY <1>1, <1>5, <1>7, <1>8 DEF Table!Read
<1>. QED BY <1>1, <1>9 DEF Table!Next

\* A request for a limit answers with that limit.
LEMMA AskLimitStep ==
    ASSUME NEW r \in Message(Requests), HandleLimit(r), UNCHANGED <<rdCb, wrCb>>
    PROVE  Table!Next
<1>1. r.ind \in Idx /\ UNCHANGED <<val, cell, rdCb, wrCb>>
  BY DEF HandleLimit
<1>2. \/ Exchanged' = Table!Exchange("RD_MIN", r.ind, VarMin[r.ind])
      \/ Exchanged' = Table!Exchange("RD_MAX", r.ind, VarMax[r.ind])
  BY DEF HandleLimit, Reply, Exchanged, Table!Exchange
<1>3. ReadOnly' = ReadOnly /\ \A j \in Idx : Published(j)' = Published(j)
  BY <1>1 DEF ReadOnly, Published, Clamp
<1>4. Table!ReadLimit(r.ind)
  BY <1>2, <1>3 DEF Table!ReadLimit
<1>. QED BY <1>1, <1>4 DEF Table!Next

\* The requests about something else, and those that are refused.
LEMMA QueryStep ==
    ASSUME NEW r \in Message(Requests), UNCHANGED <<val, cell, rdCb, wrCb>>,
           NEW type \in Responses \ {"RD_VAL", "RD_MIN", "RD_MAX"}, NEW v, Reply(r, type, v),
           type # "OK" \/ given' = NoWrite
    PROVE  Table!Next
<1>1. Exchanged' = Table!Nothing
  BY DEF Reply, Exchanged, NoWrite, Table!Nothing, Table!Exchange
<1>2. ReadOnly' = ReadOnly /\ \A j \in Idx : Published(j)' = Published(j)
  BY DEF ReadOnly, Published, Clamp
<1>. QED BY <1>1, <1>2 DEF Table!Next, Table!Query

LEMMA HandlerStep ==
    ASSUME TableInv, NEW r \in Request, config_msg_handler(r),
           given' = IF r.type = "WR" THEN r ELSE NoWrite
    PROVE  Table!Next
<1>1. r \in Message(Requests) /\ r.val \in Ints /\ UNCHANGED <<rdCb, wrCb>>
  BY RequestType DEF Request, config_msg_handler
<1>2. CASE HandleWrite(r)
  BY <1>1, <1>2, WriteStep DEF HandleWrite
<1>3. CASE HandleRead(r)
  BY <1>1, <1>3, ReadStep
<1>4. CASE HandleNop(r)
  BY <1>1, <1>4, QueryStep DEF HandleNop, Responses
<1>5. CASE HandleNVars(r)
  BY <1>1, <1>5, QueryStep DEF HandleNVars, Responses
<1>6. CASE HandleBadIndex(r)
  BY <1>1, <1>6, QueryStep DEF HandleBadIndex, Responses
<1>7. CASE HandleLimit(r)
  BY <1>1, <1>7, AskLimitStep
<1>8. CASE HandleText(r)
  <2>1. r.type \in Responses \ {"RD_VAL", "RD_MIN", "RD_MAX", "OK"}
    BY <1>8 DEF HandleText, Responses
  <2>. QED BY <1>1, <1>8, <2>1, QueryStep DEF HandleText
<1>9. CASE HandleUnknown(r)
  BY <1>1, <1>9, QueryStep DEF HandleUnknown, Responses
<1>. QED BY <1>2, <1>3, <1>4, <1>5, <1>6, <1>7, <1>8, <1>9 DEF config_msg_handler

LEMMA SetIdStep ==
    ASSUME TableInv, LimitInv', NEW id, NEW v \in Int, NEW trigCb \in BOOLEAN,
           cfgSetId(id, v, trigCb), given' = given
    PROVE  Table!Next
<1> DEFINE i == IndexOf(id)
<1>1. i \in Idx
  BY IndexOfType DEF cfgSetId
<1>2. val' = [val EXCEPT ![i] = Clamp(i, v)] /\ UNCHANGED <<rdCb, wrCb, rep>>
  BY DEF cfgSetId, cfgSetInd
<1>3. cell' = cell \/ cell' = [cell EXCEPT ![i] = Clamp(i, v)]
  BY <1>1 DEF cfgSetId, cfgSetInd, AfterWrite, TableInv
<1>4. val \in [Idx -> Int] /\ cell \in [Idx -> Int]
  BY DEF TableInv, LimitInv, CfgTypeOK
<1> HIDE DEF i
<1>5. \A j \in Idx \ {i} : Published(j)' = Published(j)
  BY <1>1, <1>2, <1>3, <1>4 DEF Published, Clamp
<1>6. ReadOnly' = ReadOnly
  BY <1>2 DEF ReadOnly
<1>. QED BY <1>1, <1>2, <1>5, <1>6, TouchOne

LEMMA SetCallbackStep ==
    ASSUME TableInv, LimitInv', NEW id, NEW kind, NEW read \in BOOLEAN,
           cfgSetCallback(id, kind, read), given' = given
    PROVE  Table!Next
<1> DEFINE i == IndexOf(id)
<1>1. i \in Idx /\ UNCHANGED <<val, cell, rep>>
  BY IndexOfType DEF cfgSetCallback
<1>2. \A j \in Idx \ {i} : rdCb'[j] = rdCb[j] /\ wrCb'[j] = wrCb[j]
  BY DEF cfgSetCallback, TableInv, LimitInv, CfgTypeOK
<1> HIDE DEF i
<1>3. \A j \in Idx \ {i} : Published(j)' = Published(j)
  BY <1>1, <1>2 DEF Published, Clamp
<1>4. \A j \in Idx \ {i} : j \in ReadOnly' <=> j \in ReadOnly
  BY <1>2 DEF ReadOnly
<1>. QED BY <1>1, <1>3, <1>4, TouchOne

LEMMA AppStoreStep ==
    ASSUME TableInv, LimitInv', NEW i \in Idx, NEW v \in Int, AppStore(i, v), given' = given
    PROVE  Table!Next
<1>1. \A j \in Idx \ {i} : cell'[j] = cell[j]
  BY DEF AppStore, TableInv, LimitInv, CfgTypeOK
<1>2. \A j \in Idx \ {i} : Published(j)' = Published(j)
  BY <1>1 DEF AppStore, Published, Clamp
<1>3. ReadOnly' = ReadOnly /\ rep' = rep
  BY DEF AppStore, ReadOnly
<1>. QED BY <1>2, <1>3, TouchOne

LEMMA TableInit == GivenInit => Table!Init
<1> SUFFICES ASSUME CfgInit, given = NoWrite PROVE Table!Init
  BY DEF GivenInit
<1>1. \A i \in Idx : Published(i) = VarInit[i]
  BY DEF CfgInit, Published
<1>2. \A i \in Idx : VarInit[i] \in Int /\ Table!Limited(i, VarInit[i]) = VarInit[i]
  <2> TAKE i \in Idx
  <2>1. /\ VarMin[i] \in Int /\ VarMax[i] \in Int /\ VarInit[i] \in Int
        /\ VarMin[i] <= VarInit[i] /\ VarInit[i] <= VarMax[i]
    BY TableAssumption, LimitsAssumption
  <2>. QED BY <2>1 DEF Table!Limited
<1>3. ReadOnly = {}
  BY DEF CfgInit, ReadOnly
<1>4. Exchanged = Table!Nothing
  BY DEF CfgInit, Exchanged, NoWrite, Table!Nothing, Table!Exchange
<1>. QED BY <1>1, <1>2, <1>3, <1>4 DEF Table!Init

LEMMA TableStep ==
    ASSUME "milli" \notin Kinds
    PROVE  TableInv /\ [GivenNext]_<<cfgVars, given>>
               => TableInv' /\ [Table!Next]_(Table!tableVars)
<1> SUFFICES ASSUME TableInv, [GivenNext]_<<cfgVars, given>>
             PROVE  TableInv' /\ (Table!Next \/ UNCHANGED Table!tableVars)
  OBVIOUS
<1>0. [CfgNext]_cfgVars
  BY DEF GivenNext, GivenServe, CfgNext, Serve
<1>1. LimitInv'
  BY <1>0, LimitStep DEF TableInv
<1>2. ASSUME NEW r \in Request, config_msg_handler(r),
             given' = IF r.type = "WR" THEN r ELSE NoWrite
      PROVE  TableInv' /\ Table!Next
  BY <1>1, <1>2, HandlerStep DEF config_msg_handler, TableInv
<1>3. ASSUME NEW id \in Ids, NEW v \in Ints, NEW trigCb \in BOOLEAN, cfgSetId(id, v, trigCb),
             given' = given
      PROVE  TableInv' /\ Table!Next
  BY <1>1, <1>3, SetIdStep, InputAssumption DEF cfgSetId, TableInv
<1>4. ASSUME NEW id \in Ids, NEW kind \in Kinds, NEW read \in BOOLEAN,
             cfgSetCallback(id, kind, read), given' = given
      PROVE  TableInv' /\ Table!Next
  <2>1. IndexOf(id) \in Idx /\ kind # "milli"
    BY <1>4, IndexOfType DEF cfgSetCallback
  <2>2. TableInv'
    BY <1>1, <1>4, <2>1 DEF cfgSetCallback, TableInv, LimitInv, CfgTypeOK
  <2>. QED BY <1>1, <1>4, <2>2, SetCallbackStep
<1>5. ASSUME NEW i \in Idx, NEW v \in Ints, AppStore(i, v), given' = given
      PROVE  TableInv' /\ Table!Next
  BY <1>1, <1>5, AppStoreStep, InputAssumption DEF AppStore, TableInv
<1>6. CASE UNCHANGED <<cfgVars, given>>
  <2>1. \A j \in Idx : Published(j)' = Published(j)
    BY <1>6 DEF cfgVars, Published, Clamp
  <2>. QED BY <1>1, <1>6, <2>1 DEF cfgVars, TableInv, ReadOnly, Exchanged, Table!tableVars
<1>. QED BY <1>2, <1>3, <1>4, <1>5, <1>6 DEF GivenNext, GivenServe, Local

\* config_msg_handler, its callbacks and the calls of the application implement one
\* limited register per variable, for every table with unique ids and consistent
\* limits, unless the application registers cfgFloatMilliCB: a read answers with the
\* register, a write leaves what it was given, limited, also in an application's
\* location, and a limit is told as it stands in the table.
THEOREM TableImplemented == ASSUME "milli" \notin Kinds
                            PROVE  GivenSpec => ImplementsTable
<1>1. GivenInit => TableInv
  BY LimitInit DEF GivenInit, CfgInit, TableInv
<1>. QED BY <1>1, TableInit, TableStep, PTL DEF GivenSpec, ImplementsTable, Table!Spec
=============================================================================
