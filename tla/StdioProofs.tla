----------------------------- MODULE StdioProofs -----------------------------
(***************************************************************************)
(* Proofs about the text between the firmware and Linux: types, the limits *)
(* of every buffer and the room for the terminating zeros; what is printed *)
(* reaches the reader, and what is written the firmware, in order.         *)
(***************************************************************************)
EXTENDS Stdio, SequenceTheorems, WellFoundedInduction, TLAPS

(***************************************************************************)
(* The inductive invariant.                                                *)
(***************************************************************************)
Texts == /\ line \in Seq(Byte) /\ todo \in Seq(Byte) /\ trace \in Seq(Byte)
         /\ toLinux \in Seq(Seq(Byte)) /\ toBm \in Seq(Seq(Byte))
         /\ fifo \in Seq(Byte) /\ txBuf \in Seq(Byte)

Types == TypeOK /\ Texts

Terminators == /\ \A i \in 1 .. Len(toLinux) : Len(toLinux[i]) < DataLenMax
               /\ \A i \in 1 .. Len(toBm) : Len(toBm[i]) < DataLenMax
               /\ Len(trace) < TraceSize

(***************************************************************************)
(* Sequences of bytes.                                                     *)
(***************************************************************************)
LEMMA LeastIs == ASSUME NEW a \in Nat, NEW b \in Nat
                 PROVE  Least(a, b) \in Nat /\ Least(a, b) <= a /\ Least(a, b) <= b
BY DEF Least

LEMMA FrontIs == ASSUME NEW S, NEW s \in Seq(S), NEW n \in 0 .. Len(s)
                 PROVE  Front(s, n) \in Seq(S) /\ Len(Front(s, n)) = n
BY DEF Front

LEMMA RestIs == ASSUME NEW S, NEW s \in Seq(S), NEW n \in Nat
                PROVE  /\ Rest(s, n) \in Seq(S) /\ Len(Rest(s, n)) <= Len(s)
                       /\ n <= Len(s) => Len(Rest(s, n)) = Len(s) - n
BY DEF Rest

LEMMA SeqMade == ASSUME NEW S, NEW k \in Nat, NEW s \in [1 .. k -> S] PROVE s \in Seq(S) /\ Len(s) = k
OBVIOUS

LEMMA Joined == ASSUME NEW S, NEW s \in Seq(S), NEW t \in Seq(S)
                PROVE  s \o t \in Seq(S) /\ Len(s \o t) = Len(s) + Len(t)
OBVIOUS

LEMMA BytesAre == ASSUME NEW from \in {"bm"} \cup Writers, NEW a \in Nat, NEW k \in Nat
                  PROVE  Bytes(from, a, a + k - 1) \in Seq(Byte) /\ Len(Bytes(from, a, a + k - 1)) = k
<1>1. (a + k - 1) - a + 1 = k
  OBVIOUS
<1>2. \A i \in 1 .. k : [from |-> from, n |-> a + i - 1] \in Byte
  BY DEF Byte
<1>3. Bytes(from, a, a + k - 1) = [i \in 1 .. k |-> [from |-> from, n |-> a + i - 1]]
  BY <1>1 DEF Bytes
<1>4. Bytes(from, a, a + k - 1) \in [1 .. k -> Byte]
  BY <1>2, <1>3
<1>. QED BY <1>4, SeqMade

\* copy_from_user into the front of a buffer leaves the buffer's length.
LEMMA CopiedIs ==
    ASSUME NEW w \in Writers, NEW a \in Nat, NEW k \in Nat, NEW buf \in Seq(Byte), k <= Len(buf)
    PROVE  /\ Bytes(w, a, a + k - 1) \o Rest(buf, k) \in Seq(Byte)
           /\ Len(Bytes(w, a, a + k - 1) \o Rest(buf, k)) = Len(buf)
<1>1. w \in {"bm"} \cup Writers
  OBVIOUS
<1>2. Bytes(w, a, a + k - 1) \in Seq(Byte) /\ Len(Bytes(w, a, a + k - 1)) = k
  BY <1>1, BytesAre
<1>3. Rest(buf, k) \in Seq(Byte) /\ Len(Rest(buf, k)) = Len(buf) - k
  BY RestIs
<1>4. /\ Bytes(w, a, a + k - 1) \o Rest(buf, k) \in Seq(Byte)
      /\ Len(Bytes(w, a, a + k - 1) \o Rest(buf, k)) = k + (Len(buf) - k)
  BY <1>2, <1>3, Joined
<1>5. Len(buf) \in Nat
  OBVIOUS
<1>. QED BY <1>4, <1>5

LEMMA BytesOfSeq == ASSUME NEW s \in Seq(Byte) PROVE BytesOf(s) \subseteq Byte
BY DEF BytesOf

\* Messages in a queue that grows and shrinks.
LEMMA QueueAppend ==
    ASSUME NEW S, NEW q \in Seq(Seq(S)), NEW m \in Seq(S), NEW max \in Nat,
           \A i \in 1 .. Len(q) : Len(q[i]) < max, Len(m) < max
    PROVE  \A i \in 1 .. Len(Append(q, m)) : Len(Append(q, m)[i]) < max
OBVIOUS

LEMMA QueueTail ==
    ASSUME NEW S, NEW q \in Seq(Seq(S)), q # <<>>, NEW max \in Nat, \A i \in 1 .. Len(q) : Len(q[i]) < max
    PROVE  \A i \in 1 .. Len(Tail(q)) : Len(Tail(q)[i]) < max
<1>1. \A i \in 1 .. Len(Tail(q)) : Tail(q)[i] = q[i + 1] /\ i + 1 \in 1 .. Len(q)
  OBVIOUS
<1>. QED BY <1>1

LEMMA HelloIs == Hello \in Seq(Byte) /\ Len(Hello) = 1 /\ Hello[1] \in Byte
BY DEF Hello, Byte

(***************************************************************************)
(* Types and limits.                                                       *)
(***************************************************************************)
LEMMA FirmwareType == ASSUME Types, Firmware PROVE Types'
<1> USE StdioAssumption DEF Types, TypeOK, Texts
<1>1. CASE Printf
  <2>1. PICK n \in Prints : /\ printed + n <= MaxPrinted /\ printed' = printed + n
                            /\ line' = Bytes("bm", printed + 1, printed + n)
    BY <1>1 DEF Printf
  <2>2. n \in Nat /\ printed \in Nat /\ printed' \in 0 .. MaxPrinted
    BY <2>1
  <2>3. line' \in Seq(Byte)
    <3>1. (printed + 1) + n - 1 = printed + n /\ printed + 1 \in Nat
      BY <2>2
    <3>2. Bytes("bm", printed + 1, (printed + 1) + n - 1) \in Seq(Byte)
      BY <2>2, <3>1, BytesAre
    <3>. QED BY <2>1, <3>1, <3>2
  <2>4. todo' \in Seq(Byte) /\ Len(todo') <= Len(line')
    BY <1>1, <2>3 DEF Printf
  <2>5. UNCHANGED <<stdioInit, trace, toLinux, toBm, probe, fifo, txBuf, wr, typed, rd>>
    BY <1>1 DEF Printf, modVars
  <2>. QED BY <2>2, <2>3, <2>4, <2>5, BytesOfSeq
<1>2. CASE SendChunk
  <2> DEFINE n == Least(Len(todo), Chunk)
  <2>1. Chunk \in Nat /\ Len(todo) \in Nat
    BY DEF Chunk
  <2>2. n \in Nat /\ n <= Len(todo)
    BY <2>1, LeastIs
  <2>3. Front(todo, n) \in Seq(Byte) /\ Rest(todo, n) \in Seq(Byte) /\ Len(Rest(todo, n)) <= Len(todo)
    BY <2>2, FrontIs, RestIs
  <2>4. /\ toLinux' = Append(toLinux, Front(todo, n)) /\ todo' = Rest(todo, n) /\ Len(toLinux) < Slots
        /\ UNCHANGED <<printed, line, stdioInit, trace, toBm, probe, fifo, txBuf, wr, typed, rd>>
    BY <1>2 DEF SendChunk, modVars
  <2>5. toLinux' \in Seq(Seq(Byte)) /\ Len(toLinux') <= Slots
    BY <2>3, <2>4
  <2>6. Len(todo') <= Len(line')
    BY <2>3, <2>4
  <2>. QED BY <2>3, <2>4, <2>5, <2>6 DEF BytesOf
<1>3. CASE ToTrace
  <2>1. /\ trace' \in Seq(Byte) /\ line' = <<>> /\ todo = <<>>
        /\ UNCHANGED <<printed, todo, stdioInit, toLinux, toBm, probe, fifo, txBuf, wr, typed, rd>>
    BY <1>3 DEF ToTrace, modVars
  <2>. QED BY <2>1 DEF BytesOf
<1>4. CASE Handle
  <2>1. Head(toBm) \in Seq(Byte) /\ Tail(toBm) \in Seq(Seq(Byte)) /\ Len(Tail(toBm)) <= Slots
    BY <1>4 DEF Handle
  <2>2. /\ line' = Input(Head(toBm)) /\ toBm' = Tail(toBm) /\ stdioInit' = TRUE /\ line = <<>>
        /\ UNCHANGED <<printed, todo, trace, toLinux, probe, fifo, txBuf, wr, typed, rd>>
    BY <1>4 DEF Handle, modVars
  <2>3. line' \in Seq(Byte)
    BY <2>1, <2>2 DEF Input
  <2>4. Len(todo') <= Len(line')
    BY <2>2, <2>3
  <2>. QED BY <2>1, <2>2, <2>3, <2>4, BytesOfSeq
<1>. QED BY <1>1, <1>2, <1>3, <1>4 DEF Firmware

LEMMA DeviceType == ASSUME Types, Probe \/ Callback PROVE Types'
<1> USE StdioAssumption DEF Types, TypeOK, Texts
<1>1. CASE Register
  BY <1>1 DEF Register, fwVars
<1>2. CASE SayHello
  <2>1. toBm' \in Seq(Seq(Byte)) /\ Len(toBm') <= Slots
    BY <1>2, HelloIs DEF SayHello
  <2>. QED BY <1>2, <2>1 DEF SayHello, fwVars
<1>3. CASE Callback
  <2> DEFINE m == Head(toLinux)
             n == Accepted(m)
  <2>1. m \in Seq(Byte) /\ Tail(toLinux) \in Seq(Seq(Byte)) /\ Len(Tail(toLinux)) <= Slots
    BY <1>3 DEF Callback
  <2>2. Len(m) \in Nat /\ FifoSize - Len(fifo) \in Nat
    BY <2>1
  <2>3. n \in Nat /\ n <= Len(m) /\ n <= FifoSize - Len(fifo)
    BY <2>2, LeastIs DEF Accepted
  <2>4. Front(m, n) \in Seq(Byte) /\ Len(Front(m, n)) = n
    <3>1. n \in 0 .. Len(m)
      BY <2>2, <2>3
    <3>. QED BY <2>1, <3>1, FrontIs
  <2>5. fifo' = fifo \o Front(m, n) /\ toLinux' = Tail(toLinux)
    BY <1>3 DEF Callback
  <2>6. fifo' \in Seq(Byte) /\ Len(fifo') <= FifoSize
    BY <2>3, <2>4, <2>5
  <2>7. UNCHANGED <<printed, line, todo, stdioInit, trace, toBm, probe, txBuf, wr, typed, rd>>
    BY <1>3 DEF Callback, fwVars
  <2>. QED BY <2>1, <2>5, <2>6, <2>7
<1>. QED BY <1>1, <1>2, <1>3 DEF Probe

LEMMA ReadType == ASSUME Types, NEW p \in Readers, Read(p) PROVE Types'
<1> USE StdioAssumption DEF Types, TypeOK, Texts
<1>1. CASE ReadCopy(p)
  <2>1. PICK n \in 1 .. Len(fifo) : rd' = [rd EXCEPT ![p] = n]
    BY <1>1 DEF ReadCopy
  <2>2. n \in 0 .. FifoSize
    BY <2>1
  <2>3. rd' \in [Readers -> 0 .. FifoSize]
    BY <2>1, <2>2
  <2>. QED BY <1>1, <2>3 DEF ReadCopy, fwVars
<1>2. CASE ReadTake(p)
  <2>1. rd[p] \in Nat
    OBVIOUS
  <2>2. Rest(fifo, rd[p]) \in Seq(Byte) /\ Len(Rest(fifo, rd[p])) <= Len(fifo)
    BY <2>1, RestIs
  <2>3. fifo' = Rest(fifo, rd[p]) /\ rd' = [rd EXCEPT ![p] = 0]
    BY <1>2 DEF ReadTake, Taken
  <2>4. Len(fifo') <= FifoSize /\ rd' \in [Readers -> 0 .. FifoSize]
    BY <2>2, <2>3
  <2>. QED BY <1>2, <2>2, <2>3, <2>4 DEF ReadTake, fwVars
<1>. QED BY <1>1, <1>2 DEF Read

\* A write of a chunk of the static buffer, which is never longer than the buffer.
LEMMA ChunkIs == ASSUME Types, NEW w \in Writers PROVE N(w) \in 0 .. TxBufSize /\ N(w) <= Len(txBuf)
<1>1. wr[w].len \in Nat /\ TxBufSize \in Nat /\ Len(txBuf) = TxBufSize
  BY StdioAssumption DEF Types, TypeOK
<1>. QED BY <1>1 DEF N, Least

LEMMA CopyIs ==
    ASSUME Types, NEW w \in Writers, WriteCopy(w) PROVE txBuf' \in Seq(Byte) /\ Len(txBuf') = Len(txBuf)
<1>1. wr[w].first \in Nat /\ N(w) \in Nat /\ N(w) <= Len(txBuf)
  BY ChunkIs DEF Types, TypeOK
<1>2. PICK a \in Nat, k \in Nat : a = wr[w].first /\ k = N(w)
  BY <1>1
<1>3. PICK buf \in Seq(Byte) : buf = txBuf
  BY DEF Types, Texts
<1>4. k <= Len(buf)
  BY <1>1, <1>2, <1>3
<1>5. /\ Bytes(w, a, a + k - 1) \o Rest(buf, k) \in Seq(Byte)
      /\ Len(Bytes(w, a, a + k - 1) \o Rest(buf, k)) = Len(buf)
  BY <1>4, CopiedIs
<1>6. txBuf' = Bytes(w, a, a + k - 1) \o Rest(buf, k)
  BY <1>2, <1>3 DEF WriteCopy
<1>. QED BY <1>3, <1>5, <1>6

LEMMA FaultIs ==
    ASSUME Types, NEW w \in Writers, WriteFaults(w) PROVE txBuf' \in Seq(Byte) /\ Len(txBuf') = Len(txBuf)
<1>1. PICK n \in 0 .. N(w) - 1 :
           txBuf' = Bytes(w, wr[w].first, wr[w].first + n - 1) \o Rest(txBuf, n)
  BY DEF WriteFaults
<1>2. wr[w].first \in Nat /\ n \in Nat /\ n <= Len(txBuf)
  <2>1. N(w) \in 0 .. TxBufSize /\ N(w) <= Len(txBuf) /\ TxBufSize \in Nat /\ Len(txBuf) = TxBufSize
    BY ChunkIs, StdioAssumption DEF Types, TypeOK
  <2>2. n \in Nat /\ n <= Len(txBuf)
    BY <2>1
  <2>3. wr[w].first \in Nat
    BY DEF Types, TypeOK
  <2>. QED BY <2>2, <2>3
<1>3. PICK a \in Nat, k \in Nat, buf \in Seq(Byte) : a = wr[w].first /\ k = n /\ buf = txBuf
  BY <1>2 DEF Types, Texts
<1>4. /\ Bytes(w, a, a + k - 1) \o Rest(buf, k) \in Seq(Byte)
      /\ Len(Bytes(w, a, a + k - 1) \o Rest(buf, k)) = Len(buf)
  BY <1>2, <1>3, CopiedIs
<1>. QED BY <1>1, <1>3, <1>4

LEMMA WriteType ==
    ASSUME Types, NEW w \in Writers, WriteStart(w) \/ Writing(w) \/ WriteFails(w) PROVE Types'
<1> DEFINE Write == [pc : {"idle", "copy", "send"}, first : Nat, len : Nat]
<1>0. NotWriting \in Write
  BY DEF NotWriting
<1> USE StdioAssumption DEF Types, TypeOK, Texts
<1>1. CASE WriteStart(w)
  <2>1. PICK len \in Writes :
             /\ typed[w] + len <= MaxWritten
             /\ wr' = [wr EXCEPT ![w] = [pc |-> "copy", first |-> typed[w] + 1, len |-> len]]
             /\ typed' = [typed EXCEPT ![w] = @ + len]
    BY <1>1 DEF WriteStart
  <2>2. typed[w] \in Nat /\ len \in Nat /\ typed[w] + len \in 0 .. MaxWritten
    BY <2>1
  <2>3. [pc |-> "copy", first |-> typed[w] + 1, len |-> len] \in Write
    BY <2>2
  <2>4. wr' \in [Writers -> Write] /\ typed' \in [Writers -> 0 .. MaxWritten]
    BY <2>1, <2>2, <2>3
  <2>. QED BY <1>1, <2>4 DEF WriteStart, fwVars
<1>2. CASE WriteCopy(w)
  <2>5. txBuf' \in Seq(Byte) /\ Len(txBuf') = Len(txBuf)
    BY <1>2, CopyIs
  <2>6. wr' \in [Writers -> Write]
    BY <1>2 DEF WriteCopy
  <2>. QED BY <1>2, <2>5, <2>6 DEF WriteCopy, fwVars
<1>3. CASE WriteSend(w)
  <2>1. Front(txBuf, N(w)) \in Seq(Byte)
    BY ChunkIs, FrontIs
  <2>2. toBm' \in Seq(Seq(Byte)) /\ Len(toBm') <= Slots
    BY <1>3, <2>1 DEF WriteSend
  <2>3. wr' \in [Writers -> Write]
    BY <1>0, <1>3 DEF WriteSend
  <2>. QED BY <1>3, <2>2, <2>3 DEF WriteSend, fwVars
<1>4. CASE WriteUnsent(w)
  <2>1. wr' \in [Writers -> Write]
    BY <1>0, <1>4 DEF WriteUnsent
  <2>. QED BY <1>4, <2>1 DEF WriteUnsent, fwVars
<1>5. CASE WriteFaults(w)
  <2>1. txBuf' \in Seq(Byte) /\ Len(txBuf') = Len(txBuf)
    BY <1>5, FaultIs
  <2>2. wr' \in [Writers -> Write]
    BY <1>0, <1>5 DEF WriteFaults
  <2>. QED BY <1>5, <2>1, <2>2 DEF WriteFaults, fwVars
<1>. QED BY <1>1, <1>2, <1>3, <1>4, <1>5 DEF Writing, WriteFails

LEMMA InitType == Init => Types
<1> SUFFICES ASSUME Init PROVE Types
  OBVIOUS
<1> USE StdioAssumption
<1>1. txBuf \in Seq(Byte) /\ Len(txBuf) = TxBufSize
  BY HelloIs DEF Init
<1>2. wr \in [Writers -> [pc : {"idle", "copy", "send"}, first : Nat, len : Nat]]
  BY DEF Init, NotWriting
<1>3. typed \in [Writers -> 0 .. MaxWritten] /\ rd \in [Readers -> 0 .. FifoSize]
  BY DEF Init
<1>0. printed \in 0 .. MaxPrinted
  BY DEF Init
<1>4. /\ stdioInit \in BOOLEAN /\ probe \in {"none", "registered", "done"}
      /\ line = <<>> /\ todo = <<>> /\ trace = <<>> /\ toLinux = <<>> /\ toBm = <<>> /\ fifo = <<>>
  BY DEF Init
<1>5. Texts /\ BytesOf(line) \subseteq Byte /\ Len(todo) <= Len(line)
  BY <1>1, <1>4 DEF Texts, BytesOf
<1>6. Len(toLinux) <= Slots /\ Len(toBm) <= Slots /\ Len(fifo) <= FifoSize
  BY <1>4
<1>. QED BY <1>0, <1>1, <1>2, <1>3, <1>4, <1>5, <1>6 DEF Types, TypeOK

LEMMA StepType == Types /\ [Next]_vars => Types'
<1> SUFFICES ASSUME Types, [Next]_vars PROVE Types'
  OBVIOUS
<1>1. CASE UNCHANGED vars
  BY <1>1 DEF vars, fwVars, modVars, Types, TypeOK, Texts, BytesOf
<1>. QED BY <1>1, FirmwareType, DeviceType, ReadType, WriteType DEF Next, Users

\* Every buffer of the text channel keeps its type and its limit: the messages of the
\* bus, bm2lin_fifo, the static tx_buf of dev_write and what its calls remember.
THEOREM TypeCorrect == Spec => []TypeOK
<1>1. Types => TypeOK
  BY DEF Types
<1>. QED BY <1>1, InitType, StepType, PTL DEF Spec

(***************************************************************************)
(* Room for the terminating zeros.                                         *)
(***************************************************************************)
LEMMA TerminatorStep ==
    ASSUME TxBufSize < DataLenMax, Types, Terminators, [Next]_vars PROVE Terminators'
<1> USE StdioAssumption DEF Types, TypeOK, Texts
<1>1. CASE SendChunk
  <2> DEFINE n == Least(Len(todo), Chunk)
  <2>1. Chunk \in Nat /\ Len(todo) \in Nat
    BY DEF Chunk
  <2>2. n \in Nat /\ n <= Len(todo) /\ n < DataLenMax
    <3>1. n \in Nat /\ n <= Len(todo) /\ n <= Chunk
      BY <2>1, LeastIs
    <3>. QED BY <3>1 DEF Chunk
  <2>3. Front(todo, n) \in Seq(Byte) /\ Len(Front(todo, n)) < DataLenMax
    BY <2>2, FrontIs
  <2>4. toLinux' = Append(toLinux, Front(todo, n)) /\ UNCHANGED <<toBm, trace>>
    BY <1>1 DEF SendChunk
  <2>5. \A i \in 1 .. Len(toLinux') : Len(toLinux'[i]) < DataLenMax
    BY <2>3, <2>4, QueueAppend DEF Terminators
  <2>. QED BY <2>4, <2>5 DEF Terminators
<1>2. CASE ToTrace
  <2>1. UNCHANGED <<toLinux, toBm>>
    BY <1>2 DEF ToTrace
  <2>2. Len(trace') < TraceSize
    <3>1. Len(trace \o line) = Len(trace) + Len(line)
      OBVIOUS
    <3>. QED BY <1>2, <3>1 DEF ToTrace, Terminators
  <2>. QED BY <2>1, <2>2 DEF Terminators
<1>3. CASE Handle
  <2>1. toBm # <<>> /\ toBm' = Tail(toBm) /\ UNCHANGED <<toLinux, trace>>
    BY <1>3 DEF Handle
  <2>. QED BY <2>1, QueueTail DEF Terminators
<1>4. CASE SayHello
  <2>1. toBm' = Append(toBm, Hello) /\ UNCHANGED <<toLinux, trace>>
    BY <1>4 DEF SayHello, fwVars
  <2>. QED BY <2>1, HelloIs, QueueAppend DEF Terminators
<1>5. CASE Callback
  <2>1. toLinux # <<>> /\ toLinux' = Tail(toLinux) /\ UNCHANGED <<toBm, trace>>
    BY <1>5 DEF Callback, fwVars
  <2>. QED BY <2>1, QueueTail DEF Terminators
<1>6. ASSUME NEW w \in Writers, WriteSend(w) PROVE Terminators'
  <2>1. N(w) \in 0 .. Len(txBuf) /\ N(w) < DataLenMax
    BY ChunkIs
  <2>2. Front(txBuf, N(w)) \in Seq(Byte) /\ Len(Front(txBuf, N(w))) < DataLenMax
    BY <2>1, FrontIs
  <2>3. toBm' = Append(toBm, Front(txBuf, N(w))) /\ UNCHANGED <<toLinux, trace>>
    BY <1>6 DEF WriteSend, fwVars
  <2>. QED BY <2>2, <2>3, QueueAppend DEF Terminators
<1>7. ASSUME UNCHANGED <<toLinux, toBm, trace>> PROVE Terminators'
  BY <1>7 DEF Terminators
<1>8. CASE Printf \/ Register \/ UNCHANGED vars
  BY <1>7, <1>8 DEF Printf, Register, vars, fwVars
<1>9. CASE Users
  <2>1. ASSUME NEW p \in Readers, Read(p) PROVE Terminators'
    BY <1>7, <2>1 DEF Read, ReadCopy, ReadTake, fwVars
  <2>2. ASSUME NEW w \in Writers, WriteStart(w) \/ WriteCopy(w) \/ WriteFails(w) PROVE Terminators'
    BY <1>7, <2>2 DEF WriteStart, WriteCopy, WriteFails, WriteFaults, WriteUnsent, fwVars
  <2>. QED BY <1>6, <1>9, <2>1, <2>2 DEF Users, Writing
<1>. QED BY <1>1, <1>2, <1>3, <1>4, <1>5, <1>8, <1>9 DEF Next, Firmware, Probe

\* bm_stdio_rpmsg_cb, stdio_msg_handler and _write find room for the zero that each
\* puts behind a text, whatever is printed and written and by how many processes:
\* the chunks of _write leave one byte of a message free, and those of dev_write
\* are shorter than a message because tx_buf is (TX_BUF_SIZE 256, DATA_LEN_MAX 496).
THEOREM RoomForTerminatorHolds == ASSUME TxBufSize < DataLenMax PROVE Spec => []RoomForTerminator
<1>1. Init => Terminators
  BY StdioAssumption DEF Init, Terminators
<1>2. Types /\ Terminators /\ [Next]_vars => Terminators'
  BY TerminatorStep
<1>3. Types /\ Terminators => RoomForTerminator
  BY DEF Types, Texts, Terminators, RoomForTerminator
<1>. QED BY <1>1, <1>2, <1>3, InitType, StepType, PTL DEF Spec

(***************************************************************************)
(* Induction over numbers and over sequences, for the members of a set.    *)
(***************************************************************************)
LEMMA AllNats == ASSUME NEW T, T \subseteq Nat, 0 \in T, \A n \in T : n + 1 \in T PROVE T = Nat
<1> SUFFICES ASSUME Nat \ T # {} PROVE FALSE
  OBVIOUS
<1>1. Nat \ T \subseteq Nat
  OBVIOUS
<1>2. PICK x \in Nat \ T : \A y \in Nat \ T : ~ (<<y, x>> \in OpToRel(<, Nat))
  BY <1>1, WFMin, NatLessThanWellFounded
<1>3. x # 0 /\ x - 1 \in Nat /\ x - 1 < x
  OBVIOUS
<1>4. <<x - 1, x>> \in OpToRel(<, Nat)
  BY <1>3 DEF OpToRel
<1>5. x - 1 \in T
  BY <1>2, <1>3, <1>4
<1>6. (x - 1) + 1 \in T
  BY <1>5
<1>. QED BY <1>6

LEMMA AllSeqs ==
    ASSUME NEW S, NEW T, T \subseteq Seq(S), <<>> \in T, \A s \in T : \A e \in S : Append(s, e) \in T
    PROVE  T = Seq(S)
<1> DEFINE L == {n \in Nat : \A s \in Seq(S) : Len(s) = n => s \in T}
<1>1. 0 \in L
  <2>1. \A s \in Seq(S) : Len(s) = 0 => s = <<>>
    OBVIOUS
  <2>. QED BY <2>1
<1>2. ASSUME NEW n \in L PROVE n + 1 \in L
  <2> SUFFICES ASSUME NEW s \in Seq(S), Len(s) = n + 1 PROVE s \in T
    OBVIOUS
  <2>1. s # <<>>
    OBVIOUS
  <2>2. PICK t \in Seq(S), e \in S : s = Append(t, e)
    BY <2>1, SequenceEmptyOrAppend
  <2>3. Len(t) = n
    BY <2>2
  <2>4. t \in T
    BY <2>3
  <2>. QED BY <2>2, <2>4
<1> HIDE DEF L
<1>3. L = Nat
  <2>1. L \subseteq Nat
    BY DEF L
  <2>. QED BY <1>1, <1>2, <2>1, AllNats
<1>4. ASSUME NEW s \in Seq(S) PROVE s \in T
  <2>1. Len(s) \in L
    BY <1>3
  <2>. QED BY <2>1 DEF L
<1>. QED BY <1>4

LEMMA Assoc == ASSUME NEW S, NEW a, NEW b, NEW c, a \in Seq(S), b \in Seq(S), c \in Seq(S)
               PROVE  (a \o b) \o c = a \o (b \o c)
BY ConcatAssociative

(***************************************************************************)
(* A queue of messages, put together.                                      *)
(***************************************************************************)
Joins(f, q) == f = [i \in 1 .. Len(q) |-> IF i = 1 THEN q[i] ELSE f[i - 1] \o q[i]]

LEMMA JoinsAgree ==
    ASSUME NEW q, NEW r, Len(q) \in Nat, Len(r) \in Nat, NEW f, NEW g, Joins(f, q), Joins(g, r),
           Len(r) <= Len(q), \A i \in 1 .. Len(r) : q[i] = r[i]
    PROVE  \A i \in 1 .. Len(r) : f[i] = g[i]
<1> DEFINE T == {n \in Nat : n \in 1 .. Len(r) => f[n] = g[n]}
<1>1. \A i \in 1 .. Len(q) : f[i] = IF i = 1 THEN q[i] ELSE f[i - 1] \o q[i]
  BY DEF Joins
<1>2. \A i \in 1 .. Len(r) : g[i] = IF i = 1 THEN r[i] ELSE g[i - 1] \o r[i]
  BY DEF Joins
<1>3. ASSUME NEW n \in T PROVE n + 1 \in T
  <2> SUFFICES ASSUME n + 1 \in 1 .. Len(r) PROVE f[n + 1] = g[n + 1]
    OBVIOUS
  <2>1. n + 1 \in 1 .. Len(q) /\ n + 1 \in 1 .. Len(r) /\ q[n + 1] = r[n + 1] /\ (n + 1) - 1 = n
    OBVIOUS
  <2>2. CASE n = 0
    BY <1>1, <1>2, <2>1, <2>2
  <2>3. CASE n # 0
    <3>1. n \in 1 .. Len(r)
      BY <2>1, <2>3
    <3>2. f[n] = g[n]
      BY <3>1
    <3>. QED BY <1>1, <1>2, <2>1, <2>3, <3>2
  <2>. QED BY <2>2, <2>3
<1>4. 0 \in T /\ T \subseteq Nat
  OBVIOUS
<1> HIDE DEF T
<1>5. T = Nat
  BY <1>3, <1>4, AllNats
<1>. QED BY <1>5 DEF T

LEMMA JoinsGrow ==
    ASSUME NEW S, NEW q \in Seq(S), NEW m \in S, NEW f, Joins(f, q)
    PROVE  \E g : Joins(g, Append(q, m))
<1> DEFINE r == Append(q, m)
           k == Len(q)
           g == [i \in 1 .. k + 1 |-> IF i <= k THEN f[i] ELSE IF i = 1 THEN m ELSE f[k] \o m]
<1>1. k \in Nat /\ Len(r) = k + 1 /\ r[k + 1] = m /\ \A i \in 1 .. k : r[i] = q[i]
  OBVIOUS
<1>2. ASSUME NEW i \in 1 .. k + 1 PROVE g[i] = IF i = 1 THEN r[i] ELSE g[i - 1] \o r[i]
  <2>1. CASE i <= k
    <3>1. i \in 1 .. k /\ (i # 1 => i - 1 \in 1 .. k)
      BY <2>1
    <3>2. f[i] = IF i = 1 THEN q[i] ELSE f[i - 1] \o q[i]
      BY <3>1 DEF Joins
    <3>. QED BY <1>1, <3>1, <3>2
  <2>2. CASE i = k + 1
    <3>1. i # 1 => k \in 1 .. k
      BY <2>2
    <3>. QED BY <1>1, <2>2, <3>1
  <2>. QED BY <2>1, <2>2
<1>3. g = [i \in 1 .. Len(r) |-> IF i = 1 THEN r[i] ELSE g[i - 1] \o r[i]]
  BY <1>1, <1>2
<1>. QED BY <1>3 DEF Joins

LEMMA JoinsExist == ASSUME NEW S, NEW q \in Seq(S) PROVE \E f : Joins(f, q)
<1> DEFINE T == {s \in Seq(S) : \E f : Joins(f, s)}
<1>1. <<>> \in T
  <2>1. Joins([i \in 1 .. 0 |-> <<>>], <<>>)
    BY DEF Joins
  <2>. QED BY <2>1
<1>2. ASSUME NEW s \in T, NEW e \in S PROVE Append(s, e) \in T
  <2>1. PICK f : Joins(f, s)
    OBVIOUS
  <2>2. \E g : Joins(g, Append(s, e))
    BY <2>1, JoinsGrow
  <2>. QED BY <2>2
<1> HIDE DEF T
<1>3. T = Seq(S)
  <2>1. T \subseteq Seq(S)
    BY DEF T
  <2>. QED BY <1>1, <1>2, <2>1, AllSeqs
<1>. QED BY <1>3 DEF T

LEMMA FlatIs == ASSUME NEW S, NEW q \in Seq(S), q # <<>>, NEW f, Joins(f, q) PROVE Flat(q) = f[Len(q)]
<1> DEFINE g == CHOOSE g : Joins(g, q)
<1>1. Joins(g, q)
  OBVIOUS
<1>2. Flat(q) = g[Len(q)]
  BY DEF Flat, SX!FlattenSeq, Joins
<1> HIDE DEF g
<1>3. Len(q) \in 1 .. Len(q)
  OBVIOUS
<1>4. \A i \in 1 .. Len(q) : g[i] = f[i]
  BY <1>1, JoinsAgree
<1>. QED BY <1>2, <1>3, <1>4

LEMMA FlatEmpty == Flat(<<>>) = <<>>
BY DEF Flat, SX!FlattenSeq

LEMMA FlatOne == ASSUME NEW M, NEW m \in M PROVE Flat(Append(<<>>, m)) = m
<1> DEFINE r == Append(<<>>, m)
<1>1. r \in Seq(M) /\ Len(r) = 1 /\ r[1] = m /\ r # <<>>
  BY AppendProperties, EmptySeq
<1>2. PICK g : Joins(g, r)
  BY <1>1, JoinsExist
<1> HIDE DEF r
<1>3. Flat(r) = g[1]
  BY <1>1, <1>2, FlatIs
<1>4. g[1] = m
  BY <1>1, <1>2 DEF Joins
<1>. QED BY <1>3, <1>4 DEF r

LEMMA FlatGrows ==
    ASSUME NEW M, NEW q \in Seq(M), q # <<>>, NEW m \in M
    PROVE  Flat(Append(q, m)) = Flat(q) \o m
<1> DEFINE r == Append(q, m)
           k == Len(q)
<1>1. /\ k \in Nat /\ k # 0 /\ Len(r) = k + 1 /\ r[k + 1] = m /\ (\A i \in 1 .. k : r[i] = q[i]) /\ r \in Seq(M)
      /\ r # <<>>
  BY AppendProperties, EmptySeq
<1>2. PICK g : Joins(g, r)
  BY <1>1, JoinsExist
<1>3. PICK f : Joins(f, q)
  BY JoinsExist
<1> HIDE DEF r
<1>4. Flat(r) = g[k + 1]
  BY <1>1, <1>2, FlatIs
<1>5. k \in 1 .. k /\ k <= Len(r) /\ (k + 1) - 1 = k /\ k + 1 # 1 /\ k + 1 \in 1 .. Len(r)
  BY <1>1
<1>6. g[k + 1] = g[k] \o m
  BY <1>1, <1>2, <1>5 DEF Joins
<1>7. Flat(q) = f[k]
  BY <1>3, FlatIs
<1>8. \A i \in 1 .. k : g[i] = f[i]
  <2>1. Len(r) \in Nat
    BY <1>1
  <2>. QED BY <1>1, <1>2, <1>3, <1>5, <2>1, JoinsAgree
<1>. QED BY <1>4, <1>5, <1>6, <1>7, <1>8 DEF r

LEMMA FlatAppend ==
    ASSUME NEW S, NEW q \in Seq(Seq(S)), NEW m \in Seq(S)
    PROVE  Flat(Append(q, m)) = Flat(q) \o m
<1>1. CASE q = <<>>
  <2>1. <<>> \o m = m
    BY ConcatEmptySeq
  <2>. QED BY <1>1, <2>1, FlatEmpty, FlatOne
<1>. QED BY <1>1, FlatGrows

LEMMA FlatType == ASSUME NEW S, NEW q \in Seq(Seq(S)) PROVE Flat(q) \in Seq(S)
<1> DEFINE M == Seq(S)
           T == {s \in Seq(M) : Flat(s) \in M}
<1>1. <<>> \in T
  BY FlatEmpty, EmptySeq
<1>2. ASSUME NEW s \in T, NEW m \in M PROVE Append(s, m) \in T
  <2>1. Flat(Append(s, m)) = Flat(s) \o m
    BY FlatAppend
  <2>2. Flat(s) \o m \in M
    BY ConcatProperties
  <2>3. Append(s, m) \in Seq(M)
    BY AppendProperties
  <2>. QED BY <2>1, <2>2, <2>3
<1>3. T \subseteq Seq(M)
  OBVIOUS
<1> HIDE DEF T
<1>4. T = Seq(M)
  BY <1>1, <1>2, <1>3, AllSeqs
<1>. QED BY <1>4 DEF T

LEMMA FlatTail ==
    ASSUME NEW S, NEW q \in Seq(Seq(S)), q # <<>>
    PROVE  Flat(q) = Head(q) \o Flat(Tail(q))
<1> DEFINE M == Seq(S)
           T == {s \in Seq(M) : s # <<>> => Flat(s) = Head(s) \o Flat(Tail(s))}
<1>1. ASSUME NEW s \in T, NEW m \in M PROVE Append(s, m) \in T
  <2>1. Append(s, m) \in Seq(M)
    BY AppendProperties
  <2>2. Flat(Append(s, m)) = Flat(s) \o m
    BY FlatAppend
  <2>3. Head(Append(s, m)) = (IF s = <<>> THEN m ELSE Head(s))
        /\ Tail(Append(s, m)) = (IF s = <<>> THEN <<>> ELSE Append(Tail(s), m))
    BY HeadTailAppend
  <2>4. CASE s = <<>>
    <3>1. m \o <<>> = m /\ <<>> \o m = m
      BY ConcatEmptySeq
    <3>. QED BY <2>1, <2>2, <2>3, <2>4, <3>1, FlatEmpty
  <2>5. CASE s # <<>>
    <3>1. Tail(s) \in Seq(M) /\ Head(s) \in M
      BY <2>5, HeadTailProperties
    <3>2. Flat(Tail(s)) \in M
      BY <3>1, FlatType
    <3>3. Flat(Append(Tail(s), m)) = Flat(Tail(s)) \o m
      BY <3>1, FlatAppend
    <3>4. (Head(s) \o Flat(Tail(s))) \o m = Head(s) \o (Flat(Tail(s)) \o m)
      <4>1. Head(s) \in Seq(S) /\ Flat(Tail(s)) \in Seq(S) /\ m \in Seq(S)
        BY <3>1, <3>2
      <4>2. PICK h, t : h = Head(s) /\ t = Flat(Tail(s))
        OBVIOUS
      <4>3. h \in Seq(S) /\ t \in Seq(S)
        BY <4>1, <4>2
      <4> HIDE DEF M, T
      <4>4. (h \o t) \o m = h \o (t \o m)
        BY ONLY <4>1, <4>3, Assoc
      <4>. QED BY <4>2, <4>4
    <3>. QED BY <2>1, <2>2, <2>3, <2>5, <3>3, <3>4
  <2>. QED BY <2>4, <2>5
<1>2. <<>> \in T /\ T \subseteq Seq(M)
  BY EmptySeq
<1> HIDE DEF T
<1>3. T = Seq(M)
  BY <1>1, <1>2, AllSeqs
<1>. QED BY <1>3 DEF T

(***************************************************************************)
(* A sequence without some of its elements.                                *)
(***************************************************************************)
Keeps(f, s, drop) == f = [k \in 0 .. Len(s) |-> IF k = 0 THEN <<>>
                                                ELSE IF s[k] \in drop THEN f[k - 1]
                                                ELSE Append(f[k - 1], s[k])]

LEMMA KeepsAgree ==
    ASSUME NEW s, NEW t, NEW D, Len(s) \in Nat, Len(t) \in Nat, NEW f, NEW g, Keeps(f, s, D), Keeps(g, t, D),
           Len(t) <= Len(s), \A i \in 1 .. Len(t) : s[i] = t[i]
    PROVE  \A i \in 0 .. Len(t) : f[i] = g[i]
<1> DEFINE T == {n \in Nat : n \in 0 .. Len(t) => f[n] = g[n]}
<1>1. \A k \in 0 .. Len(s) : f[k] = IF k = 0 THEN <<>> ELSE IF s[k] \in D THEN f[k - 1] ELSE Append(f[k - 1], s[k])
  BY DEF Keeps
<1>2. \A k \in 0 .. Len(t) : g[k] = IF k = 0 THEN <<>> ELSE IF t[k] \in D THEN g[k - 1] ELSE Append(g[k - 1], t[k])
  BY DEF Keeps
<1>3. ASSUME NEW n \in T PROVE n + 1 \in T
  <2> SUFFICES ASSUME n + 1 \in 0 .. Len(t) PROVE f[n + 1] = g[n + 1]
    OBVIOUS
  <2>1. /\ n + 1 \in 0 .. Len(s) /\ s[n + 1] = t[n + 1] /\ (n + 1) - 1 = n /\ n + 1 # 0
        /\ f[n] = g[n]
    OBVIOUS
  <2>. QED BY <1>1, <1>2, <2>1
<1>4. 0 \in T /\ T \subseteq Nat
  BY <1>1, <1>2
<1> HIDE DEF T
<1>5. T = Nat
  BY <1>3, <1>4, AllNats
<1>. QED BY <1>5 DEF T

LEMMA KeepsGrow ==
    ASSUME NEW S, NEW s \in Seq(S), NEW e \in S, NEW D, NEW f, Keeps(f, s, D)
    PROVE  \E g : Keeps(g, Append(s, e), D)
<1> DEFINE r == Append(s, e)
           k == Len(s)
           g == [i \in 0 .. k + 1 |-> IF i <= k THEN f[i] ELSE IF e \in D THEN f[k] ELSE Append(f[k], e)]
<1>1. k \in Nat /\ Len(r) = k + 1 /\ r[k + 1] = e /\ \A i \in 1 .. k : r[i] = s[i]
  OBVIOUS
<1>2. ASSUME NEW i \in 0 .. k + 1
      PROVE  g[i] = IF i = 0 THEN <<>> ELSE IF r[i] \in D THEN g[i - 1] ELSE Append(g[i - 1], r[i])
  <2>1. CASE i <= k
    <3>1. i \in 0 .. k /\ (i # 0 => i - 1 \in 0 .. k /\ i \in 1 .. k)
      BY <2>1
    <3>2. f[i] = IF i = 0 THEN <<>> ELSE IF s[i] \in D THEN f[i - 1] ELSE Append(f[i - 1], s[i])
      BY <3>1 DEF Keeps
    <3>. QED BY <1>1, <3>1, <3>2
  <2>2. CASE i = k + 1
    BY <1>1, <2>2
  <2>. QED BY <2>1, <2>2
<1>3. g = [i \in 0 .. Len(r) |-> IF i = 0 THEN <<>>
                                 ELSE IF r[i] \in D THEN g[i - 1] ELSE Append(g[i - 1], r[i])]
  BY <1>1, <1>2
<1>. QED BY <1>3 DEF Keeps

LEMMA KeepsExist == ASSUME NEW S, NEW s \in Seq(S), NEW D PROVE \E f : Keeps(f, s, D)
<1> DEFINE T == {t \in Seq(S) : \E f : Keeps(f, t, D)}
<1>1. <<>> \in T
  <2>1. Keeps([i \in 0 .. 0 |-> <<>>], <<>>, D)
    BY DEF Keeps
  <2>. QED BY <2>1
<1>2. ASSUME NEW t \in T, NEW e \in S PROVE Append(t, e) \in T
  <2>1. PICK f : Keeps(f, t, D)
    OBVIOUS
  <2>2. \E g : Keeps(g, Append(t, e), D)
    BY <2>1, KeepsGrow
  <2>. QED BY <2>2
<1> HIDE DEF T
<1>3. T = Seq(S)
  <2>1. T \subseteq Seq(S)
    BY DEF T
  <2>. QED BY <1>1, <1>2, <2>1, AllSeqs
<1>. QED BY <1>3 DEF T

LEMMA WithoutIs ==
    ASSUME NEW S, NEW s \in Seq(S), NEW D, NEW f, Keeps(f, s, D) PROVE Without(s, D) = f[Len(s)]
<1> DEFINE g == CHOOSE g : Keeps(g, s, D)
<1>1. Keeps(g, s, D)
  OBVIOUS
<1>2. Without(s, D) = g[Len(s)]
  BY DEF Without, Keeps
<1> HIDE DEF g
<1>3. Len(s) \in Nat /\ Len(s) \in 0 .. Len(s)
  OBVIOUS
<1>4. \A i \in 0 .. Len(s) : g[i] = f[i]
  BY <1>1, <1>3, KeepsAgree
<1>. QED BY <1>2, <1>3, <1>4

LEMMA WithoutEmpty == ASSUME NEW D PROVE Without(<<>>, D) = <<>>
<1>1. PICK f : Keeps(f, <<>>, D)
  BY KeepsExist, EmptySeq
<1>2. Without(<<>>, D) = f[0]
  BY <1>1, WithoutIs, EmptySeq
<1>. QED BY <1>1, <1>2 DEF Keeps

LEMMA WithoutAppend ==
    ASSUME NEW S, NEW s \in Seq(S), NEW e \in S, NEW D
    PROVE  Without(Append(s, e), D) = IF e \in D THEN Without(s, D) ELSE Append(Without(s, D), e)
<1> DEFINE r == Append(s, e)
           k == Len(s)
<1>1. /\ k \in Nat /\ Len(r) = k + 1 /\ r[k + 1] = e /\ (\A i \in 1 .. k : r[i] = s[i]) /\ r \in Seq(S)
  BY AppendProperties
<1>2. PICK g : Keeps(g, r, D)
  BY <1>1, KeepsExist
<1>3. PICK f : Keeps(f, s, D)
  BY KeepsExist
<1> HIDE DEF r
<1>4. Without(r, D) = g[k + 1] /\ Without(s, D) = f[k]
  BY <1>1, <1>2, <1>3, WithoutIs
<1>5. g[k + 1] = IF e \in D THEN g[k] ELSE Append(g[k], e)
  <2>1. k + 1 \in 0 .. Len(r) /\ k + 1 # 0 /\ (k + 1) - 1 = k
    BY <1>1
  <2>. QED BY <1>1, <1>2, <2>1 DEF Keeps
<1>6. g[k] = f[k]
  <2>1. /\ Len(r) \in Nat /\ Len(s) \in Nat /\ Len(s) <= Len(r) /\ k \in 0 .. k
        /\ \A i \in 1 .. Len(s) : r[i] = s[i]
    BY <1>1
  <2>2. \A i \in 0 .. k : g[i] = f[i]
    BY ONLY <1>2, <1>3, <2>1, KeepsAgree
  <2>. QED BY <2>1, <2>2
<1>. QED BY <1>4, <1>5, <1>6 DEF r

LEMMA WithoutType == ASSUME NEW S, NEW s \in Seq(S), NEW D PROVE Without(s, D) \in Seq(S)
<1> DEFINE T == {t \in Seq(S) : Without(t, D) \in Seq(S)}
<1>1. <<>> \in T
  BY WithoutEmpty, EmptySeq
<1>2. ASSUME NEW t \in T, NEW e \in S PROVE Append(t, e) \in T
  <2>1. Without(Append(t, e), D) = IF e \in D THEN Without(t, D) ELSE Append(Without(t, D), e)
    BY WithoutAppend
  <2>2. Append(t, e) \in Seq(S) /\ Append(Without(t, D), e) \in Seq(S)
    BY AppendProperties
  <2>. QED BY <2>1, <2>2
<1>3. T \subseteq Seq(S)
  OBVIOUS
<1> HIDE DEF T
<1>4. T = Seq(S)
  BY <1>1, <1>2, <1>3, AllSeqs
<1>. QED BY <1>4 DEF T

LEMMA WithoutConcat ==
    ASSUME NEW S, NEW s \in Seq(S), NEW t \in Seq(S), NEW D
    PROVE  Without(s \o t, D) = Without(s, D) \o Without(t, D)
<1> DEFINE W(u) == Without(u, D)
           T == {u \in Seq(S) : W(s \o u) = W(s) \o W(u)}
<1>1. <<>> \in T
  <2>1. s \o <<>> = s /\ W(s) \o <<>> = W(s)
    BY WithoutType, ConcatEmptySeq
  <2>. QED BY <2>1, WithoutEmpty, EmptySeq
<1>2. ASSUME NEW u \in T, NEW e \in S PROVE Append(u, e) \in T
  <2>1. /\ W(Append(u, e)) = IF e \in D THEN W(u) ELSE Append(W(u), e)
        /\ Append(u, e) \in Seq(S)
    BY WithoutAppend, AppendProperties
  <2>2. s \o u \in Seq(S) /\ W(s) \in Seq(S) /\ W(u) \in Seq(S)
    BY WithoutType, ConcatProperties
  <2>3. W(Append(s \o u, e)) = IF e \in D THEN W(s \o u) ELSE Append(W(s \o u), e)
    <3>1. PICK v \in Seq(S) : v = s \o u
      BY <2>2
    <3>2. W(Append(v, e)) = IF e \in D THEN W(v) ELSE Append(W(v), e)
      BY WithoutAppend
    <3>. QED BY <3>1, <3>2
  <2>4. s \o Append(u, e) = Append(s \o u, e)
    <3>1. PICK v \in Seq(S) : v = u
      OBVIOUS
    <3>2. s \o Append(v, e) = Append(s \o v, e)
      OBVIOUS
    <3>. QED BY <3>1, <3>2
  <2>5. W(s) \o Append(W(u), e) = Append(W(s) \o W(u), e)
    <3>1. PICK v \in Seq(S), w \in Seq(S) : v = W(s) /\ w = W(u)
      BY <2>2
    <3>2. v \o Append(w, e) = Append(v \o w, e)
      OBVIOUS
    <3>. QED BY <3>1, <3>2
  <2>6. W(s \o u) = W(s) \o W(u)
    OBVIOUS
  <2>7. W(s \o Append(u, e)) = W(s) \o W(Append(u, e))
    <3> HIDE DEF W, T
    <3>1. CASE e \in D
      BY <2>1, <2>3, <2>4, <2>6, <3>1
    <3>2. CASE e \notin D
      BY <2>1, <2>3, <2>4, <2>5, <2>6, <3>2
    <3>. QED BY <3>1, <3>2
  <2>. QED BY <2>1, <2>7
<1>3. T \subseteq Seq(S)
  OBVIOUS
<1> HIDE DEF T
<1>4. T = Seq(S)
  BY <1>1, <1>2, <1>3, AllSeqs
<1>. QED BY <1>4 DEF T

LEMMA WithoutNone ==
    ASSUME NEW S, NEW s \in Seq(S), NEW D, \A i \in 1 .. Len(s) : s[i] \notin D
    PROVE  Without(s, D) = s
<1> DEFINE T == {t \in Seq(S) : (\A i \in 1 .. Len(t) : t[i] \notin D) => Without(t, D) = t}
<1>1. <<>> \in T
  BY WithoutEmpty, EmptySeq
<1>2. ASSUME NEW t \in T, NEW e \in S PROVE Append(t, e) \in T
  <2>1. Without(Append(t, e), D) = IF e \in D THEN Without(t, D) ELSE Append(Without(t, D), e)
    BY WithoutAppend
  <2>2. /\ Append(t, e) \in Seq(S) /\ Len(t) \in Nat /\ Len(Append(t, e)) = Len(t) + 1
        /\ Append(t, e)[Len(t) + 1] = e /\ \A i \in 1 .. Len(t) : Append(t, e)[i] = t[i]
    BY AppendProperties, LenProperties
  <2>3. ASSUME \A i \in 1 .. Len(Append(t, e)) : Append(t, e)[i] \notin D
        PROVE  e \notin D /\ \A i \in 1 .. Len(t) : t[i] \notin D
    BY <2>2, <2>3
  <2>. QED BY <2>1, <2>2, <2>3
<1>3. T \subseteq Seq(S)
  OBVIOUS
<1> HIDE DEF T
<1>4. T = Seq(S)
  BY <1>1, <1>2, <1>3, AllSeqs
<1>. QED BY <1>4 DEF T

LEMMA WithoutAll ==
    ASSUME NEW S, NEW s \in Seq(S), NEW D, \A i \in 1 .. Len(s) : s[i] \in D
    PROVE  Without(s, D) = <<>>
<1> DEFINE T == {t \in Seq(S) : (\A i \in 1 .. Len(t) : t[i] \in D) => Without(t, D) = <<>>}
<1>1. <<>> \in T
  BY WithoutEmpty, EmptySeq
<1>2. ASSUME NEW t \in T, NEW e \in S PROVE Append(t, e) \in T
  <2>1. Without(Append(t, e), D) = IF e \in D THEN Without(t, D) ELSE Append(Without(t, D), e)
    BY WithoutAppend
  <2>2. /\ Append(t, e) \in Seq(S) /\ Len(t) \in Nat /\ Len(Append(t, e)) = Len(t) + 1
        /\ Append(t, e)[Len(t) + 1] = e /\ \A i \in 1 .. Len(t) : Append(t, e)[i] = t[i]
    BY AppendProperties, LenProperties
  <2>3. ASSUME \A i \in 1 .. Len(Append(t, e)) : Append(t, e)[i] \in D
        PROVE  e \in D /\ \A i \in 1 .. Len(t) : t[i] \in D
    BY <2>2, <2>3
  <2>. QED BY <2>1, <2>2, <2>3
<1>3. T \subseteq Seq(S)
  OBVIOUS
<1> HIDE DEF T
<1>4. T = Seq(S)
  BY <1>1, <1>2, <1>3, AllSeqs
<1>. QED BY <1>4 DEF T

LEMMA WithoutTwice ==
    ASSUME NEW S, NEW s \in Seq(S), NEW D, NEW E
    PROVE  Without(s, D \cup E) = Without(Without(s, D), E)
<1> DEFINE T == {t \in Seq(S) : Without(t, D \cup E) = Without(Without(t, D), E)}
<1>1. <<>> \in T
  BY WithoutEmpty, EmptySeq
<1>2. ASSUME NEW t \in T, NEW e \in S PROVE Append(t, e) \in T
  <2>1. /\ Without(Append(t, e), D) = IF e \in D THEN Without(t, D) ELSE Append(Without(t, D), e)
        /\ Without(Append(t, e), D \cup E)
              = IF e \in D \cup E THEN Without(t, D \cup E) ELSE Append(Without(t, D \cup E), e)
    BY WithoutAppend
  <2>2. Append(t, e) \in Seq(S) /\ Without(t, D) \in Seq(S)
    BY AppendProperties, WithoutType
  <2>3. Without(Append(Without(t, D), e), E)
           = IF e \in E THEN Without(Without(t, D), E) ELSE Append(Without(Without(t, D), E), e)
    BY <2>2, WithoutAppend
  <2>. QED BY <2>1, <2>2, <2>3
<1>3. T \subseteq Seq(S)
  OBVIOUS
<1> HIDE DEF T
<1>4. T = Seq(S)
  BY <1>1, <1>2, <1>3, AllSeqs
<1>. QED BY <1>4 DEF T

Ascending(s) == \A i, j \in 1 .. Len(s) : i < j => s[i].n < s[j].n

LEMMA AscendingAppend ==
    ASSUME NEW u \in Seq(Byte), NEW e \in Byte, Ascending(u), \A i \in 1 .. Len(u) : u[i].n < e.n
    PROVE  Ascending(Append(u, e))
BY DEF Ascending

LEMMA WithoutAscending ==
    ASSUME NEW s \in Seq(Byte), Ascending(s), NEW D PROVE Ascending(Without(s, D))
<1> DEFINE W(t) == Without(t, D)
           T == {t \in Seq(Byte) : /\ \A i \in 1 .. Len(W(t)) : \E k \in 1 .. Len(t) : W(t)[i] = t[k]
                                   /\ Ascending(t) => Ascending(W(t))}
<1>1. <<>> \in T
  BY WithoutEmpty, EmptySeq
<1>2. ASSUME NEW t \in T, NEW e \in Byte PROVE Append(t, e) \in T
  <2>1. W(Append(t, e)) = IF e \in D THEN W(t) ELSE Append(W(t), e)
    BY WithoutAppend
  <2>2. W(t) \in Seq(Byte)
    BY WithoutType
  <2>3. /\ Append(t, e) \in Seq(Byte) /\ Len(t) \in Nat /\ Len(Append(t, e)) = Len(t) + 1
        /\ Append(t, e)[Len(t) + 1] = e /\ \A i \in 1 .. Len(t) : Append(t, e)[i] = t[i]
    BY AppendProperties, LenProperties
  <2>4. /\ Len(W(t)) \in Nat /\ Len(Append(W(t), e)) = Len(W(t)) + 1
        /\ Append(W(t), e)[Len(W(t)) + 1] = e /\ \A i \in 1 .. Len(W(t)) : Append(W(t), e)[i] = W(t)[i]
    BY <2>2, AppendProperties, LenProperties
  <2>5. /\ \A i \in 1 .. Len(W(t)) : \E k \in 1 .. Len(t) : W(t)[i] = t[k]
        /\ Ascending(t) => Ascending(W(t))
    OBVIOUS
  <2> HIDE DEF W
  <2>6. ASSUME NEW i \in 1 .. Len(W(Append(t, e)))
        PROVE  \E k \in 1 .. Len(Append(t, e)) : W(Append(t, e))[i] = Append(t, e)[k]
    <3>1. CASE i \in 1 .. Len(W(t))
      <4>1. W(Append(t, e))[i] = W(t)[i]
        BY <2>1, <2>4, <3>1
      <4>2. PICK k \in 1 .. Len(t) : W(t)[i] = t[k]
        BY <2>5, <3>1
      <4>. QED BY <2>3, <4>1, <4>2
    <3>2. CASE i \notin 1 .. Len(W(t))
      <4>1. e \notin D /\ i = Len(W(t)) + 1
        BY <2>1, <2>4, <2>6, <3>2
      <4>. QED BY <2>1, <2>3, <2>4, <4>1
    <3>. QED BY <3>1, <3>2
  <2>7. ASSUME Ascending(Append(t, e)) PROVE Ascending(W(Append(t, e)))
    <3>1. Ascending(t) /\ \A k \in 1 .. Len(t) : t[k].n < e.n
      BY <2>3, <2>7 DEF Ascending
    <3>2. Ascending(W(t)) /\ \A i \in 1 .. Len(W(t)) : W(t)[i].n < e.n
      BY <2>5, <3>1
    <3>3. Ascending(Append(W(t), e))
      <4>1. PICK u \in Seq(Byte) : u = W(t)
        BY <2>2
      <4>. QED BY <3>2, <4>1, AscendingAppend
    <3>. QED BY <2>1, <3>2, <3>3
  <2>. QED BY <2>3, <2>6, <2>7 DEF W
<1>3. T \subseteq Seq(Byte)
  OBVIOUS
<1> HIDE DEF T
<1>4. T = Seq(Byte)
  BY <1>1, <1>2, <1>3, AllSeqs
<1>. QED BY <1>4 DEF T

\* Of an ascending sequence, taking out all that is in the middle leaves the ends.
LEMMA WithoutMiddle ==
    ASSUME NEW a \in Seq(Byte), NEW m \in Seq(Byte), NEW c \in Seq(Byte), Ascending(a \o (m \o c))
    PROVE  Without(a \o (m \o c), BytesOf(m)) = a \o c
<1> DEFINE x == a \o (m \o c)
<1>1. /\ Len(a) \in Nat /\ Len(m) \in Nat /\ Len(c) \in Nat /\ m \o c \in Seq(Byte)
      /\ Len(x) = Len(a) + Len(m) + Len(c)
      /\ \A i \in 1 .. Len(a) : x[i] = a[i]
      /\ \A i \in 1 .. Len(m) : x[Len(a) + i] = m[i]
      /\ \A i \in 1 .. Len(c) : x[Len(a) + Len(m) + i] = c[i]
  OBVIOUS
<1> HIDE DEF x
<1>2. BytesOf(m) = {m[i] : i \in 1 .. Len(m)}
  BY DEF BytesOf
<1>3. Ascending(x)
  BY DEF x
<1>4. \A i \in 1 .. Len(a) : a[i] \notin BytesOf(m)
  <2> SUFFICES ASSUME NEW i \in 1 .. Len(a), NEW j \in 1 .. Len(m), a[i] = m[j] PROVE FALSE
    BY <1>2
  <2>1. i \in 1 .. Len(x) /\ Len(a) + j \in 1 .. Len(x) /\ i < Len(a) + j
    BY <1>1
  <2>2. a[i].n < m[j].n
    BY <1>1, <1>3, <2>1 DEF Ascending
  <2>3. a[i].n \in Nat
    <3>1. a[i] \in Byte
      OBVIOUS
    <3>. QED BY <3>1 DEF Byte
  <2>. QED BY <2>2, <2>3
<1>5. \A i \in 1 .. Len(c) : c[i] \notin BytesOf(m)
  <2> SUFFICES ASSUME NEW i \in 1 .. Len(c), NEW j \in 1 .. Len(m), c[i] = m[j] PROVE FALSE
    BY <1>2
  <2>1. /\ Len(a) + Len(m) + i \in 1 .. Len(x) /\ Len(a) + j \in 1 .. Len(x)
        /\ Len(a) + j < Len(a) + Len(m) + i
    BY <1>1
  <2>2. m[j].n < c[i].n
    BY <1>1, <1>3, <2>1 DEF Ascending
  <2>3. c[i].n \in Nat
    <3>1. c[i] \in Byte
      OBVIOUS
    <3>. QED BY <3>1 DEF Byte
  <2>. QED BY <2>2, <2>3
<1>6. \A i \in 1 .. Len(m) : m[i] \in BytesOf(m)
  BY <1>2
<1>7. Without(x, BytesOf(m)) = Without(a, BytesOf(m)) \o (Without(m, BytesOf(m)) \o Without(c, BytesOf(m)))
  <2> DEFINE D == BytesOf(m)
  <2> HIDE DEF D
  <2>1. Without(m \o c, D) = Without(m, D) \o Without(c, D)
    BY WithoutConcat
  <2>2. PICK v \in Seq(Byte) : v = m \o c
    BY <1>1
  <2>3. Without(a \o v, D) = Without(a, D) \o Without(v, D)
    BY WithoutConcat
  <2>. QED BY <2>1, <2>2, <2>3 DEF x, D
<1>8. /\ Without(a, BytesOf(m)) = a /\ Without(m, BytesOf(m)) = <<>> /\ Without(c, BytesOf(m)) = c
  BY <1>4, <1>5, <1>6, WithoutNone, WithoutAll
<1>9. <<>> \o c = c
  BY ConcatEmptySeq
<1>. QED BY <1>7, <1>8, <1>9 DEF x

(***************************************************************************)
(* What the firmware prints reaches the reader, but for what is dropped.   *)
(***************************************************************************)
UpTo(s, n) == \A i \in 1 .. Len(s) : s[i].n <= n

PrintTexts == /\ got \in Seq(Byte) /\ said \in Seq(Byte) /\ lost \in Seq(Byte)
              /\ \A p \in Readers : rd[p] <= Len(fifo)

\* A byte is printed once: only bytes that were printed are lost, and the next ones
\* come after all of them.
InOrder == Ascending(said) /\ UpTo(said, printed) /\ UpTo(lost, printed)

\* Before the device is there nothing has been sent, so that the fifo it begins with
\* is not a loss.
Quiet == probe = "none" => /\ ~stdioInit /\ todo = <<>>
                           /\ toBm = <<>> /\ toLinux = <<>> /\ fifo = <<>>
                           /\ \A w \in Writers : wr[w].pc = "idle"

LEMMA Split == ASSUME NEW S, NEW s \in Seq(S), NEW n \in 0 .. Len(s)
               PROVE  /\ Front(s, n) \in Seq(S) /\ Rest(s, n) \in Seq(S)
                      /\ Front(s, n) \o Rest(s, n) = s
<1>1. Front(s, n) \in Seq(S) /\ Rest(s, n) \in Seq(S)
  BY FrontIs, RestIs
<1>2. /\ 1 \in 1 .. Len(s) + 1 /\ n \in 1 - 1 .. Len(s) /\ Len(s) \in n .. Len(s)
  OBVIOUS
<1>3. SubSeq(s, 1, n) \o SubSeq(s, n + 1, Len(s)) = SubSeq(s, 1, Len(s))
  BY <1>2, ConcatAdjacentSubSeq
<1>4. SubSeq(s, 1, Len(s)) = s
  BY SubSeqFull
<1>. QED BY <1>1, <1>3, <1>4 DEF Front, Rest

LEMMA RestAll == ASSUME NEW S, NEW s \in Seq(S) PROVE Rest(s, 0) = s
BY DEF Rest

LEMMA RestJoined == ASSUME NEW S, NEW s \in Seq(S), NEW t \in Seq(S), NEW n \in 0 .. Len(s)
                    PROVE  Rest(s \o t, n) = Rest(s, n) \o t
<1>1. PICK u \in Seq(S) : u = s \o t
  <2>1. s \o t \in Seq(S)
    BY Joined
  <2>. QED BY <2>1, Zenon
<1>2. /\ Len(s) \in Nat /\ Len(t) \in Nat /\ Len(u) = Len(s) + Len(t) /\ n \in Nat /\ n <= Len(s)
      /\ \A i \in 1 .. Len(u) : u[i] = IF i <= Len(s) THEN s[i] ELSE t[i - Len(s)]
  BY <1>1, ConcatProperties
<1>3. PICK q \in Seq(S) : q = Rest(s, n)
  BY <1>2, RestIs
<1>4. q \in Seq(S) /\ Len(q) = Len(s) - n /\ \A i \in 1 .. Len(q) : q[i] = s[n + i]
  BY <1>3 DEF Rest
<1>5. PICK r : r = Rest(u, n)
  OBVIOUS
<1>6. r \in Seq(S) /\ Len(r) = Len(u) - n /\ \A i \in 1 .. Len(r) : r[i] = u[n + i]
  BY <1>2, <1>5 DEF Rest
<1>7. PICK v : v = q \o t
  OBVIOUS
<1>8. /\ v \in Seq(S) /\ Len(v) = Len(q) + Len(t)
      /\ \A i \in 1 .. Len(v) : v[i] = IF i <= Len(q) THEN q[i] ELSE t[i - Len(q)]
  BY <1>7
<1>9. Len(r) = Len(v) /\ \A i \in 1 .. Len(r) : r[i] = v[i]
  <2>1. Len(r) = Len(v)
    BY <1>2, <1>4, <1>6, <1>8
  <2> SUFFICES ASSUME NEW i \in 1 .. Len(v) PROVE r[i] = v[i]
    BY <2>1
  <2>2. n + i \in 1 .. Len(u) /\ r[i] = u[n + i]
    BY <1>2, <1>6, <2>1
  <2>3. CASE i <= Len(q)
    <3>1. n + i <= Len(s) /\ i \in 1 .. Len(q)
      BY <1>2, <1>4, <2>3
    <3>. QED BY <1>2, <1>4, <1>8, <2>2, <2>3, <3>1
  <2>4. CASE ~ (i <= Len(q))
    <3>1. ~ (n + i <= Len(s)) /\ (n + i) - Len(s) = i - Len(q)
      BY <1>2, <1>4, <2>4
    <3>. QED BY <1>2, <1>8, <2>2, <2>4, <3>1
  <2>. QED BY <2>3, <2>4
<1>10. r = v
  BY <1>6, <1>8, <1>9, SeqEqual
<1>. QED BY <1>1, <1>3, <1>5, <1>7, <1>10

LEMMA BytesOfJoined == ASSUME NEW s \in Seq(Byte), NEW t \in Seq(Byte)
                       PROVE  BytesOf(s \o t) = BytesOf(s) \cup BytesOf(t)
<1>0. PICK u \in Seq(Byte) : u = s \o t
  BY ConcatProperties
<1>1. /\ DOMAIN s = 1 .. Len(s) /\ DOMAIN t = 1 .. Len(t) /\ DOMAIN (s \o t) = 1 .. Len(s) + Len(t)
      /\ Len(s) \in Nat /\ Len(t) \in Nat
      /\ \A i \in 1 .. Len(s) : (s \o t)[i] = s[i]
      /\ \A i \in 1 .. Len(t) : (s \o t)[Len(s) + i] = t[i]
  <2>1. DOMAIN s = 1 .. Len(s) /\ DOMAIN t = 1 .. Len(t) /\ DOMAIN u = 1 .. Len(u)
    OBVIOUS
  <2>2. /\ Len(s) \in Nat /\ Len(t) \in Nat /\ Len(s \o t) = Len(s) + Len(t)
        /\ \A i \in 1 .. Len(s) : (s \o t)[i] = s[i]
        /\ \A i \in 1 .. Len(t) : (s \o t)[Len(s) + i] = t[i]
    OBVIOUS
  <2>. QED BY <1>0, <2>1, <2>2
<1>2. \A i \in 1 .. Len(s) + Len(t) : i \in 1 .. Len(s) \/ (i - Len(s) \in 1 .. Len(t) /\ i = Len(s) + (i - Len(s)))
  BY <1>1
<1>3. \A i \in 1 .. Len(t) : Len(s) + i \in 1 .. Len(s) + Len(t)
  BY <1>1
<1>4. \A i \in 1 .. Len(s) : i \in 1 .. Len(s) + Len(t)
  BY <1>1
<1>5. ASSUME NEW i \in 1 .. Len(s) + Len(t) PROVE (s \o t)[i] \in BytesOf(s) \cup BytesOf(t)
  BY <1>1, <1>2 DEF BytesOf
<1>6. ASSUME NEW i \in 1 .. Len(s) PROVE s[i] \in BytesOf(s \o t)
  BY <1>1, <1>4 DEF BytesOf
<1>7. ASSUME NEW i \in 1 .. Len(t) PROVE t[i] \in BytesOf(s \o t)
  BY <1>1, <1>3 DEF BytesOf
<1>. QED BY <1>1, <1>5, <1>6, <1>7 DEF BytesOf

LEMMA UpToJoined ==
    ASSUME NEW s \in Seq(Byte), NEW t \in Seq(Byte), NEW n, UpTo(s, n), UpTo(t, n) PROVE UpTo(s \o t, n)
<1>1. /\ Len(s) \in Nat /\ Len(t) \in Nat /\ Len(s \o t) = Len(s) + Len(t)
      /\ \A i \in 1 .. Len(s) : (s \o t)[i] = s[i]
      /\ \A i \in 1 .. Len(t) : (s \o t)[Len(s) + i] = t[i]
  OBVIOUS
<1>2. \A i \in 1 .. Len(s) + Len(t) : i \in 1 .. Len(s) \/ (i - Len(s) \in 1 .. Len(t) /\ i = Len(s) + (i - Len(s)))
  BY <1>1
<1>. QED BY <1>1, <1>2 DEF UpTo

LEMMA UpToMore == ASSUME NEW s \in Seq(Byte), NEW n \in Nat, NEW k \in Nat, UpTo(s, n) PROVE UpTo(s, n + k)
<1>1. \A i \in 1 .. Len(s) : s[i] \in Byte
  OBVIOUS
<1>2. \A i \in 1 .. Len(s) : s[i].n \in Nat /\ s[i].n <= n
  BY <1>1 DEF UpTo, Byte
<1>. QED BY <1>2 DEF UpTo

\* A print is bytes that come after all earlier ones.
LEMMA PrintIs ==
    ASSUME NEW a \in Nat, NEW k \in Nat
    PROVE  /\ Bytes("bm", a + 1, a + k) \in Seq(Byte)
           /\ Ascending(Bytes("bm", a + 1, a + k)) /\ UpTo(Bytes("bm", a + 1, a + k), a + k)
           /\ \A i \in 1 .. Len(Bytes("bm", a + 1, a + k)) : Bytes("bm", a + 1, a + k)[i].n > a
<1>1. (a + k) - (a + 1) + 1 = k
  OBVIOUS
<1>2. Bytes("bm", a + 1, a + k) = [i \in 1 .. k |-> [from |-> "bm", n |-> a + i]]
  <2>1. \A i \in 1 .. k : (a + 1) + i - 1 = a + i
    OBVIOUS
  <2>. QED BY <1>1, <2>1 DEF Bytes
<1>3. PICK s : s = [i \in 1 .. k |-> [from |-> "bm", n |-> a + i]]
  OBVIOUS
<1>4. s \in Seq(Byte) /\ Len(s) = k
  <2>1. s \in [1 .. k -> Byte]
    BY <1>3 DEF Byte
  <2>. QED BY <2>1, SeqMade
<1>5. \A i \in 1 .. Len(s) : s[i].n = a + i
  BY <1>3, <1>4
<1>6. Ascending(s) /\ UpTo(s, a + k) /\ \A i \in 1 .. Len(s) : s[i].n > a
  BY <1>4, <1>5 DEF Ascending, UpTo
<1>. QED BY <1>2, <1>3, <1>4, <1>6

LEMMA AscendingJoined ==
    ASSUME NEW s \in Seq(Byte), NEW t \in Seq(Byte), NEW n \in Nat, Ascending(s), Ascending(t), UpTo(s, n),
           \A i \in 1 .. Len(t) : t[i].n > n
    PROVE  Ascending(s \o t)
<1>1. /\ Len(s) \in Nat /\ Len(t) \in Nat /\ Len(s \o t) = Len(s) + Len(t)
      /\ \A i \in 1 .. Len(s) : (s \o t)[i] = s[i]
      /\ \A i \in 1 .. Len(t) : (s \o t)[Len(s) + i] = t[i]
  OBVIOUS
<1>2. \A i \in 1 .. Len(s) + Len(t) : i \in 1 .. Len(s) \/ (i - Len(s) \in 1 .. Len(t) /\ i = Len(s) + (i - Len(s)))
  BY <1>1
<1>3. \A i \in 1 .. Len(s) : s[i].n \in Nat /\ s[i].n <= n
  <2>1. \A i \in 1 .. Len(s) : s[i] \in Byte
    OBVIOUS
  <2>. QED BY <2>1 DEF UpTo, Byte
<1>4. \A i \in 1 .. Len(t) : t[i].n \in Nat
  <2>1. \A i \in 1 .. Len(t) : t[i] \in Byte
    OBVIOUS
  <2>. QED BY <2>1 DEF Byte
<1> SUFFICES ASSUME NEW i \in 1 .. Len(s \o t), NEW j \in 1 .. Len(s \o t), i < j
             PROVE  (s \o t)[i].n < (s \o t)[j].n
  BY DEF Ascending
<1>5. CASE i \in 1 .. Len(s) /\ j \in 1 .. Len(s)
  BY <1>1, <1>5 DEF Ascending
<1>6. CASE i \in 1 .. Len(s) /\ j \notin 1 .. Len(s)
  <2>1. j - Len(s) \in 1 .. Len(t) /\ (s \o t)[j] = t[j - Len(s)]
    BY <1>1, <1>2, <1>6
  <2>2. (s \o t)[j].n \in Nat /\ (s \o t)[j].n > n
    BY <1>4, <2>1
  <2>3. (s \o t)[i].n \in Nat /\ (s \o t)[i].n <= n
    BY <1>1, <1>3, <1>6
  <2>. QED BY <2>2, <2>3
<1>7. CASE i \notin 1 .. Len(s)
  <2>1. /\ i - Len(s) \in 1 .. Len(t) /\ (s \o t)[i] = t[i - Len(s)]
        /\ j - Len(s) \in 1 .. Len(t) /\ (s \o t)[j] = t[j - Len(s)] /\ i - Len(s) < j - Len(s)
    BY <1>1, <1>2, <1>7
  <2>. QED BY <2>1 DEF Ascending
<1>. QED BY <1>5, <1>6, <1>7

(***************************************************************************)
(* Concatenation under a name of its own, so that sequences of four or     *)
(* five parts are regrouped by its laws alone.                             *)
(***************************************************************************)
Cat(s, t) == s \o t

LEMMA CatType == ASSUME NEW S, NEW s \in Seq(S), NEW t \in Seq(S) PROVE Cat(s, t) \in Seq(S)
BY DEF Cat

LEMMA CatAssoc == ASSUME NEW S, NEW a \in Seq(S), NEW b \in Seq(S), NEW c \in Seq(S)
                  PROVE  Cat(Cat(a, b), c) = Cat(a, Cat(b, c))
BY Assoc DEF Cat

LEMMA CatEmpty == ASSUME NEW S, NEW a \in Seq(S) PROVE Cat(a, <<>>) = a
BY ConcatEmptySeq DEF Cat

\* What is read, in the fifo, on the bus and yet to be sent, put together.
LEMMA PutTogether ==
    ASSUME NEW S, NEW g \in Seq(S), NEW a \in Seq(S), NEW b \in Seq(S), NEW c \in Seq(S), NEW d \in Seq(S)
    PROVE  /\ Cat(g, Cat(Cat(a, b), c)) = Cat(Cat(g, Cat(Cat(a, b), <<>>)), c)
           /\ Cat(Cat(a, Cat(b, c)), d) = Cat(Cat(a, b), Cat(c, d))
           /\ Cat(g, Cat(Cat(Cat(a, b), c), d)) = Cat(Cat(g, a), Cat(Cat(b, c), d))
<1>1. Cat(a, b) \in Seq(S) /\ Cat(b, c) \in Seq(S) /\ Cat(Cat(b, c), d) \in Seq(S)
  BY CatType
<1>2. Cat(g, Cat(Cat(a, b), c)) = Cat(Cat(g, Cat(a, b)), c) /\ Cat(Cat(a, b), <<>>) = Cat(a, b)
  BY <1>1, CatAssoc, CatEmpty
<1>3. Cat(a, Cat(b, c)) = Cat(Cat(a, b), c) /\ Cat(Cat(Cat(a, b), c), d) = Cat(Cat(a, b), Cat(c, d))
  BY <1>1, CatAssoc
<1>4. /\ Cat(Cat(a, Cat(b, c)), d) = Cat(a, Cat(Cat(b, c), d))
      /\ Cat(g, Cat(a, Cat(Cat(b, c), d))) = Cat(Cat(g, a), Cat(Cat(b, c), d))
  BY <1>1, CatAssoc
<1>. QED BY <1>2, <1>3, <1>4

\* A message of two parts, the second of which is taken out.
LEMMA TakeApart ==
    ASSUME NEW S, NEW g \in Seq(S), NEW r \in Seq(S), NEW a \in Seq(S), NEW c \in Seq(S), NEW d \in Seq(S)
    PROVE  Cat(g, Cat(Cat(Cat(r, a), c), d)) = Cat(Cat(Cat(g, r), a), Cat(c, d))
<1>1. Cat(g, r) \in Seq(S) /\ Cat(r, a) \in Seq(S) /\ Cat(c, d) \in Seq(S) /\ Cat(a, Cat(c, d)) \in Seq(S)
  BY CatType
<1>2. /\ Cat(Cat(Cat(r, a), c), d) = Cat(Cat(r, a), Cat(c, d))
      /\ Cat(Cat(r, a), Cat(c, d)) = Cat(r, Cat(a, Cat(c, d)))
  BY <1>1, CatAssoc
<1>3. /\ Cat(g, Cat(r, Cat(a, Cat(c, d)))) = Cat(Cat(g, r), Cat(a, Cat(c, d)))
      /\ Cat(Cat(g, r), Cat(a, Cat(c, d))) = Cat(Cat(Cat(g, r), a), Cat(c, d))
  BY <1>1, CatAssoc
<1>. QED BY <1>2, <1>3

LEMMA WithoutUpTo ==
    ASSUME NEW s \in Seq(Byte), NEW D, NEW n, UpTo(s, n) PROVE UpTo(Without(s, D), n)
<1> DEFINE T == {t \in Seq(Byte) : UpTo(t, n) => UpTo(Without(t, D), n)}
<1>1. <<>> \in T
  BY WithoutEmpty, EmptySeq
<1>2. ASSUME NEW t \in T, NEW e \in Byte PROVE Append(t, e) \in T
  <2>1. Without(Append(t, e), D) = IF e \in D THEN Without(t, D) ELSE Append(Without(t, D), e)
    BY WithoutAppend
  <2>2. Append(t, e) \in Seq(Byte) /\ Without(t, D) \in Seq(Byte)
    BY AppendProperties, WithoutType
  <2>3. ASSUME UpTo(Append(t, e), n) PROVE UpTo(t, n) /\ e.n <= n
    <3>1. /\ Len(t) \in Nat /\ Len(Append(t, e)) = Len(t) + 1
          /\ Append(t, e)[Len(t) + 1] = e /\ \A i \in 1 .. Len(t) : Append(t, e)[i] = t[i]
      BY AppendProperties, LenProperties
    <3>. QED BY <2>3, <3>1 DEF UpTo
  <2>4. ASSUME UpTo(Without(t, D), n), e.n <= n PROVE UpTo(Append(Without(t, D), e), n)
    <3>1. PICK u \in Seq(Byte) : u = Without(t, D)
      BY <2>2
    <3>2. /\ Len(u) \in Nat /\ Len(Append(u, e)) = Len(u) + 1
          /\ Append(u, e)[Len(u) + 1] = e /\ \A i \in 1 .. Len(u) : Append(u, e)[i] = u[i]
      BY AppendProperties, LenProperties
    <3>. QED BY <2>4, <3>1, <3>2 DEF UpTo
  <2>. QED BY <2>1, <2>2, <2>3, <2>4
<1>3. T \subseteq Seq(Byte)
  OBVIOUS
<1> HIDE DEF T
<1>4. T = Seq(Byte)
  BY <1>1, <1>2, <1>3, AllSeqs
<1>. QED BY <1>4 DEF T

LEMMA UpToMiddle ==
    ASSUME NEW a \in Seq(Byte), NEW m \in Seq(Byte), NEW c \in Seq(Byte), NEW n, UpTo(a \o (m \o c), n)
    PROVE  UpTo(m, n)
<1>1. /\ Len(a) \in Nat /\ Len(m) \in Nat /\ Len(c) \in Nat
      /\ Len(a \o (m \o c)) = Len(a) + Len(m) + Len(c)
      /\ \A i \in 1 .. Len(m) : (a \o (m \o c))[Len(a) + i] = m[i]
  OBVIOUS
<1>2. \A i \in 1 .. Len(m) : Len(a) + i \in 1 .. Len(a) + Len(m) + Len(c)
  BY <1>1
<1>. QED BY <1>1, <1>2 DEF UpTo

\* Bytes that come after all that is lost are kept.
LEMMA KeepPrinted ==
    ASSUME NEW s \in Seq(Byte), NEW l \in Seq(Byte), NEW t \in Seq(Byte), NEW n \in Nat, UpTo(l, n),
           \A i \in 1 .. Len(t) : t[i].n > n
    PROVE  Without(s \o t, BytesOf(l)) = Without(s, BytesOf(l)) \o t
<1>0. BytesOf(l) = {l[j] : j \in 1 .. Len(l)}
  <2>1. DOMAIN l = 1 .. Len(l)
    OBVIOUS
  <2>. QED BY <2>1 DEF BytesOf
<1>1. ASSUME NEW i \in 1 .. Len(t) PROVE t[i] \notin BytesOf(l)
  <2>1. t[i] \in Byte
    OBVIOUS
  <2>2. t[i].n \in Nat /\ t[i].n > n
    BY <2>1 DEF Byte
  <2>3. \A b \in BytesOf(l) : b.n <= n
    BY <1>0 DEF UpTo
  <2>4. ~ (t[i].n <= n)
    BY <2>2
  <2>. QED BY <2>3, <2>4
<1> DEFINE D == BytesOf(l)
<1> HIDE DEF D
<1>2. Without(t, D) = t
  BY <1>1, WithoutNone DEF D
<1>3. Without(s \o t, D) = Without(s, D) \o Without(t, D)
  BY WithoutConcat
<1>. QED BY <1>2, <1>3 DEF D

\* Of what is on its way, a part of the first message is lost.  g has been read, r is
\* in the fifo, a and b are the first message, c the others, d is yet to be sent; s is
\* what was said and l what was lost, of bytes up to n.
OnTheWay(g, r, a, b, c, d, s, l, n) ==
    /\ g \in Seq(Byte) /\ r \in Seq(Byte) /\ a \in Seq(Byte) /\ b \in Seq(Byte)
    /\ c \in Seq(Byte) /\ d \in Seq(Byte) /\ s \in Seq(Byte) /\ l \in Seq(Byte)
    /\ Ascending(s) /\ UpTo(s, n) /\ UpTo(l, n)
    /\ Cat(g, Cat(Cat(r, Cat(Cat(a, b), c)), d)) = Without(s, BytesOf(l))

LEMMA DropMiddle ==
    ASSUME NEW g, NEW r, NEW a, NEW b, NEW c, NEW d, NEW s, NEW l, NEW n, OnTheWay(g, r, a, b, c, d, s, l, n)
    PROVE  /\ Cat(g, Cat(Cat(Cat(r, a), c), d)) = Without(s, BytesOf(Cat(l, b)))
           /\ UpTo(Cat(l, b), n)
<1> USE DEF OnTheWay
<1>1. PICK h \in Seq(Byte), e \in Seq(Byte) :
           /\ Cat(g, Cat(Cat(r, Cat(Cat(a, b), c)), d)) = Cat(h, Cat(b, e))
           /\ Cat(g, Cat(Cat(Cat(r, a), c), d)) = Cat(h, e)
  <2>1. Cat(g, Cat(Cat(r, Cat(Cat(a, b), c)), d)) = Cat(Cat(Cat(g, r), a), Cat(b, Cat(c, d)))
    <3>1. PICK v \in Seq(Byte) : v = Cat(b, c)
      BY CatType
    <3>2. Cat(Cat(a, b), c) = Cat(a, v) /\ Cat(r, Cat(a, v)) = Cat(Cat(r, a), v) /\ Cat(v, d) = Cat(b, Cat(c, d))
      BY <3>1, CatAssoc
    <3>3. Cat(g, Cat(Cat(Cat(r, a), v), d)) = Cat(Cat(Cat(g, r), a), Cat(v, d))
      BY TakeApart
    <3>. QED BY <3>2, <3>3
  <2>2. Cat(g, Cat(Cat(Cat(r, a), c), d)) = Cat(Cat(Cat(g, r), a), Cat(c, d))
    BY TakeApart
  <2>3. Cat(g, r) \in Seq(Byte) /\ Cat(c, d) \in Seq(Byte)
    BY CatType
  <2>4. Cat(Cat(g, r), a) \in Seq(Byte)
    BY <2>3, CatType
  <2>. QED BY <2>1, <2>2, <2>3, <2>4
<1>2. Cat(h, Cat(b, e)) = Without(s, BytesOf(l))
  BY <1>1
<1>3. Ascending(h \o (b \o e)) /\ UpTo(h \o (b \o e), n)
  BY <1>2, WithoutAscending, WithoutUpTo DEF Cat
<1>4. Without(h \o (b \o e), BytesOf(b)) = h \o e
  BY <1>3, WithoutMiddle
<1>5. BytesOf(l \o b) = BytesOf(l) \cup BytesOf(b)
  BY BytesOfJoined
<1>6. Without(s, BytesOf(l) \cup BytesOf(b)) = Without(Without(s, BytesOf(l)), BytesOf(b))
  BY WithoutTwice
<1>7. UpTo(b, n)
  BY <1>3, UpToMiddle
<1>8. UpTo(l \o b, n)
  BY <1>7, UpToJoined
<1>9. h \o e = Without(s, BytesOf(l \o b))
  BY ONLY <1>2, <1>4, <1>5, <1>6 DEF Cat
<1>. QED BY ONLY <1>1, <1>8, <1>9 DEF Cat

Intact(p) == Cat(got, Cat(Cat(Rest(fifo, rd[p]), Flat(toLinux)), todo)) = Without(said, BytesOf(lost))

PrintInv(p) == PrintTexts /\ InOrder /\ Quiet /\ Intact(p)

LEMMA QueueIs ==
    ASSUME Types, PrintTexts, NEW p \in Readers
    PROVE  /\ Flat(toLinux) \in Seq(Byte) /\ rd[p] \in 0 .. Len(fifo) /\ Rest(fifo, rd[p]) \in Seq(Byte)
           /\ got \in Seq(Byte) /\ said \in Seq(Byte) /\ lost \in Seq(Byte)
           /\ fifo \in Seq(Byte) /\ todo \in Seq(Byte) /\ printed \in Nat
<1>1. rd[p] \in Nat /\ rd[p] <= Len(fifo) /\ Len(fifo) \in Nat
  BY StdioAssumption DEF Types, TypeOK, Texts, PrintTexts
<1>2. Flat(toLinux) \in Seq(Byte)
  BY FlatType DEF Types, Texts
<1>3. Rest(fifo, rd[p]) \in Seq(Byte)
  BY <1>1, RestIs DEF Types, Texts
<1>. QED BY <1>1, <1>2, <1>3, StdioAssumption DEF Types, TypeOK, Texts, PrintTexts

\* _write: the print joins what is said and what is yet to be sent, or neither.
LEMMA PrintfStep == ASSUME NEW p, Readers = {p}, Types, PrintInv(p), Printf PROVE PrintInv(p)'
<1>1. PICK n \in Prints : /\ printed + n <= MaxPrinted /\ printed' = printed + n
                          /\ line' = Bytes("bm", printed + 1, printed + n)
  BY DEF Printf
<1>2. UNCHANGED <<stdioInit, lost, toLinux, toBm, probe, fifo, wr, rd, got>> /\ said' = said \o todo' /\ line = <<>>
  BY DEF Printf, modVars
<1>3. n \in Nat /\ printed \in Nat
  BY StdioAssumption DEF Types, TypeOK
<1>4. todo = <<>>
  <2>1. Len(todo) <= 0 /\ todo \in Seq(Byte)
    BY <1>2 DEF Types, TypeOK, Texts
  <2>. QED BY <2>1
<1>5. /\ todo' \in Seq(Byte) /\ Ascending(todo') /\ UpTo(todo', printed + n)
      /\ \A i \in 1 .. Len(todo') : todo'[i].n > printed
      /\ ~ stdioInit => todo' = <<>>
  <2>1. CASE stdioInit
    <3>1. todo' = Bytes("bm", printed + 1, printed + n)
      BY <1>1, <2>1 DEF Printf
    <3>. QED BY <1>3, <2>1, <3>1, PrintIs
  <2>2. CASE ~ stdioInit
    <3>1. todo' = <<>>
      BY <2>2 DEF Printf
    <3>. QED BY <3>1 DEF Ascending, UpTo
  <2>. QED BY <2>1, <2>2
<1>6. p \in Readers
  OBVIOUS
<1>7. PrintTexts'
  <2>1. said' \in Seq(Byte)
    BY <1>2, <1>5, Joined DEF PrintInv, PrintTexts
  <2>. QED BY <1>2, <2>1 DEF PrintInv, PrintTexts
<1>8. InOrder'
  <2>1. said \in Seq(Byte) /\ lost \in Seq(Byte) /\ Ascending(said) /\ UpTo(said, printed) /\ UpTo(lost, printed)
    BY DEF PrintInv, PrintTexts, InOrder
  <2>2. UpTo(said, printed + n) /\ UpTo(lost, printed + n)
    BY <1>3, <2>1, UpToMore
  <2>3. Ascending(said \o todo')
    BY <1>3, <1>5, <2>1, AscendingJoined
  <2>4. UpTo(said \o todo', printed + n)
    BY <1>5, <2>1, <2>2, UpToJoined
  <2>. QED BY <1>1, <1>2, <2>2, <2>3, <2>4 DEF InOrder
<1>9. Quiet'
  BY <1>2, <1>5 DEF PrintInv, Quiet
<1>10. Intact(p)'
  <2>1. /\ got \in Seq(Byte) /\ said \in Seq(Byte) /\ lost \in Seq(Byte) /\ Flat(toLinux) \in Seq(Byte)
        /\ Rest(fifo, rd[p]) \in Seq(Byte) /\ UpTo(lost, printed)
    BY <1>6, QueueIs DEF PrintInv, InOrder
  <2>2. PICK r \in Seq(Byte), f \in Seq(Byte), t \in Seq(Byte) :
             r = Rest(fifo, rd[p]) /\ f = Flat(toLinux) /\ t = todo'
    BY <1>5, <2>1
  <2>3. Without(said \o t, BytesOf(lost)) = Cat(Without(said, BytesOf(lost)), t)
    BY <1>3, <1>5, <2>1, <2>2, KeepPrinted DEF Cat
  <2>4. Cat(got, Cat(Cat(r, f), <<>>)) = Without(said, BytesOf(lost))
    BY <1>4, <2>2 DEF PrintInv, Intact
  <2>5. Cat(got, Cat(Cat(r, f), t)) = Cat(Cat(got, Cat(Cat(r, f), <<>>)), t)
    BY <2>1, PutTogether
  <2>6. Cat(got, Cat(Cat(r, f), t)) = Without(said', BytesOf(lost'))
    BY ONLY <1>2, <2>2, <2>3, <2>4, <2>5
  <2>. QED BY ONLY <1>2, <2>2, <2>6 DEF Intact
<1>. QED BY <1>7, <1>8, <1>9, <1>10 DEF PrintInv

\* _write: a chunk goes from what is yet to be sent to the bus.
LEMMA SendStep == ASSUME NEW p, Readers = {p}, Types, PrintInv(p), SendChunk PROVE PrintInv(p)'
<1> DEFINE n == Least(Len(todo), Chunk)
<1>1. UNCHANGED <<printed, said, stdioInit, lost, toBm, probe, fifo, wr, rd, got>> /\ todo # <<>>
  BY DEF SendChunk, modVars
<1>2. toLinux' = Append(toLinux, Front(todo, n)) /\ todo' = Rest(todo, n)
  BY DEF SendChunk
<1>3. p \in Readers
  OBVIOUS
<1>4. PrintTexts' /\ InOrder' /\ Quiet'
  BY <1>1 DEF PrintInv, PrintTexts, InOrder, Quiet
<1>5. n \in 0 .. Len(todo)
  <2>1. Len(todo) \in Nat /\ Chunk \in Nat
    BY StdioAssumption DEF Chunk, Types, Texts
  <2>2. n \in Nat /\ n <= Len(todo)
    BY <2>1, LeastIs
  <2>. QED BY <2>1, <2>2
<1>6. /\ todo \in Seq(Byte) /\ toLinux \in Seq(Seq(Byte)) /\ got \in Seq(Byte)
      /\ Flat(toLinux) \in Seq(Byte) /\ Rest(fifo, rd[p]) \in Seq(Byte)
  BY <1>3, QueueIs DEF PrintInv, Types, Texts
<1> HIDE DEF n
<1>7. PICK a \in Seq(Byte), b \in Seq(Byte) : a = Front(todo, n) /\ b = Rest(todo, n) /\ Cat(a, b) = todo
  BY <1>5, <1>6, Split DEF Cat
<1>8. Flat(toLinux') = Cat(Flat(toLinux), a)
  BY <1>2, <1>6, <1>7, FlatAppend DEF Cat
<1>9. PICK r \in Seq(Byte), f \in Seq(Byte) : r = Rest(fifo, rd[p]) /\ f = Flat(toLinux)
  BY <1>6
<1>10. Cat(Cat(r, Cat(f, a)), b) = Cat(Cat(r, f), Cat(a, b))
  <2>1. Cat(r, f) \in Seq(Byte)
    BY CatType
  <2>. QED BY <2>1, CatAssoc
<1>11. Intact(p)'
  BY <1>1, <1>2, <1>7, <1>8, <1>9, <1>10 DEF PrintInv, Intact
<1>. QED BY <1>4, <1>11 DEF PrintInv

\* bm_stdio_rpmsg_cb: what kfifo_in has no room for is lost, the end of the message.
LEMMA TakeStep == ASSUME NEW p, Readers = {p}, Types, PrintInv(p), Callback PROVE PrintInv(p)'
<1> DEFINE m == Head(toLinux)
           n == Accepted(m)
<1>1. UNCHANGED <<printed, todo, said, stdioInit, toBm, probe, wr, rd, got>> /\ toLinux # <<>>
  BY DEF Callback, fwVars
<1>2. /\ fifo' = fifo \o Front(m, n) /\ lost' = lost \o Rest(m, n) /\ toLinux' = Tail(toLinux)
  BY DEF Callback
<1>3. p \in Readers
  OBVIOUS
<1>4. /\ todo \in Seq(Byte) /\ toLinux \in Seq(Seq(Byte)) /\ got \in Seq(Byte)
      /\ Rest(fifo, rd[p]) \in Seq(Byte) /\ fifo \in Seq(Byte) /\ rd[p] \in 0 .. Len(fifo)
      /\ said \in Seq(Byte) /\ lost \in Seq(Byte)
  BY <1>3, QueueIs DEF PrintInv, Types, Texts
<1>5. m \in Seq(Byte) /\ Tail(toLinux) \in Seq(Seq(Byte))
  BY <1>1, <1>4
<1>6. n \in 0 .. Len(m)
  <2>1. Len(m) \in Nat /\ FifoSize - Len(fifo) \in Nat
    BY <1>5, StdioAssumption DEF Types, TypeOK, Texts
  <2>2. n \in Nat /\ n <= Len(m)
    BY <2>1, LeastIs DEF Accepted
  <2>. QED BY <2>1, <2>2
<1>7. Flat(toLinux) = Cat(m, Flat(Tail(toLinux))) /\ Flat(Tail(toLinux)) \in Seq(Byte)
  BY <1>1, <1>4, <1>5, FlatTail, FlatType DEF Cat
<1> HIDE DEF m, n
<1>8. PICK a \in Seq(Byte), b \in Seq(Byte) : a = Front(m, n) /\ b = Rest(m, n) /\ Cat(a, b) = m
  BY <1>5, <1>6, Split DEF Cat
<1>9. PICK r \in Seq(Byte), c \in Seq(Byte) : r = Rest(fifo, rd[p]) /\ c = Flat(Tail(toLinux))
  BY <1>4, <1>7
<1>10. Rest(fifo', rd[p]) = Cat(r, a)
  BY <1>2, <1>4, <1>8, <1>9, RestJoined DEF Cat
<1>11. Cat(got, Cat(Cat(r, Cat(Cat(a, b), c)), todo)) = Without(said, BytesOf(lost))
  BY <1>7, <1>8, <1>9 DEF PrintInv, Intact
<1>12. /\ Cat(got, Cat(Cat(Cat(r, a), c), todo)) = Without(said, BytesOf(Cat(lost, b)))
       /\ UpTo(Cat(lost, b), printed)
  <2>1. Ascending(said) /\ UpTo(said, printed) /\ UpTo(lost, printed)
    BY DEF PrintInv, InOrder
  <2>2. OnTheWay(got, r, a, b, c, todo, said, lost, printed)
    BY <1>4, <1>11, <2>1 DEF OnTheWay
  <2>. QED BY ONLY <2>2, DropMiddle
<1>13. lost' = Cat(lost, b) /\ lost' \in Seq(Byte)
  BY <1>2, <1>4, <1>8, Joined DEF Cat
<1>14. Intact(p)'
  BY <1>1, <1>2, <1>9, <1>10, <1>12, <1>13 DEF Intact
<1>15. InOrder'
  BY <1>1, <1>12, <1>13 DEF PrintInv, InOrder
<1>16. PrintTexts'
  <2>1. Len(fifo') = Len(fifo) + Len(a) /\ Len(a) \in Nat /\ Len(fifo) \in Nat
    BY <1>2, <1>4, <1>8, Joined
  <2>2. rd'[p] <= Len(fifo')
    BY <1>1, <1>4, <2>1
  <2>. QED BY <1>1, <1>13, <2>2 DEF PrintInv, PrintTexts
<1>17. Quiet'
  BY <1>1 DEF PrintInv, Quiet
<1>. QED BY <1>14, <1>15, <1>16, <1>17 DEF PrintInv

\* dev_read: the copy, and the move of the out index.
LEMMA ReadStep == ASSUME NEW p, Readers = {p}, Types, PrintInv(p), Read(p) PROVE PrintInv(p)'
<1>1. p \in Readers
  OBVIOUS
<1>2. /\ todo \in Seq(Byte) /\ Flat(toLinux) \in Seq(Byte) /\ got \in Seq(Byte)
      /\ fifo \in Seq(Byte) /\ rd[p] \in 0 .. Len(fifo) /\ Rest(fifo, rd[p]) \in Seq(Byte)
      /\ rd \in [Readers -> 0 .. FifoSize]
  BY <1>1, QueueIs DEF PrintInv, Types, TypeOK, Texts
<1>3. UNCHANGED <<printed, todo, said, stdioInit, toBm, toLinux, probe, wr, lost>>
  BY DEF Read, ReadCopy, ReadTake, fwVars
<1>4. InOrder'
  BY <1>3 DEF PrintInv, InOrder
<1>5. CASE ReadCopy(p)
  <2>1. PICK n \in 1 .. Len(fifo) : got' = got \o Front(fifo, n) /\ rd' = [rd EXCEPT ![p] = n]
    BY <1>5 DEF ReadCopy
  <2>2. fifo' = fifo /\ rd[p] = 0 /\ rd'[p] = n /\ n \in 0 .. Len(fifo)
    BY <1>2, <1>5, <2>1 DEF ReadCopy
  <2>3. PICK a \in Seq(Byte), b \in Seq(Byte) : a = Front(fifo, n) /\ b = Rest(fifo, n) /\ Cat(a, b) = fifo
    <3>1. /\ Front(fifo, n) \in Seq(Byte) /\ Rest(fifo, n) \in Seq(Byte)
          /\ Front(fifo, n) \o Rest(fifo, n) = fifo
      BY <1>2, <2>2, Split
    <3>. QED BY <3>1 DEF Cat
  <2>4. Rest(fifo, rd[p]) = fifo
    BY <1>2, <2>2, RestAll
  <2>5. PICK f \in Seq(Byte) : f = Flat(toLinux)
    BY <1>2
  <2>6. Cat(got, Cat(Cat(Cat(a, b), f), todo)) = Cat(Cat(got, a), Cat(Cat(b, f), todo))
    BY <1>2, PutTogether
  <2>7. Cat(got, Cat(Cat(Cat(a, b), f), todo)) = Without(said, BytesOf(lost))
    BY <2>3, <2>4, <2>5 DEF PrintInv, Intact
  <2>8. got' = Cat(got, a) /\ got' \in Seq(Byte)
    BY <1>2, <2>1, <2>3, Joined DEF Cat
  <2>9. Intact(p)'
    BY <1>3, <2>2, <2>3, <2>5, <2>6, <2>7, <2>8 DEF Intact
  <2>10. PrintTexts'
    BY <1>3, <2>2, <2>8 DEF PrintInv, PrintTexts
  <2>11. Quiet'
    BY <1>3, <2>2 DEF PrintInv, Quiet
  <2>. QED BY <1>4, <2>9, <2>10, <2>11 DEF PrintInv
<1>6. CASE ReadTake(p)
  <2>1. fifo' = Rest(fifo, rd[p]) /\ rd' = [rd EXCEPT ![p] = 0] /\ got' = got
    BY <1>6 DEF ReadTake, Taken
  <2>2. rd'[p] = 0 /\ fifo' \in Seq(Byte)
    BY <1>2, <2>1
  <2>3. Rest(fifo', rd'[p]) = Rest(fifo, rd[p])
    BY <2>1, <2>2, RestAll
  <2>4. Intact(p)'
    BY <1>3, <2>1, <2>3 DEF PrintInv, Intact
  <2>5. PrintTexts'
    <3>1. Len(fifo') \in Nat
      BY <2>2
    <3>. QED BY <1>3, <2>1, <2>2, <3>1 DEF PrintInv, PrintTexts
  <2>6. Quiet'
    <3>1. probe # "none"
      <4>1. CASE probe = "none"
        <5>1. fifo = <<>>
          BY <4>1 DEF PrintInv, Quiet
        <5>. QED BY <1>2, <1>6, <5>1 DEF ReadTake
      <4>. QED BY <4>1
    <3>. QED BY <1>3, <3>1 DEF Quiet
  <2>. QED BY <1>4, <2>4, <2>5, <2>6 DEF PrintInv
<1>. QED BY <1>5, <1>6 DEF Read

\* Everything else leaves the way of a print alone; the device is registered before
\* anything is on it.
LEMMA OtherStep ==
    ASSUME NEW p, Readers = {p}, Types, PrintInv(p),
           \/ ToTrace \/ Handle \/ Probe
           \/ \E w \in Writers : WriteStart(w) \/ Writing(w) \/ WriteFails(w)
    PROVE  PrintInv(p)'
<1>1. UNCHANGED <<printed, todo, said, toLinux, rd, got, lost>>
  BY DEF ToTrace, Handle, Probe, Register, SayHello, WriteStart, Writing, WriteCopy, WriteSend, WriteFails, WriteFaults, WriteUnsent, fwVars, modVars
<1>2. fifo' = fifo
  <2>1. CASE Register
    BY <2>1 DEF Register, PrintInv, Quiet
  <2>2. CASE ~ Register
    BY <2>2 DEF ToTrace, Handle, Probe, SayHello, WriteStart, Writing, WriteCopy, WriteSend, WriteFails, WriteFaults, WriteUnsent, fwVars, modVars
  <2>. QED BY <2>1, <2>2
<1>3. Quiet'
  <2> SUFFICES ASSUME probe' = "none" PROVE Quiet'
    BY DEF Quiet
  <2>1. CASE ToTrace
    BY <2>1 DEF ToTrace, PrintInv, Quiet, modVars
  <2>2. CASE Handle
    BY <2>2 DEF Handle, PrintInv, Quiet, modVars
  <2>3. CASE Probe
    BY <2>3 DEF Probe, Register, SayHello
  <2>4. ASSUME NEW w \in Writers, WriteStart(w) \/ Writing(w) \/ WriteFails(w) PROVE FALSE
    BY <2>4 DEF WriteStart, Writing, WriteCopy, WriteSend, WriteFails, WriteFaults, WriteUnsent, PrintInv, Quiet
  <2>. QED BY <2>1, <2>2, <2>3, <2>4
<1>4. PrintTexts' /\ InOrder' /\ Intact(p)'
  BY <1>1, <1>2 DEF PrintInv, PrintTexts, InOrder, Intact
<1>. QED BY <1>3, <1>4 DEF PrintInv

LEMMA PrintInit == ASSUME NEW p, Readers = {p}, Init PROVE PrintInv(p)
<1>1. /\ printed = 0 /\ todo = <<>> /\ said = <<>> /\ ~ stdioInit /\ toLinux = <<>> /\ toBm = <<>> /\ fifo = <<>>
      /\ lost = <<>> /\ got = <<>> /\ rd[p] = 0 /\ \A w \in Writers : wr[w].pc = "idle"
  BY DEF Init, NotWriting
<1>2. PrintTexts /\ InOrder /\ Quiet
  BY <1>1 DEF PrintTexts, InOrder, Quiet, Ascending, UpTo
<1>3. Rest(<<>>, 0) = <<>> /\ Cat(<<>>, <<>>) = <<>>
  BY EmptySeq, RestAll, ConcatEmptySeq DEF Cat
<1>4. Intact(p)
  BY <1>1, <1>3, FlatEmpty, WithoutEmpty DEF Intact
<1>. QED BY <1>2, <1>4 DEF PrintInv

LEMMA PrintStep == ASSUME NEW p, Readers = {p}, Types, PrintInv(p), [Next]_vars PROVE PrintInv(p)'
<1>1. CASE UNCHANGED vars
  BY <1>1 DEF vars, fwVars, modVars, PrintInv, PrintTexts, InOrder, Quiet, Intact
<1>2. CASE \E q \in Readers : Read(q)
  BY <1>2, ReadStep
<1>. QED BY <1>1, <1>2, PrintfStep, SendStep, TakeStep, OtherStep DEF Next, Firmware, Users

\* With one process that reads, what leaves _write for the channel reaches it once and
\* in order, but for the ends of messages that bm2lin_fifo had no room for: however
\* long the prints are, wherever the callback or the other half of a dev_read comes.
THEOREM PrintIntactHolds == ASSUME NEW p, Readers = {p} PROVE Spec => []PrintIntact
<1>1. Init => PrintInv(p)
  BY PrintInit
<1>2. Types /\ PrintInv(p) /\ [Next]_vars => PrintInv(p)'
  BY PrintStep
<1>3. PrintInv(p) => PrintIntact
  BY DEF PrintInv, Intact, PrintIntact, OnItsWay, Cat
<1>. QED BY <1>1, <1>2, <1>3, InitType, StepType, PTL DEF Spec

(***************************************************************************)
(* What dev_write has reported as written is what the firmware takes.      *)
(***************************************************************************)
NoHello(m) == \A k \in 1 .. Len(m) : m[k] # Hello[1]

\* The first message is the one of the probe, and the only one that is not input; the
\* device is used after it.
Greeted == /\ probe # "done" => /\ ~stdioInit /\ toBm = <<>>
                                /\ \A w \in Writers : wr[w].pc = "idle"
           /\ probe = "done" /\ ~stdioInit => toBm # <<>> /\ toBm[1] = Hello
           /\ \A i \in 1 .. Len(toBm) : (i > 1 \/ stdioInit) => NoHello(toBm[i])

\* A write that has been copied is still in the static buffer when it is sent.
Underway(w) == /\ wr[w].pc # "idle" => wr[w].first > 0 /\ wr[w].len \in Writes
               /\ wr[w].pc = "send"
                     => Front(txBuf, wr[w].len) = Bytes(w, wr[w].first, wr[w].first + wr[w].len - 1)

InputTexts == heard \in Seq(Byte) /\ told \in Seq(Byte)

Taking == Cat(heard, Without(Flat(toBm), {Hello[1]})) = told

InputInv(w) == InputTexts /\ Greeted /\ Underway(w) /\ Taking

\* One process writes, after the probe, and never more than a buffer at a time.
OneWriter(w) == Writers = {w} /\ ~Early /\ \A n \in Writes : n <= TxBufSize

LEMMA FrontJoined == ASSUME NEW S, NEW s \in Seq(S), NEW t \in Seq(S) PROVE Front(s \o t, Len(s)) = s
BY DEF Front

LEMMA NoHelloKept == ASSUME NEW m \in Seq(Byte), NoHello(m) PROVE Without(m, {Hello[1]}) = m
<1>1. \A i \in 1 .. Len(m) : m[i] \notin {Hello[1]}
  BY DEF NoHello
<1>. QED BY <1>1, WithoutNone

LEMMA HelloGone == Without(Hello, {Hello[1]}) = <<>>
<1>1. \A i \in 1 .. Len(Hello) : Hello[i] \in {Hello[1]}
  BY HelloIs
<1>. QED BY <1>1, HelloIs, WithoutAll

LEMMA WrittenIs ==
    ASSUME NEW w \in Writers, NEW a \in Nat, a > 0, NEW k \in Nat
    PROVE  Bytes(w, a, a + k - 1) \in Seq(Byte) /\ Len(Bytes(w, a, a + k - 1)) = k /\ NoHello(Bytes(w, a, a + k - 1))
<1>1. w \in {"bm"} \cup Writers
  OBVIOUS
<1>2. Bytes(w, a, a + k - 1) \in Seq(Byte) /\ Len(Bytes(w, a, a + k - 1)) = k
  BY <1>1, BytesAre
<1>3. (a + k - 1) - a + 1 = k
  OBVIOUS
<1>4. \A i \in 1 .. k : Bytes(w, a, a + k - 1)[i] = [from |-> w, n |-> a + i - 1]
  BY <1>3 DEF Bytes
<1>5. ASSUME NEW i \in 1 .. k PROVE [from |-> w, n |-> a + i - 1] # Hello[1]
  <2>1. Hello[1] = [from |-> "bm", n |-> 0]
    BY DEF Hello
  <2>2. a + i - 1 # 0
    OBVIOUS
  <2>3. [from |-> w, n |-> a + i - 1].n # Hello[1].n
    BY <2>1, <2>2
  <2>. QED BY <2>3
<1>. QED BY <1>2, <1>4, <1>5 DEF NoHello

LEMMA InputQueueIs ==
    ASSUME Types, InputTexts
    PROVE  /\ toBm \in Seq(Seq(Byte)) /\ Flat(toBm) \in Seq(Byte) /\ Without(Flat(toBm), {Hello[1]}) \in Seq(Byte)
           /\ heard \in Seq(Byte) /\ told \in Seq(Byte)
<1>1. Flat(toBm) \in Seq(Byte)
  BY FlatType DEF Types, Texts
<1>2. Without(Flat(toBm), {Hello[1]}) \in Seq(Byte)
  BY <1>1, WithoutType
<1>. QED BY <1>1, <1>2 DEF Types, Texts, InputTexts

\* stdio_msg_handler: the first message is the greeting, every other one is input.
LEMMA HandleStep == ASSUME NEW w, OneWriter(w), Types, InputInv(w), Handle PROVE InputInv(w)'
<1> DEFINE m == Head(toBm)
           t == Tail(toBm)
           D == {Hello[1]}
<1>1. UNCHANGED <<probe, wr, txBuf, told>> /\ toBm # <<>> /\ stdioInit' = TRUE /\ toBm' = t
  BY DEF Handle, modVars
<1>2. heard' = heard \o Input(m)
  BY DEF Handle
<1>3. /\ toBm \in Seq(Seq(Byte)) /\ heard \in Seq(Byte) /\ told \in Seq(Byte)
  BY InputQueueIs DEF InputInv
<1>4. m \in Seq(Byte) /\ t \in Seq(Seq(Byte)) /\ m = toBm[1]
  BY <1>1, <1>3
<1>5. Flat(toBm) = m \o Flat(t) /\ Flat(t) \in Seq(Byte)
  BY <1>1, <1>3, <1>4, FlatTail, FlatType
<1>6. probe = "done"
  BY <1>1 DEF InputInv, Greeted
<1> HIDE DEF m, t, D
<1>7. Without(Flat(toBm), D) = Cat(Without(m, D), Without(Flat(t), D)) /\ Without(Flat(t), D) \in Seq(Byte)
  <2>1. PICK f \in Seq(Byte), v \in Seq(Byte) : f = Flat(t) /\ v = m
    BY <1>4, <1>5
  <2>2. Without(v \o f, D) = Without(v, D) \o Without(f, D)
    BY WithoutConcat
  <2>3. Without(f, D) \in Seq(Byte)
    BY WithoutType
  <2>. QED BY <1>5, <2>1, <2>2, <2>3 DEF Cat
<1>8. heard' \in Seq(Byte) /\ Cat(heard', Without(Flat(t), D)) = Cat(heard, Without(Flat(toBm), D))
  <2>1. PICK x \in Seq(Byte) : x = Without(Flat(t), D)
    BY <1>7
  <2>2. CASE stdioInit
    <3>1. NoHello(m)
      <4>1. 1 \in 1 .. Len(toBm)
        BY <1>1, <1>3
      <4>. QED BY <1>4, <2>2, <4>1 DEF InputInv, Greeted
    <3>2. Without(m, D) = m
      BY <1>4, <3>1, NoHelloKept DEF D
    <3>3. heard' = Cat(heard, m)
      BY <1>2, <2>2 DEF Input, Cat
    <3>4. Cat(Cat(heard, m), x) = Cat(heard, Cat(m, x)) /\ Cat(heard, m) \in Seq(Byte)
      <4>1. PICK g \in Seq(Byte), v \in Seq(Byte) : g = heard /\ v = m
        BY <1>3, <1>4
      <4>2. Cat(Cat(g, v), x) = Cat(g, Cat(v, x)) /\ Cat(g, v) \in Seq(Byte)
        BY CatAssoc, CatType
      <4>. QED BY <4>1, <4>2
    <3>. QED BY <1>7, <2>1, <3>2, <3>3, <3>4
  <2>3. CASE ~ stdioInit
    <3>1. m = Hello
      BY <1>4, <1>6, <2>3 DEF InputInv, Greeted
    <3>2. Without(m, D) = <<>>
      BY <3>1, HelloGone DEF D
    <3>3. heard' = heard
      <4>1. Input(m) = <<>>
        BY <2>3 DEF Input
      <4>2. heard \o <<>> = heard
        BY <1>3, ConcatEmptySeq
      <4>. QED BY <1>2, <4>1, <4>2
    <3>4. Cat(<<>>, x) = x
      BY ConcatEmptySeq DEF Cat
    <3>. QED BY <1>3, <1>7, <2>1, <3>2, <3>3, <3>4
  <2>. QED BY <2>2, <2>3
<1>9. Taking'
  BY <1>1, <1>8 DEF InputInv, Taking, D
<1>10. Greeted'
  <2>1. \A i \in 1 .. Len(t) : t[i] = toBm[i + 1] /\ i + 1 \in 1 .. Len(toBm) /\ i + 1 > 1
    BY <1>1, <1>3 DEF t
  <2>2. \A i \in 1 .. Len(t) : NoHello(t[i])
    BY <2>1 DEF InputInv, Greeted
  <2>. QED BY <1>1, <1>6, <2>2 DEF Greeted
<1>11. Underway(w)'
  BY <1>1 DEF InputInv, Underway
<1>12. InputTexts'
  BY <1>1, <1>3, <1>8 DEF InputTexts
<1>. QED BY <1>9, <1>10, <1>11, <1>12 DEF InputInv

\* bm_stdio_probe: the greeting is sent while nobody may write.
LEMMA HelloStep == ASSUME NEW w, OneWriter(w), Types, InputInv(w), SayHello PROVE InputInv(w)'
<1>1. /\ UNCHANGED <<stdioInit, heard, wr, txBuf, told>> /\ toBm' = Append(toBm, Hello) /\ probe' = "done"
      /\ probe # "done"
  BY DEF SayHello, fwVars
<1>2. toBm = <<>> /\ ~ stdioInit
  BY <1>1 DEF InputInv, Greeted
<1>3. Flat(toBm') = Hello /\ Flat(toBm) = <<>>
  BY <1>1, <1>2, FlatEmpty, FlatOne
<1>4. Taking'
  BY <1>1, <1>3, HelloGone, WithoutEmpty DEF InputInv, Taking
<1>5. toBm' # <<>> /\ toBm'[1] = Hello /\ Len(toBm') = 1
  BY <1>1, <1>2, HelloIs
<1>6. Greeted'
  BY <1>1, <1>2, <1>5 DEF Greeted
<1>. QED BY <1>1, <1>4, <1>6 DEF InputInv, InputTexts, Underway

LEMMA LengthIs == ASSUME NEW w, OneWriter(w), Types, Underway(w), wr[w].pc # "idle"
                  PROVE  /\ w \in Writers /\ wr[w].first \in Nat /\ wr[w].first > 0
                         /\ wr[w].len \in Nat /\ N(w) = wr[w].len
<1>1. w \in Writers /\ wr[w].first > 0 /\ wr[w].len \in Writes
  BY DEF OneWriter, Underway
<1>2. wr[w].first \in Nat /\ wr[w].len \in Nat /\ wr[w].len <= TxBufSize /\ TxBufSize \in Nat
  BY <1>1, StdioAssumption DEF Types, TypeOK, OneWriter
<1>. QED BY <1>1, <1>2 DEF N, Least

\* dev_write, copy_from_user: nobody else uses the static buffer.
LEMMA CopyStep == ASSUME NEW w, OneWriter(w), Types, InputInv(w), WriteCopy(w) PROVE InputInv(w)'
<1>1. UNCHANGED <<stdioInit, heard, toBm, probe, told>> /\ wr' = [wr EXCEPT ![w].pc = "send"] /\ wr[w].pc = "copy"
  BY DEF WriteCopy, fwVars
<1>2. w \in Writers /\ wr[w].first \in Nat /\ wr[w].first > 0 /\ wr[w].len \in Nat /\ N(w) = wr[w].len
  BY <1>1, LengthIs DEF InputInv
<1>3. wr'[w].first = wr[w].first /\ wr'[w].len = wr[w].len
  BY <1>1, <1>2 DEF Types, TypeOK
<1>4. PICK a \in Nat, k \in Nat : a = wr[w].first /\ k = wr[w].len /\ a > 0
  BY <1>2
<1>5. Bytes(w, a, a + k - 1) \in Seq(Byte) /\ Len(Bytes(w, a, a + k - 1)) = k
  BY <1>2, <1>4, WrittenIs
<1>6. Rest(txBuf, k) \in Seq(Byte)
  BY RestIs DEF Types, Texts
<1>7. Front(txBuf', k) = Bytes(w, a, a + k - 1)
  <2>1. txBuf' = Bytes(w, a, a + k - 1) \o Rest(txBuf, k)
    BY <1>2, <1>4 DEF WriteCopy
  <2>. QED BY <1>5, <1>6, <2>1, FrontJoined
<1>8. Underway(w)'
  BY <1>1, <1>2, <1>3, <1>4, <1>7 DEF InputInv, Underway
<1>9. Greeted'
  <2>1. probe = "done"
    BY <1>1, <1>2 DEF InputInv, Greeted
  <2>. QED BY <1>1, <2>1 DEF InputInv, Greeted
<1>. QED BY <1>1, <1>8, <1>9 DEF InputInv, InputTexts, Taking

\* dev_write, rpmsg_send: what is reported as written joins what is on its way.
LEMMA WriteSendStep == ASSUME NEW w, OneWriter(w), Types, InputInv(w), WriteSend(w) PROVE InputInv(w)'
<1> DEFINE D == {Hello[1]}
<1>1. /\ UNCHANGED <<stdioInit, heard, probe, txBuf>> /\ wr' = [wr EXCEPT ![w] = NotWriting] /\ wr[w].pc = "send"
      /\ toBm' = Append(toBm, Front(txBuf, N(w)))
      /\ told' = told \o Bytes(w, wr[w].first, wr[w].first + wr[w].len - 1)
  BY DEF WriteSend, fwVars
<1>2. w \in Writers /\ wr[w].first \in Nat /\ wr[w].first > 0 /\ wr[w].len \in Nat /\ N(w) = wr[w].len
  BY <1>1, LengthIs DEF InputInv
<1>3. PICK a \in Nat, k \in Nat : a = wr[w].first /\ k = wr[w].len /\ a > 0
  BY <1>2
<1>4. PICK c : c = Bytes(w, a, a + k - 1)
  OBVIOUS
<1>5. c \in Seq(Byte) /\ NoHello(c)
  BY <1>2, <1>3, <1>4, WrittenIs
<1>6. Front(txBuf, N(w)) = c
  BY <1>1, <1>2, <1>3, <1>4 DEF InputInv, Underway
<1>7. toBm' = Append(toBm, c) /\ told' = told \o c
  BY <1>1, <1>3, <1>4, <1>6
<1>8. /\ toBm \in Seq(Seq(Byte)) /\ Flat(toBm) \in Seq(Byte) /\ Without(Flat(toBm), {Hello[1]}) \in Seq(Byte)
      /\ heard \in Seq(Byte) /\ told \in Seq(Byte)
  BY InputQueueIs DEF InputInv
<1> HIDE DEF D
<1>9. Without(Flat(toBm'), D) = Cat(Without(Flat(toBm), D), c)
  <2>1. PICK f \in Seq(Byte) : f = Flat(toBm)
    BY <1>8
  <2>2. Flat(toBm') = f \o c
    BY <1>5, <1>7, <1>8, <2>1, FlatAppend
  <2>3. Without(f \o c, D) = Without(f, D) \o Without(c, D)
    BY <1>5, WithoutConcat
  <2>4. Without(c, D) = c
    BY <1>5, NoHelloKept DEF D
  <2>. QED BY <2>1, <2>2, <2>3, <2>4 DEF Cat
<1>10. Taking'
  <2>1. PICK x \in Seq(Byte) : x = Without(Flat(toBm), D)
    BY <1>8 DEF D
  <2>2. Cat(heard, Cat(x, c)) = Cat(Cat(heard, x), c)
    BY <1>5, <1>8, CatAssoc
  <2>3. Cat(heard, x) = told
    BY <2>1 DEF InputInv, Taking, D
  <2>. QED BY <1>1, <1>7, <1>9, <2>1, <2>2, <2>3 DEF Taking, Cat, D
<1>11. Greeted'
  <2>1. probe = "done"
    BY <1>1, <1>2 DEF InputInv, Greeted
  <2>2. /\ Len(toBm') = Len(toBm) + 1 /\ Len(toBm) \in Nat /\ toBm'[Len(toBm) + 1] = c
        /\ \A i \in 1 .. Len(toBm) : toBm'[i] = toBm[i]
    BY <1>5, <1>7, <1>8
  <2>3. \A i \in 1 .. Len(toBm') : (i > 1 \/ stdioInit) => NoHello(toBm'[i])
    BY <1>5, <2>2 DEF InputInv, Greeted
  <2>4. ~ stdioInit => toBm' # <<>> /\ toBm'[1] = Hello
    <3> SUFFICES ASSUME ~ stdioInit PROVE toBm' # <<>> /\ toBm'[1] = Hello
      OBVIOUS
    <3>1. toBm # <<>> /\ toBm[1] = Hello
      BY <2>1 DEF InputInv, Greeted
    <3>2. 1 \in 1 .. Len(toBm)
      BY <1>8, <3>1
    <3>3. toBm'[1] = Hello
      BY <2>2, <3>1, <3>2
    <3>4. Len(toBm') # 0
      BY <2>2
    <3>5. Len(<<>>) = 0
      OBVIOUS
    <3>. QED BY <3>3, <3>4, <3>5
  <2>. QED BY <1>1, <2>1, <2>3, <2>4 DEF Greeted
<1>12. Underway(w)'
  <2>1. wr'[w].pc = "idle"
    BY <1>1, <1>2 DEF NotWriting, Types, TypeOK
  <2>. QED BY <2>1 DEF Underway
<1>13. InputTexts'
  BY <1>1, <1>5, <1>7, <1>8, Joined DEF InputTexts
<1>. QED BY <1>10, <1>11, <1>12, <1>13 DEF InputInv

\* A write that begins, and one that fails.
LEMMA BeginStep ==
    ASSUME NEW w, OneWriter(w), Types, InputInv(w), WriteStart(w) \/ WriteFails(w) PROVE InputInv(w)'
<1>1. UNCHANGED <<stdioInit, heard, toBm, probe, told>> /\ (WriteStart(w) => txBuf' = txBuf)
  BY DEF WriteStart, WriteFails, WriteFaults, WriteUnsent, fwVars
<1>2. w \in Writers /\ Writers = {w}
  BY DEF OneWriter
<1>3. probe = "done"
  BY <1>2 DEF InputInv, Greeted, WriteStart, WriteFails, WriteFaults, WriteUnsent, OneWriter
<1>4. Underway(w)'
  <2>1. CASE WriteStart(w)
    <3>1. PICK len \in Writes : wr' = [wr EXCEPT ![w] = [pc |-> "copy", first |-> typed[w] + 1, len |-> len]]
      BY <2>1 DEF WriteStart
    <3>2. wr'[w] = [pc |-> "copy", first |-> typed[w] + 1, len |-> len] /\ typed[w] \in Nat
      BY <1>2, <3>1 DEF Types, TypeOK
    <3>. QED BY <3>2 DEF Underway
  <2>2. CASE WriteFails(w)
    <3>1. wr'[w].pc = "idle"
      BY <1>2, <2>2 DEF WriteFails, WriteFaults, WriteUnsent, NotWriting, Types, TypeOK
    <3>. QED BY <3>1 DEF Underway
  <2>. QED BY <2>1, <2>2
<1>. QED BY <1>1, <1>3, <1>4 DEF InputInv, InputTexts, Greeted, Taking

LEMMA InputInit == ASSUME NEW w, OneWriter(w), Init PROVE InputInv(w)
<1>1. /\ heard = <<>> /\ told = <<>> /\ toBm = <<>> /\ ~ stdioInit /\ probe = "none"
      /\ \A v \in Writers : wr[v].pc = "idle"
  BY DEF Init, NotWriting
<1>2. Taking
  <2>1. Cat(<<>>, <<>>) = <<>>
    BY EmptySeq, ConcatEmptySeq DEF Cat
  <2>. QED BY <1>1, <2>1, FlatEmpty, WithoutEmpty DEF Taking
<1>. QED BY <1>1, <1>2 DEF InputInv, InputTexts, Greeted, Underway, OneWriter

LEMMA InputStep == ASSUME NEW w, OneWriter(w), Types, InputInv(w), [Next]_vars PROVE InputInv(w)'
<1>1. ASSUME UNCHANGED <<stdioInit, heard, toBm, wr, txBuf, told>>, probe' = probe \/ Register PROVE InputInv(w)'
  BY <1>1 DEF InputInv, InputTexts, Greeted, Underway, Taking, Register
<1>2. CASE Printf \/ SendChunk \/ ToTrace \/ Register \/ Callback \/ UNCHANGED vars
  BY <1>1, <1>2 DEF Printf, SendChunk, ToTrace, Register, Callback, vars, fwVars, modVars
<1>3. ASSUME NEW p \in Readers, Read(p) PROVE InputInv(w)'
  BY <1>1, <1>3 DEF Read, ReadCopy, ReadTake, fwVars
<1>4. ASSUME NEW v \in Writers, WriteStart(v) \/ Writing(v) \/ WriteFails(v) PROVE InputInv(w)'
  <2>1. v = w
    BY DEF OneWriter
  <2>. QED BY <1>4, <2>1, CopyStep, WriteSendStep, BeginStep DEF Writing
<1>. QED BY <1>2, <1>3, <1>4, HandleStep, HelloStep DEF Next, Firmware, Probe, Users

\* What a process has been told is written is what the firmware takes as input, once and
\* in order, and the greeting of the probe is not part of it - if it writes no more than
\* tx_buf at a time, alone, and not before bm_stdio_probe has sent the greeting.  Of a
\* longer write dev_write sends the first chunk only (run dev_write).
THEOREM InputIntactHolds ==
    ASSUME NEW w, Writers = {w}, ~Early, \A n \in Writes : n <= TxBufSize
    PROVE  Spec => []InputIntact
<1>0. OneWriter(w)
  BY DEF OneWriter
<1>1. Init => InputInv(w)
  BY <1>0, InputInit
<1>2. Types /\ InputInv(w) /\ [Next]_vars => InputInv(w)'
  BY <1>0, InputStep
<1>3. InputInv(w) => InputIntact
  BY DEF InputInv, Taking, InputIntact, Cat
<1>. QED BY <1>1, <1>2, <1>3, InitType, StepType, PTL DEF Spec
=============================================================================
