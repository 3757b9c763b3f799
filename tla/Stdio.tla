-------------------------------- MODULE Stdio --------------------------------
(***************************************************************************)
(* Text between the firmware and Linux: _write and stdio_msg_handler of    *)
(* the firmware (main.c), and the character device of the stdio kernel     *)
(* module (bm_stdio.c) with its kfifo.  The channel between them delivers  *)
(* messages in order (RpmsgBm); it has a number of buffers for each        *)
(* direction.                                                              *)
(*                                                                         *)
(* A byte is known by where it comes from and its place there.             *)
(***************************************************************************)
EXTENDS Integers, Sequences, FiniteSets
SX == INSTANCE SequencesExt

CONSTANTS Writers, Readers,     \* processes that use the device
          Prints, MaxPrinted,   \* lengths of the firmware's prints; bytes in all
          Writes, MaxWritten,   \* lengths of the writes; bytes of a process in all
          Early,                \* whether they write while the driver is being probed
          DataLenMax,           \* DATA_LEN_MAX: bytes in a message of the bus
          TxBufSize,            \* TX_BUF_SIZE
          FifoSize,             \* size of bm2lin_fifo
          TraceSize,            \* TRACE_BUFFER_SIZE
          Slots                 \* buffers of the bus in each direction

ASSUME StdioAssumption ==
    /\ Prints \subseteq Nat \ {0} /\ Writes \subseteq Nat \ {0}
    /\ MaxPrinted \in Nat /\ MaxWritten \in Nat /\ Early \in BOOLEAN
    /\ DataLenMax \in Nat /\ DataLenMax > 1
    /\ {TxBufSize, FifoSize, TraceSize, Slots} \subseteq Nat \ {0}

VARIABLES printed,      \* bytes that the firmware has printed
          line, todo,   \* the data of its _write; what it has yet to send
          said,         \* what it has printed to the channel
          stdioInit,    \* stdio_init
          trace,        \* the trace buffer
          toLinux, toBm, \* messages under way
          heard,        \* input that the firmware has taken
          probe,        \* how far bm_stdio_probe has come
          fifo,         \* bm2lin_fifo
          lost,         \* bytes that kfifo_in had no room for
          txBuf,        \* the static tx_buf
          wr,           \* the dev_write of each process
          typed,        \* bytes that it has passed to dev_write
          told,         \* bytes that dev_write has reported as written, in order
          rd,           \* bytes that a dev_read has copied, not taken out yet
          got           \* what has been read from the device

fwVars == <<printed, line, todo, said, stdioInit, trace, heard>>
modVars == <<probe, fifo, lost, txBuf, wr, typed, told, rd, got>>
vars == <<fwVars, toLinux, toBm, modVars>>

Byte == [from : {"bm"} \cup Writers, n : Nat]
Bytes(from, a, b) == [k \in 1 .. b - a + 1 |-> [from |-> from, n |-> a + k - 1]]
Hello == <<[from |-> "bm", n |-> 0]>>

Least(a, b) == IF a < b THEN a ELSE b
Front(s, n) == SubSeq(s, 1, n)
Rest(s, n) == SubSeq(s, n + 1, Len(s))

(***************************************************************************)
(* The firmware: _write.  stdout goes to the channel once the handshake is *)
(* over, and always to the trace buffer; stderr to the trace buffer only.  *)
(***************************************************************************)
\* (Variant: a message is filled to its last byte.)
ChunkFull == DataLenMax
Chunk == DataLenMax - 1

Printf == /\ line = <<>>
          /\ \E n \in Prints :
                /\ printed + n <= MaxPrinted
                /\ printed' = printed + n
                /\ line' = Bytes("bm", printed + 1, printed + n)
          /\ todo' = IF stdioInit THEN line' ELSE <<>>
          /\ said' = said \o todo'
          /\ UNCHANGED <<stdioInit, trace, heard, toLinux, toBm, modVars>>

SendChunk == /\ todo # <<>> /\ Len(toLinux) < Slots
             /\ LET n == Least(Len(todo), Chunk)
                IN  /\ toLinux' = Append(toLinux, Front(todo, n))
                    /\ todo' = Rest(todo, n)
             /\ UNCHANGED <<printed, line, said, stdioInit, trace, heard, toBm, modVars>>

ToTrace == /\ line # <<>> /\ todo = <<>>
           /\ trace' = IF TraceSize - Len(trace) > Len(line) THEN trace \o line ELSE trace
           /\ line' = <<>>
           /\ UNCHANGED <<printed, todo, said, stdioInit, heard, toLinux, toBm, modVars>>

(***************************************************************************)
(* stdio_msg_handler, called from the main loop.                           *)
(***************************************************************************)
\* (Variant: the first message is input like any other.)
InputFromStart(m) == m
Input(m) == IF stdioInit THEN m ELSE <<>>

Handle == /\ line = <<>> /\ toBm # <<>>
          /\ line' = Input(Head(toBm))
          /\ heard' = heard \o Input(Head(toBm))
          /\ stdioInit' = TRUE
          /\ toBm' = Tail(toBm)
          /\ UNCHANGED <<printed, todo, said, trace, toLinux, modVars>>

(***************************************************************************)
(* bm_stdio_probe: the device is there before the first message is sent.   *)
(***************************************************************************)
Register == /\ probe = "none"
            /\ fifo' = <<>>
            /\ probe' = "registered"
            /\ UNCHANGED <<fwVars, toLinux, toBm, lost, txBuf, wr, typed, told, rd, got>>

SayHello == /\ probe = "registered" /\ Len(toBm) < Slots
            /\ toBm' = Append(toBm, Hello)
            /\ probe' = "done"
            /\ UNCHANGED <<fwVars, toLinux, fifo, lost, txBuf, wr, typed, told, rd, got>>

(***************************************************************************)
(* bm_stdio_rpmsg_cb: kfifo_in takes what it has room for.                 *)
(***************************************************************************)
\* (Variant: the callback waits until there is room for all.)
MayTakeWaits(m) == Len(m) <= FifoSize - Len(fifo)
MayTake(m) == TRUE

\* (Variant: the fifo is overrun.)
AcceptedAll(m) == Len(m)
Accepted(m) == Least(Len(m), FifoSize - Len(fifo))

Callback == /\ toLinux # <<>> /\ MayTake(Head(toLinux))
            /\ LET m == Head(toLinux)
                   n == Accepted(m)
               IN  /\ fifo' = fifo \o Front(m, n)
                   /\ lost' = lost \o Rest(m, n)
            /\ toLinux' = Tail(toLinux)
            /\ UNCHANGED <<fwVars, toBm, probe, txBuf, wr, typed, told, rd, got>>

(***************************************************************************)
(* dev_read: kfifo_to_user copies, then moves the fifo's out index.        *)
(***************************************************************************)
\* (Variant: all that is in the fifo is taken out.)
TakenAll(p) == <<>>
Taken(p) == Rest(fifo, rd[p])

ReadCopy(p) == /\ probe # "none" /\ rd[p] = 0 /\ fifo # <<>>
               /\ \E n \in 1 .. Len(fifo) :
                     /\ got' = got \o Front(fifo, n)
                     /\ rd' = [rd EXCEPT ![p] = n]
               /\ UNCHANGED <<fwVars, toLinux, toBm, probe, fifo, lost, txBuf, wr, typed, told>>

ReadTake(p) == /\ rd[p] > 0
               /\ fifo' = Taken(p)
               /\ rd' = [rd EXCEPT ![p] = 0]
               /\ UNCHANGED <<fwVars, toLinux, toBm, probe, lost, txBuf, wr, typed, told, got>>

(***************************************************************************)
(* dev_write.  Neither the user's pointer nor the count moves on as a loop *)
(* over chunks would need: the first chunk is the only one.                *)
(***************************************************************************)
NotWriting == [pc |-> "idle", first |-> 0, len |-> 0]
N(w) == Least(wr[w].len, TxBufSize)

WriteStart(w) ==
    /\ wr[w].pc = "idle" /\ (probe = "done" \/ (Early /\ probe = "registered"))
    /\ \E len \in Writes :
          /\ typed[w] + len <= MaxWritten
          /\ wr' = [wr EXCEPT ![w] = [pc |-> "copy", first |-> typed[w] + 1, len |-> len]]
          /\ typed' = [typed EXCEPT ![w] = @ + len]
    /\ UNCHANGED <<fwVars, toLinux, toBm, probe, fifo, lost, txBuf, told, rd, got>>

\* copy_from_user
WriteCopy(w) ==
    /\ wr[w].pc = "copy"
    /\ txBuf' = Bytes(w, wr[w].first, wr[w].first + N(w) - 1) \o Rest(txBuf, N(w))
    /\ wr' = [wr EXCEPT ![w].pc = "send"]
    /\ UNCHANGED <<fwVars, toLinux, toBm, probe, fifo, lost, typed, told, rd, got>>

\* copied += len
WriteSend(w) ==
    /\ wr[w].pc = "send" /\ Len(toBm) < Slots
    /\ toBm' = Append(toBm, Front(txBuf, N(w)))
    /\ told' = told \o Bytes(w, wr[w].first, wr[w].first + wr[w].len - 1)
    /\ wr' = [wr EXCEPT ![w] = NotWriting]
    /\ UNCHANGED <<fwVars, toLinux, probe, fifo, lost, txBuf, typed, rd, got>>

\* copy_from_user cannot read all of the chunk: the write fails.
WriteFaults(w) ==
    /\ wr[w].pc = "copy"
    /\ \E n \in 0 .. N(w) - 1 :
          txBuf' = Bytes(w, wr[w].first, wr[w].first + n - 1) \o Rest(txBuf, n)
    /\ wr' = [wr EXCEPT ![w] = NotWriting]
    /\ UNCHANGED <<fwVars, toLinux, toBm, probe, fifo, lost, typed, told, rd, got>>

\* rpmsg_send has waited in vain for a buffer: the write fails.
WriteUnsent(w) ==
    /\ wr[w].pc = "send" /\ Len(toBm) = Slots
    /\ wr' = [wr EXCEPT ![w] = NotWriting]
    /\ UNCHANGED <<fwVars, toLinux, toBm, probe, fifo, lost, txBuf, typed, told, rd, got>>

Init == /\ printed = 0 /\ line = <<>> /\ todo = <<>> /\ said = <<>> /\ stdioInit = FALSE
        /\ trace = <<>> /\ heard = <<>>
        /\ toLinux = <<>> /\ toBm = <<>>
        /\ probe = "none" /\ fifo = <<>> /\ lost = <<>>
        /\ txBuf = [k \in 1 .. TxBufSize |-> Hello[1]]
        /\ wr = [w \in Writers |-> NotWriting] /\ typed = [w \in Writers |-> 0]
        /\ told = <<>>
        /\ rd = [p \in Readers |-> 0] /\ got = <<>>

Firmware == Printf \/ SendChunk \/ ToTrace \/ Handle
Probe == Register \/ SayHello
Read(p) == ReadCopy(p) \/ ReadTake(p)
Writing(w) == WriteCopy(w) \/ WriteSend(w)
WriteFails(w) == WriteFaults(w) \/ WriteUnsent(w)
Users == \/ \E p \in Readers : Read(p)
         \/ \E w \in Writers : WriteStart(w) \/ Writing(w) \/ WriteFails(w)

Next == Firmware \/ Probe \/ Callback \/ Users

Spec == Init /\ [][Next]_vars

\* The firmware goes on with what it has begun and polls, the work of the bus and
\* system calls are scheduled.  Nobody has to read the device.
Fairness == /\ WF_vars(SendChunk \/ ToTrace \/ Handle)
            /\ WF_vars(Callback) /\ WF_vars(Probe)
            /\ \A w \in Writers : WF_vars(Writing(w))

FairSpec == Spec /\ Fairness

(***************************************************************************)
(* Properties.                                                             *)
(***************************************************************************)
Flat(s) == SX!FlattenSeq(s)
BytesOf(s) == {s[i] : i \in DOMAIN s}
Without(s, drop) ==
    LET kept[k \in 0 .. Len(s)] == IF k = 0 THEN <<>>
                                   ELSE IF s[k] \in drop THEN kept[k - 1]
                                   ELSE Append(kept[k - 1], s[k])
    IN  kept[Len(s)]

TypeOK == /\ printed \in 0 .. MaxPrinted
          /\ BytesOf(line) \subseteq Byte /\ Len(todo) <= Len(line)
          /\ stdioInit \in BOOLEAN /\ probe \in {"none", "registered", "done"}
          /\ Len(toLinux) <= Slots /\ Len(toBm) <= Slots
          /\ Len(fifo) <= FifoSize /\ Len(txBuf) = TxBufSize
          /\ wr \in [Writers -> [pc : {"idle", "copy", "send"}, first : Nat, len : Nat]]
          /\ typed \in [Writers -> 0 .. MaxWritten]
          /\ rd \in [Readers -> 0 .. FifoSize]

\* What leaves the firmware for the channel reaches the reader once and in order,
\* but for what was dropped because nobody read: a print in chunks, the fifo and a
\* read that has copied but not moved the index yet, taken together.
OnItsWay(p) == Rest(fifo, rd[p]) \o Flat(toLinux) \o todo
PrintIntact ==
    \A p \in Readers : got \o OnItsWay(p) = Without(said, BytesOf(lost))

\* Every terminating zero has its place: the callback's d[len] and the handler's
\* data[len] in the message, and one after the text in the trace buffer
\* (bm_stdio_rpmsg_cb: "FIXME: check for buffer overrun here").
RoomForTerminator == /\ \A i \in DOMAIN toLinux : Len(toLinux[i]) < DataLenMax
                     /\ \A i \in DOMAIN toBm : Len(toBm[i]) < DataLenMax
                     /\ Len(trace) < TraceSize

\* What dev_write has reported as written is what the firmware takes as input, in
\* the same order (dev_write: "copy data in TX_BUF_SIZE long chuncks";
\* stdio_msg_handler: "this is the first message from the kernel").
InputIntact == heard \o Without(Flat(toBm), {Hello[1]}) = told

\* A print of the firmware comes to its end although nobody reads the device, and
\* so does every write.
Completes == /\ line # <<>> ~> line = <<>>
             /\ \A w \in Writers : wr[w].pc # "idle" ~> wr[w].pc = "idle"
=============================================================================
