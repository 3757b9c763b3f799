------------------------------- MODULE RpmsgBm -------------------------------
(***************************************************************************)
(* The firmware's rpmsg layer (bm_fw/src/remoteproc.c) under its main      *)
(* loop (main.c), between two virtqueues.  Linux lends buffers in both:    *)
(* with messages in the one that the firmware receives from, empty in the  *)
(* one it sends with.  Kicks arrive as interrupts, which are counted, at   *)
(* any step of the firmware; a second one that comes before the first is   *)
(* taken is lost in it.                                                    *)
(*                                                                         *)
(* Linux is external: a receive work that handles a message, gives its     *)
(* buffer back and kicks, and processes that send.                         *)
(***************************************************************************)
EXTENDS Integers, Sequences, FiniteSets

CONSTANTS RxBufs,       \* buffers of rx_vring, which Linux sends with
          TxBufs,       \* buffers of tx_vring, which the firmware sends with
          Reqs,         \* requests that can be under way at once
          MaxInputs,    \* how often a process writes to the stdio device
          MaxDue        \* kicks that can wait to be processed: 2^32 - 1

ASSUME BufsAssumption == /\ RxBufs # {} /\ RxBufs \subseteq Nat
                         /\ TxBufs # {} /\ TxBufs \subseteq Nat /\ IsFiniteSet(TxBufs)
ASSUME InputsAssumption == MaxInputs \in Nat
ASSUME DueAssumption == MaxDue \in Nat \ {0}

VARIABLES rxHome, rxLent, rxHeld, rxBack,   \* rx_vring
          txHome, txLent, txHeld, txBack,   \* tx_vring
          chan,         \* channels[]
          stdioInit,    \* stdio_init of main.c
          bm,           \* where the firmware is, and what it has to send
          due,          \* interrupts counted less kicks processed, per virtqueue
          irq,          \* interrupts to come
          event,        \* the event register that wfe waits for
          work,         \* the receive work of Linux and its message
          sender,       \* whether a process of Linux has yet to kick
          bound,        \* channels for which Linux has a driver
          asked,        \* requests that have not been answered
          inputs        \* writes to the stdio device

rxVars == <<rxHome, rxLent, rxHeld, rxBack>>
txVars == <<txHome, txLent, txHeld, txBack>>
bmVars == <<chan, stdioInit, bm>>
irqVars == <<due, irq, event>>
linuxVars == <<work, sender, bound, asked, inputs>>
vars == <<rxVars, txVars, bmVars, irqVars, linuxVars>>

(***************************************************************************)
(* Messages.  Both ends of a channel have the channel's name for address;  *)
(* "ns" is the name service of Linux, "any" is RPMSG_ADDR_ANY.             *)
(***************************************************************************)
Chans == {"bm_stdio", "cfg_mgmt"}
Addrs == Chans \cup {"ns", "any"}

Message == [src : Addrs, dst : Addrs,
            what : {"none", "announce", "line", "reply", "hello", "input", "request"},
            id : Reqs \cup {0}]
Msg(s, d, w, i) == [src |-> s, dst |-> d, what |-> w, id |-> i]
Empty == Msg("any", "any", "none", 0)

Hello == Msg("bm_stdio", "bm_stdio", "hello", 0)
Input == Msg("bm_stdio", "bm_stdio", "input", 0)
Request(r) == Msg("cfg_mgmt", "cfg_mgmt", "request", r)
FromLinux == {Hello, Input} \cup {Request(r) : r \in Reqs}

NoLoan == [buf |-> -1, data |-> Empty]

Rx == INSTANCE BufferLoan WITH Buffers <- RxBufs, Contents <- FromLinux, Nobody <- NoLoan,
         home <- rxHome, lent <- rxLent, held <- rxHeld, back <- rxBack
Tx == INSTANCE BufferLoan WITH Buffers <- TxBufs, Contents <- Message, Nobody <- NoLoan,
         home <- txHome, lent <- txLent, held <- txHeld, back <- txBack

(***************************************************************************)
(* Channels: rpmsg_create_ch, rpmsg_send and the dispatch of read_message. *)
(***************************************************************************)
Unused == [state |-> "unused", remote |-> "any"]

Created(ch) == chan' = [chan EXCEPT ![ch] = [state |-> "announced", remote |-> "any"]]
Announcement(ch) == Msg(ch, "ns", "announce", 0)

\* What rpmsg_send sends: nothing on a channel that was not created.
Sent(c, ch, what, id) ==
    IF c[ch].state = "unused" THEN <<>> ELSE <<Msg(ch, c[ch].remote, what, id)>>

\* A line of text goes to the trace buffer until the handshake is over.
Lines == IF stdioInit THEN Sent(chan, "bm_stdio", "line", 0) ELSE <<>>

\* The callbacks: config_msg_handler answers a request, and a callback of the
\* variable may print a line first; stdio input is printed to the trace buffer.
Answer(c, m) ==
    IF m.dst = "cfg_mgmt" THEN {Sent(c, "cfg_mgmt", "reply", m.id),
                                Lines \o Sent(c, "cfg_mgmt", "reply", m.id)}
                          ELSE {<<>>}

Delivered(m) == m.dst \in Chans /\ chan[m.dst].state # "unused"

\* (Variant: the sender's address is not kept.)
UpNameless(m) == IF Delivered(m) THEN [chan EXCEPT ![m.dst].state = "up"] ELSE chan
Up(m) == IF Delivered(m) THEN [chan EXCEPT ![m.dst] = [state |-> "up", remote |-> m.src]]
                         ELSE chan

(***************************************************************************)
(* The firmware: a program counter and the messages still to be sent, with *)
(* the place to return to.                                                 *)
(***************************************************************************)
Phases == {"boot", "handshake", "report", "run"}
Pcs == {"main", "rxtask", "drain", "handle", "return", "sleep",
        "send", "fill", "publish", "wait", "sendtask"}

At(pc) == bm.pc = pc
Go(pc) == bm' = [bm EXCEPT !.pc = pc]
Call(out, ret) == bm' = [bm EXCEPT !.pc = "send", !.out = out, !.ret = ret]

Boot == /\ At("main") /\ bm.phase = "boot"
        /\ Created("bm_stdio")
        /\ bm' = [bm EXCEPT !.phase = "handshake", !.pc = "send", !.ret = "main",
                            !.out = <<Announcement("bm_stdio")>>]
        /\ UNCHANGED <<rxVars, txVars, stdioInit, irqVars, linuxVars>>

\* while (!stdio_init), then cfgInit.
CreateCfg == /\ At("main") /\ bm.phase = "handshake" /\ stdioInit
             /\ Created("cfg_mgmt")
             /\ bm' = [bm EXCEPT !.phase = "report", !.pc = "send", !.ret = "main",
                                 !.out = <<Announcement("cfg_mgmt")>>]
             /\ UNCHANGED <<rxVars, txVars, stdioInit, irqVars, linuxVars>>

Report == /\ At("main") /\ bm.phase = "report"
          /\ bm' = [bm EXCEPT !.phase = "run", !.pc = "send", !.ret = "main",
                              !.out = Lines]
          /\ UNCHANGED <<rxVars, txVars, chan, stdioInit, irqVars, linuxVars>>

(***************************************************************************)
(* rpmsg_poll: txvring_task, rxvring_task and read_message.                *)
(***************************************************************************)
Polls == At("main") /\ (bm.phase = "run" \/ (bm.phase = "handshake" /\ ~ stdioInit))

\* Only the loop of the handshake goes to sleep when nothing was done.
PollEnd(busy) == IF bm.phase = "handshake" /\ ~ busy THEN "sleep" ELSE "main"

\* (Variant: a kick is counted as processed although none is due.)
ProcessedBlindly(q) == due' = [due EXCEPT ![q] = @ - 1]
Processed(q) == due' = [due EXCEPT ![q] = IF @ = 0 THEN 0 ELSE @ - 1]

TxTask == /\ Polls
          /\ Processed("tx")
          /\ bm' = [bm EXCEPT !.pc = "rxtask", !.busy = due["tx"] # 0]
          /\ UNCHANGED <<rxVars, txVars, chan, stdioInit, irq, event, linuxVars>>

RxTask == /\ At("rxtask")
          /\ Processed("rx")
          /\ bm' = [bm EXCEPT !.pc = IF due["rx"] = 0 THEN PollEnd(bm.busy) ELSE "drain",
                              !.busy = FALSE]
          /\ UNCHANGED <<rxVars, txVars, chan, stdioInit, irq, event, linuxVars>>

\* while (vring_available): all messages are processed.
\* (Variant: one message for every kick.)
AfterMessage1 == "main"
AfterMessage == "drain"

Drain == /\ At("drain")
         /\ Rx!Take /\ Go("handle")
         /\ UNCHANGED <<txVars, chan, stdioInit, irqVars, linuxVars>>

Drained == /\ At("drain") /\ rxLent = <<>>
           /\ Go(PollEnd(TRUE))
           /\ UNCHANGED <<rxVars, txVars, chan, stdioInit, irqVars, linuxVars>>

Handle == /\ At("handle")
          /\ LET m == rxHeld.data
             IN  /\ chan' = Up(m)
                 /\ stdioInit' = (stdioInit \/ (Delivered(m) /\ m.dst = "bm_stdio"))
                 /\ \E out \in Answer(Up(m), m) : Call(out, "return")
          /\ UNCHANGED <<rxVars, txVars, irqVars, linuxVars>>

ReturnBuffer == /\ At("return")
                /\ Rx!GiveBack /\ Go(AfterMessage)
                /\ UNCHANGED <<txVars, chan, stdioInit, irqVars, linuxVars>>

(***************************************************************************)
(* block_send_message and __send_message.                                  *)
(***************************************************************************)
SendTake == /\ At("send") /\ bm.out # <<>>
            /\ Tx!Take /\ Go("fill")
            /\ UNCHANGED <<rxVars, chan, stdioInit, irqVars, linuxVars>>

SendFill == /\ At("fill")
            /\ Tx!UseWith(Head(bm.out))
            /\ bm' = [bm EXCEPT !.pc = "publish", !.out = Tail(bm.out)]
            /\ UNCHANGED <<rxVars, chan, stdioInit, irqVars, linuxVars>>

SendPublish == /\ At("publish")
               /\ Tx!GiveBack /\ Go("send")
               /\ UNCHANGED <<rxVars, chan, stdioInit, irqVars, linuxVars>>

\* (Variant: the message is dropped.)
NoBufferDrops == bm' = [bm EXCEPT !.out = Tail(@)]
NoBuffer == Go("wait")

SendWaits == /\ At("send") /\ bm.out # <<>> /\ txLent = <<>>
             /\ NoBuffer
             /\ UNCHANGED <<rxVars, txVars, chan, stdioInit, irqVars, linuxVars>>

SendTask == /\ At("sendtask")
            /\ Processed("tx") /\ Go("send")
            /\ UNCHANGED <<rxVars, txVars, chan, stdioInit, irq, event, linuxVars>>

SendDone == /\ At("send") /\ bm.out = <<>>
            /\ bm' = [bm EXCEPT !.pc = bm.ret, !.ret = "main"]
            /\ UNCHANGED <<rxVars, txVars, chan, stdioInit, irqVars, linuxVars>>

(***************************************************************************)
(* wfe returns when the event register is set, and clears it.              *)
(***************************************************************************)
WakeUp(from, to) == /\ At(from) /\ event
                    /\ event' = FALSE /\ Go(to)
                    /\ UNCHANGED <<rxVars, txVars, chan, stdioInit, due, irq, linuxVars>>

Wfe == WakeUp("sleep", "main") \/ WakeUp("wait", "sendtask")

(***************************************************************************)
(* txvring_irq and rxvring_irq; the return from an interrupt sets the      *)
(* event register.  Bound: kicks do not run ahead by a full circle.        *)
(***************************************************************************)
Irq(q) == /\ irq[q]
          /\ due[q] < MaxDue
          /\ irq' = [irq EXCEPT ![q] = FALSE]
          /\ due' = [due EXCEPT ![q] = @ + 1]
          /\ event' = TRUE
          /\ UNCHANGED <<rxVars, txVars, bmVars, linuxVars>>

MainStep == Boot \/ CreateCfg \/ Report
PollStep == TxTask \/ RxTask \/ Drain \/ Drained \/ Handle \/ ReturnBuffer
SendStep == SendTake \/ SendFill \/ SendPublish \/ SendWaits \/ SendTask \/ SendDone

Firmware == MainStep \/ PollStep \/ SendStep \/ Wfe

(***************************************************************************)
(* Linux, external.  The receive work takes a published buffer, hands its  *)
(* message to the driver, gives the buffer back and kicks.  The probe of   *)
(* the stdio driver runs in it and sends the first message.                *)
(***************************************************************************)
WorkPcs == {"idle", "got", "hello", "hellokick", "readd", "rekick"}

WorkGo(pc) == work' = [work EXCEPT !.pc = pc]

Receive == /\ work.pc = "idle"
           /\ Tx!Collect
           /\ work' = [pc |-> "got", m |-> Head(txBack).data]
           /\ UNCHANGED <<rxVars, bmVars, irqVars, sender, bound, asked, inputs>>

Dispatch == /\ work.pc = "got"
            /\ bound' = IF work.m.what = "announce" THEN bound \cup {work.m.src} ELSE bound
            /\ asked' = IF work.m.what = "reply" /\ work.m.dst \in bound
                        THEN asked \ {work.m.id} ELSE asked
            /\ work' = [pc |-> IF work.m.what = "announce" /\ work.m.src = "bm_stdio"
                               THEN "hello" ELSE "readd", m |-> Empty]
            /\ UNCHANGED <<rxVars, txVars, bmVars, irqVars, sender, inputs>>

ProbeSends == /\ work.pc = "hello"
              /\ Rx!LendWith(Hello) /\ WorkGo("hellokick")
              /\ UNCHANGED <<txVars, bmVars, irqVars, sender, bound, asked, inputs>>

ProbeKicks == /\ work.pc = "hellokick"
              /\ irq' = [irq EXCEPT !["rx"] = TRUE] /\ WorkGo("readd")
              /\ UNCHANGED <<rxVars, txVars, bmVars, due, event, sender, bound, asked, inputs>>

PutBack == /\ work.pc = "readd"
           /\ Tx!LendWith(Empty) /\ WorkGo("rekick")
           /\ UNCHANGED <<rxVars, bmVars, irqVars, sender, bound, asked, inputs>>

WorkKicks == /\ work.pc = "rekick"
             /\ irq' = [irq EXCEPT !["tx"] = TRUE] /\ WorkGo("idle")
             /\ UNCHANGED <<rxVars, txVars, bmVars, due, event, sender, bound, asked, inputs>>

Ask(r) == /\ ~ sender /\ "cfg_mgmt" \in bound /\ r \notin asked
          /\ Rx!LendWith(Request(r))
          /\ asked' = asked \cup {r} /\ sender' = TRUE
          /\ UNCHANGED <<txVars, bmVars, irqVars, work, bound, inputs>>

\* The device is registered before the first message is sent.
WriteDevice == /\ ~ sender /\ "bm_stdio" \in bound /\ inputs < MaxInputs
               /\ Rx!LendWith(Input)
               /\ inputs' = inputs + 1 /\ sender' = TRUE
               /\ UNCHANGED <<txVars, bmVars, irqVars, work, bound, asked>>

SenderKicks == /\ sender
               /\ irq' = [irq EXCEPT !["rx"] = TRUE] /\ sender' = FALSE
               /\ UNCHANGED <<rxVars, txVars, bmVars, due, event, work, bound, asked, inputs>>

\* A used buffer is recycled when no other is left.
Recycle == /\ rxHome = {} /\ Rx!Collect
           /\ UNCHANGED <<txVars, bmVars, irqVars, linuxVars>>

Work == Receive \/ Dispatch \/ ProbeSends \/ ProbeKicks \/ PutBack \/ WorkKicks
Users == (\E r \in Reqs : Ask(r)) \/ WriteDevice \/ SenderKicks
Linux == Work \/ Users \/ Recycle

\* Linux has put its buffers into tx_vring, in some order, and kicked before the
\* firmware runs.
Orders(bufs) == {s \in [1 .. Cardinality(bufs) -> bufs] :
                    \A i, j \in DOMAIN s : s[i] = s[j] => i = j}

Init == /\ rxHome = RxBufs
        /\ rxLent = <<>> /\ rxHeld = NoLoan /\ rxBack = <<>>
        /\ txHome = {} /\ txHeld = NoLoan /\ txBack = <<>>
        /\ \E s \in Orders(TxBufs) :
              txLent = [i \in DOMAIN s |-> [buf |-> s[i], data |-> Empty]]
        /\ chan = [ch \in Chans |-> Unused]
        /\ stdioInit = FALSE
        /\ bm = [pc |-> "main", phase |-> "boot", busy |-> FALSE, out |-> <<>>, ret |-> "main"]
        /\ due = [q \in {"rx", "tx"} |-> 0]
        /\ irq \in [{"rx", "tx"} -> BOOLEAN] /\ ~ irq["rx"]
        /\ event = FALSE
        /\ work = [pc |-> "idle", m |-> Empty]
        /\ sender = FALSE /\ bound = {} /\ asked = {} /\ inputs = 0

Next == Firmware \/ (\E q \in {"rx", "tx"} : Irq(q)) \/ Linux

Spec == Init /\ [][Next]_vars

\* The firmware runs, interrupts are taken, and Linux schedules its work, looks at
\* what it has been told of and finishes the system calls it has begun.
Fairness == /\ WF_vars(Firmware)
            /\ \A q \in {"rx", "tx"} : WF_vars(Irq(q))
            /\ WF_vars(Work) /\ WF_vars(SenderKicks) /\ WF_vars(Recycle)

FairSpec == Spec /\ Fairness

(***************************************************************************)
(* Properties.                                                             *)
(***************************************************************************)
TypeOK == /\ rxHome \subseteq RxBufs
          /\ \A s \in {rxLent, rxBack} : \A i \in DOMAIN s : s[i] \in Rx!Loan
          /\ txHome \subseteq TxBufs
          /\ \A s \in {txLent, txBack} : \A i \in DOMAIN s : s[i] \in Tx!Loan
          /\ chan \in [Chans -> [state : {"unused", "announced", "up"}, remote : Addrs]]
          /\ stdioInit \in BOOLEAN
          /\ bm.pc \in Pcs /\ bm.phase \in Phases /\ bm.busy \in BOOLEAN
          /\ bm.ret \in {"main", "return"} /\ Len(bm.out) \in 0 .. 2
          /\ due \in [{"rx", "tx"} -> 0 .. MaxDue]
          /\ irq \in [{"rx", "tx"} -> BOOLEAN] /\ event \in BOOLEAN
          /\ work \in [pc : WorkPcs, m : Message]
          /\ sender \in BOOLEAN /\ bound \subseteq Chans /\ asked \subseteq Reqs

Draining == bm.pc \in {"drain", "handle"} \/ rxHeld # NoLoan
KickComes(q) == \/ irq[q] \/ due[q] # 0
                \/ q = "rx" /\ (sender \/ work.pc = "hellokick")
                \/ q = "tx" /\ work.pc = "rekick"

\* A message is never left in rx_vring without a kick still to be processed, and
\* the firmware never sleeps in wfe while there is one or a buffer to send with,
\* unless an interrupt is about to come: two kicks that become one, a kick
\* between the last look and wfe.
NoStrandedMessage ==
    /\ rxLent # <<>> => Draining \/ KickComes("rx")
    /\ At("sleep") /\ ~ event /\ rxLent # <<>> => irq["rx"] \/ sender \/ work.pc = "hellokick"
    /\ At("wait") /\ ~ event /\ txLent # <<>> => irq["tx"] \/ work.pc = "rekick"

\* Apart from its announcements the firmware sends nothing to an address it has
\* not heard from (rpmsg_create_ch: "this has the potential for big troubles").
NoBroadcast == \A i \in DOMAIN txBack : txBack[i].data.dst # "any"

\* A request is answered at last, although the firmware stops receiving while it
\* waits for a buffer to answer with.
Answered == \A r \in Reqs : r \in asked ~> r \notin asked

(***************************************************************************)
(* The rings and the firmware's hands together are two FIFO channels.  A   *)
(* message has been served when its callback has returned; what is to be   *)
(* sent is on its way from then on.                                        *)
(***************************************************************************)
Datas(s) == [i \in DOMAIN s |-> s[i].data]

ToBm == (IF At("handle") THEN <<rxHeld.data>> ELSE <<>>) \o Datas(rxLent)
ToLinux == Datas(txBack) \o (IF At("publish") THEN <<txHeld.data>> ELSE <<>>) \o bm.out

MayAnswer(m) == IF m.dst # "cfg_mgmt" THEN {<<>>}
                ELSE LET reply == Msg("cfg_mgmt", "cfg_mgmt", "reply", m.id)
                     IN  {<<reply>>, <<Msg("bm_stdio", "bm_stdio", "line", 0), reply>>}

FromBm == {Announcement(ch) : ch \in Chans} \cup {Msg("bm_stdio", "bm_stdio", "line", 0)}

Bus == INSTANCE RpmsgBus WITH ToBmMessages <- FromLinux, ToLinuxMessages <- FromBm,
          Answers <- MayAnswer,
          toBm <- ToBm, toLinux <- ToLinux

\* remoteproc.c delivers every message once and in order in both directions, and
\* sends all it has to say to one message before it takes the next.
ImplementsBus == Bus!Spec
=============================================================================
