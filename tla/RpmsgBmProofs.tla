---------------------------- MODULE RpmsgBmProofs ----------------------------
(***************************************************************************)
(* Proofs about the firmware's rpmsg layer and main loop of module         *)
(* RpmsgBm, for any buffers, any requests and any number of kicks that can *)
(* wait.                                                                   *)
(***************************************************************************)
EXTENDS RpmsgBm, SequenceTheorems, FiniteSetTheorems, TLAPS

(***************************************************************************)
(* The inductive invariant.                                                *)
(***************************************************************************)
Line == Msg("bm_stdio", "bm_stdio", "line", 0)
Reply(r) == Msg("cfg_mgmt", "cfg_mgmt", "reply", r)

\* What the firmware can have to say.
FwMsgs == {Announcement(ch) : ch \in Chans} \cup {Line} \cup {Reply(r) : r \in Reqs}

RxLoan == [buf : RxBufs, data : FromLinux]
TxLoan == [buf : TxBufs, data : Message]
TxFull == [buf : TxBufs, data : FwMsgs]

SendPcs == {"send", "fill", "publish", "wait", "sendtask"}

RxTypes == /\ rxHome \subseteq RxBufs /\ rxHeld \in RxLoan \cup {NoLoan}
           /\ rxLent \in Seq(RxLoan) /\ rxBack \in Seq(RxLoan)
TxTypes == /\ txHome \subseteq TxBufs /\ txHeld \in TxLoan \cup {NoLoan}
           /\ txLent \in Seq(TxLoan) /\ txBack \in Seq(TxFull)
BmTypes == /\ chan \in [Chans -> [state : {"unused", "announced", "up"}, remote : Addrs]]
           /\ stdioInit \in BOOLEAN
           /\ bm \in [pc : Pcs, phase : Phases, busy : BOOLEAN, out : Seq(FwMsgs),
                      ret : {"main", "return"}]
           /\ Len(bm.out) <= 2
IrqTypes == /\ due \in [{"rx", "tx"} -> 0 .. MaxDue]
            /\ irq \in [{"rx", "tx"} -> BOOLEAN] /\ event \in BOOLEAN
LinuxTypes == /\ work \in [pc : WorkPcs, m : FwMsgs \cup {Empty}]
              /\ work.pc = "got" => work.m \in FwMsgs
              /\ sender \in BOOLEAN /\ bound \subseteq Chans /\ asked \subseteq Reqs

\* The firmware holds a received buffer from Drain to ReturnBuffer, also while it
\* sends from a callback, and a buffer to send with from SendTake to SendPublish.
Hands == /\ rxHeld # NoLoan <=> \/ bm.pc \in {"handle", "return"}
                                \/ bm.pc \in SendPcs /\ bm.ret = "return"
         /\ txHeld # NoLoan <=> bm.pc \in {"fill", "publish"}
         /\ bm.pc = "publish" => txHeld.data \in FwMsgs
         /\ bm.pc = "fill" => bm.out # <<>>
         /\ bm.pc \notin SendPcs => bm.out = <<>>

\* A channel that is up knows its remote end, and stdio is used only then.
Remotes == /\ \A ch \in Chans : chan[ch].state = "up" => chan[ch].remote = ch
           /\ stdioInit => chan["bm_stdio"].state = "up"
           /\ bm.phase = "boot" => \A ch \in Chans : chan[ch].state = "unused"

\* Nothing is asked before the firmware has the channel to answer on.
Unasked == chan["cfg_mgmt"].state = "unused" =>
              /\ "cfg_mgmt" \notin bound
              /\ \A k \in DOMAIN bm.out : bm.out[k] # Announcement("cfg_mgmt")
              /\ bm.pc = "publish" => txHeld.data # Announcement("cfg_mgmt")
              /\ \A k \in DOMAIN txBack : txBack[k].data # Announcement("cfg_mgmt")
              /\ work.pc = "got" => work.m # Announcement("cfg_mgmt")
              /\ \A k \in DOMAIN rxLent : rxLent[k].data.dst # "cfg_mgmt"
              /\ rxHeld.data.dst # "cfg_mgmt"

Types == RxTypes /\ TxTypes /\ BmTypes /\ IrqTypes /\ LinuxTypes

Inv == Types /\ Hands /\ Remotes /\ Unasked

(***************************************************************************)
(* Messages and loans.                                                     *)
(***************************************************************************)
LEMMA FwMessages ==
    /\ FwMsgs \subseteq Message /\ Empty \in Message
    /\ \A m \in FwMsgs : m.dst # "any"
    /\ \A m \in FwMsgs : m.what = "announce" => m.src \in Chans /\ m = Announcement(m.src)
    /\ \A m \in FwMsgs : m.what = "reply" => m.id \in Reqs
    /\ \A m \in FwMsgs : m.what # "announce" =>
          \A ch \in Chans : m # Announcement(ch)
    /\ Empty # Announcement("cfg_mgmt")
BY DEF FwMsgs, Message, Announcement, Line, Reply, Msg, Chans, Addrs, Empty

LEMMA LinuxMessages ==
    /\ FromLinux \subseteq Message
    /\ \A m \in FromLinux : m.dst \in Chans /\ m.src = m.dst
    /\ \A m \in FromLinux : m.dst = "cfg_mgmt" => m.id \in Reqs
    /\ Hello \in FromLinux /\ Input \in FromLinux /\ \A r \in Reqs : Request(r) \in FromLinux
    /\ Hello.dst = "bm_stdio" /\ Input.dst = "bm_stdio"
<1>1. /\ Hello \in Message /\ Hello.dst = "bm_stdio" /\ Hello.src = "bm_stdio"
      /\ Input \in Message /\ Input.dst = "bm_stdio" /\ Input.src = "bm_stdio"
  BY DEF Message, Hello, Input, Msg, Chans, Addrs
<1>2. \A r \in Reqs : /\ Request(r) \in Message /\ Request(r).id = r
                      /\ Request(r).dst = "cfg_mgmt" /\ Request(r).src = "cfg_mgmt"
  BY DEF Message, Request, Msg, Chans, Addrs
<1>. QED BY <1>1, <1>2 DEF FromLinux, Chans

LEMMA Loans ==
    /\ NoLoan \notin RxLoan /\ NoLoan \notin TxLoan
    /\ TxFull \subseteq TxLoan
    /\ NoLoan.data.dst = "any"
<1>1. -1 \notin RxBufs /\ -1 \notin TxBufs
  BY BufsAssumption
<1>. QED BY <1>1, FwMessages DEF NoLoan, RxLoan, TxLoan, TxFull, Empty, Msg

(***************************************************************************)
(* The two virtqueues.                                                     *)
(***************************************************************************)
LEMMA RxKept ==
    ASSUME RxTypes,
           \/ Rx!Take \/ Rx!GiveBack \/ Rx!Collect \/ UNCHANGED rxVars
           \/ \E m \in FromLinux : Rx!LendWith(m)
    PROVE  RxTypes'
<1>1. CASE Rx!Take
  BY <1>1, HeadTailProperties DEF RxTypes, Rx!Take
<1>2. CASE Rx!GiveBack
  <2>1. rxHeld \in RxLoan
    BY <1>2 DEF RxTypes, Rx!GiveBack
  <2>. QED BY <1>2, <2>1, AppendProperties DEF RxTypes, Rx!GiveBack
<1>3. CASE Rx!Collect
  <2>1. Head(rxBack) \in RxLoan /\ Tail(rxBack) \in Seq(RxLoan)
    BY <1>3, HeadTailProperties DEF RxTypes, Rx!Collect
  <2>2. Head(rxBack).buf \in RxBufs
    BY <2>1 DEF RxLoan
  <2>. QED BY <1>3, <2>1, <2>2 DEF RxTypes, Rx!Collect
<1>4. ASSUME NEW m \in FromLinux, Rx!LendWith(m)
      PROVE  RxTypes'
  <2>1. PICK b \in rxHome : rxHome' = rxHome \ {b} /\ rxLent' = Append(rxLent, [buf |-> b, data |-> m])
    BY <1>4 DEF Rx!LendWith
  <2>2. [buf |-> b, data |-> m] \in RxLoan
    BY DEF RxTypes, RxLoan
  <2>. QED BY <1>4, <2>1, <2>2, AppendProperties DEF RxTypes, Rx!LendWith
<1>5. CASE UNCHANGED rxVars
  BY <1>5 DEF RxTypes, rxVars
<1>. QED BY <1>1, <1>2, <1>3, <1>4, <1>5

LEMMA TxKept ==
    ASSUME TxTypes,
           \/ Tx!Take \/ Tx!Collect \/ Tx!LendWith(Empty) \/ UNCHANGED txVars
           \/ Tx!GiveBack /\ txHeld.data \in FwMsgs
           \/ \E m \in FwMsgs : Tx!UseWith(m)
    PROVE  TxTypes'
<1>1. CASE Tx!Take
  BY <1>1, HeadTailProperties DEF TxTypes, Tx!Take
<1>2. CASE Tx!GiveBack /\ txHeld.data \in FwMsgs
  <2>1. txHeld \in TxLoan
    BY <1>2 DEF TxTypes, Tx!GiveBack
  <2>2. txHeld \in TxFull
    BY <1>2, <2>1 DEF TxLoan, TxFull
  <2>. QED BY <1>2, <2>2, AppendProperties DEF TxTypes, Tx!GiveBack
<1>3. CASE Tx!Collect
  <2>1. Head(txBack) \in TxFull /\ Tail(txBack) \in Seq(TxFull)
    BY <1>3, HeadTailProperties DEF TxTypes, Tx!Collect
  <2>2. Head(txBack).buf \in TxBufs
    BY <2>1 DEF TxFull
  <2>. QED BY <1>3, <2>1, <2>2 DEF TxTypes, Tx!Collect
<1>4. CASE Tx!LendWith(Empty)
  <2>1. PICK b \in txHome : txHome' = txHome \ {b} /\ txLent' = Append(txLent, [buf |-> b, data |-> Empty])
    BY <1>4 DEF Tx!LendWith
  <2>2. [buf |-> b, data |-> Empty] \in TxLoan
    BY FwMessages DEF TxTypes, TxLoan
  <2>. QED BY <1>4, <2>1, <2>2, AppendProperties DEF TxTypes, Tx!LendWith
<1>5. CASE UNCHANGED txVars
  BY <1>5 DEF TxTypes, txVars
<1>6. ASSUME NEW m \in FwMsgs, Tx!UseWith(m)
      PROVE  TxTypes'
  <2>1. txHeld \in TxLoan /\ m \in Message
    BY <1>6, FwMessages DEF TxTypes, Tx!UseWith
  <2>2. [txHeld EXCEPT !.data = m] \in TxLoan
    BY <2>1 DEF TxLoan
  <2>. QED BY <1>6, <2>2 DEF TxTypes, Tx!UseWith
<1>. QED BY <1>1, <1>2, <1>3, <1>4, <1>5, <1>6

(***************************************************************************)
(* What the firmware sends.                                                *)
(***************************************************************************)

LEMMA ShortSequences ==
    ASSUME NEW a \in FwMsgs, NEW b \in FwMsgs
    PROVE  /\ <<>> \in Seq(FwMsgs) /\ Len(<<>>) = 0 /\ DOMAIN <<>> = {}
           /\ <<a>> \in Seq(FwMsgs) /\ Len(<<a>>) = 1 /\ DOMAIN <<a>> = {1} /\ <<a>>[1] = a
           /\ <<a, b>> \in Seq(FwMsgs) /\ Len(<<a, b>>) = 2 /\ DOMAIN <<a, b>> = {1, 2}
           /\ <<a, b>>[1] = a /\ <<a, b>>[2] = b
           /\ <<a>> \o <<b>> = <<a, b>> /\ <<>> \o <<a>> = <<a>> /\ <<a>> \o <<>> = <<a>>
           /\ <<>> \o <<>> = <<>>
<1>1. /\ <<>> \in Seq(FwMsgs) /\ Len(<<>>) = 0 /\ DOMAIN <<>> = {}
      /\ <<a>> \in Seq(FwMsgs) /\ Len(<<a>>) = 1 /\ DOMAIN <<a>> = {1} /\ <<a>>[1] = a
  OBVIOUS
<1>2. /\ <<a, b>> \in Seq(FwMsgs) /\ Len(<<a, b>>) = 2 /\ DOMAIN <<a, b>> = {1, 2}
      /\ <<a, b>>[1] = a /\ <<a, b>>[2] = b
  OBVIOUS
<1>3. <<>> \o <<a>> = <<a>> /\ <<a>> \o <<>> = <<a>> /\ <<>> \o <<>> = <<>>
  BY <1>1, ConcatEmptySeq
<1>4. <<a>> \o <<b>> = <<a, b>>
  <2> DEFINE s == <<a>> \o <<b>>
             t == <<a, b>>
  <2>1. s \in Seq(FwMsgs) /\ Len(s) = 2 /\ s[1] = a /\ s[2] = b
    <3>1. <<b>> \in Seq(FwMsgs) /\ Len(<<b>>) = 1 /\ <<b>>[1] = b
      OBVIOUS
    <3>. QED BY <1>1, <3>1, ConcatProperties
  <2> HIDE DEF s, t
  <2>2. t \in Seq(FwMsgs) /\ Len(t) = 2 /\ t[1] = a /\ t[2] = b
    BY <1>2 DEF t
  <2>3. s = t
    BY <2>1, <2>2, SeqEqual
  <2>. QED BY <2>3 DEF s, t
<1>. QED BY <1>1, <1>2, <1>3, <1>4

\* rpmsg_send sends to the remote end of a channel that is up.
LEMMA LinesType ==
    ASSUME BmTypes, Remotes
    PROVE  Lines \in {<<>>, <<Line>>} /\ Lines \in Seq(FwMsgs) /\ Len(Lines) <= 1
<1>1. Lines \in {<<>>, <<Line>>}
  BY DEF Lines, Sent, Remotes, Line, Chans
<1>2. Line \in FwMsgs
  BY DEF FwMsgs
<1>3. /\ <<>> \in Seq(FwMsgs) /\ Len(<<>>) = 0
      /\ <<Line>> \in Seq(FwMsgs) /\ Len(<<Line>>) = 1
  BY <1>2, ShortSequences
<1>4. CASE Lines = <<>>
  BY <1>3, <1>4
<1>5. CASE Lines = <<Line>>
  BY <1>3, <1>5
<1>. QED BY <1>1, <1>4, <1>5

\* After a message has been delivered its channel is up, with the sender's address.
LEMMA UpIs ==
    ASSUME BmTypes, Remotes, NEW m \in FromLinux
    PROVE  /\ Up(m) \in [Chans -> [state : {"unused", "announced", "up"}, remote : Addrs]]
           /\ \A ch \in Chans : Up(m)[ch].state = "up" => Up(m)[ch].remote = ch
           /\ \A ch \in Chans : chan[ch].state = "up" => Up(m)[ch].state = "up"
           /\ \A ch \in Chans : Up(m)[ch].state = "unused" <=> chan[ch].state = "unused"
           /\ Delivered(m) => Up(m)[m.dst].state = "up"
<1>1. m.dst \in Chans /\ m.src = m.dst /\ m.src \in Addrs
  BY LinuxMessages DEF Addrs
<1>2. [state |-> "up", remote |-> m.src] \in [state : {"unused", "announced", "up"}, remote : Addrs]
  BY <1>1
<1>3. CASE Delivered(m)
  <2>1. Up(m) = [chan EXCEPT ![m.dst] = [state |-> "up", remote |-> m.src]]
    BY <1>3 DEF Up
  <2>2. Up(m)[m.dst] = [state |-> "up", remote |-> m.src]
    BY <1>1, <2>1 DEF BmTypes
  <2>3. \A ch \in Chans \ {m.dst} : Up(m)[ch] = chan[ch]
    BY <1>1, <2>1 DEF BmTypes
  <2>4. Up(m) \in [Chans -> [state : {"unused", "announced", "up"}, remote : Addrs]]
    BY <1>1, <1>2, <2>1 DEF BmTypes
  <2>. QED BY <1>1, <1>3, <2>2, <2>3, <2>4 DEF Remotes, Delivered
<1>4. CASE ~ Delivered(m)
  BY <1>4 DEF Up, BmTypes, Remotes
<1>. QED BY <1>3, <1>4

\* A callback sends at most a line and the reply to its request, and the reply
\* whenever the channel exists.
LEMMA AnswerType ==
    ASSUME BmTypes, Remotes, NEW m \in FromLinux, NEW out \in Answer(Up(m), m)
    PROVE  /\ out \in Seq(FwMsgs) /\ Len(out) <= 2
           /\ \A k \in DOMAIN out : out[k] # Announcement("cfg_mgmt")
           /\ Delivered(m) \/ m.dst # "cfg_mgmt" => out \in MayAnswer(m)
<1>1. Lines \in {<<>>, <<Line>>} /\ Line \in FwMsgs
  BY LinesType DEF FwMsgs
<1>2. CASE m.dst # "cfg_mgmt"
  <2>1. out = <<>>
    BY <1>2 DEF Answer
  <2>. QED BY <1>2, <2>1 DEF MayAnswer
<1>3. CASE m.dst = "cfg_mgmt"
  <2> DEFINE s == Sent(Up(m), "cfg_mgmt", "reply", m.id)
  <2>1. out = s \/ out = Lines \o s
    BY <1>3 DEF Answer
  <2>2. m.id \in Reqs /\ Reply(m.id) \in FwMsgs
    BY <1>3, LinuxMessages DEF FwMsgs
  <2>3. CASE Delivered(m)
    <3>1. Up(m)["cfg_mgmt"] = [state |-> "up", remote |-> "cfg_mgmt"]
      BY <1>3, <2>3, UpIs, LinuxMessages DEF Chans
    <3>2. s = <<Reply(m.id)>>
      BY <3>1 DEF Sent, Reply
    <3> HIDE DEF s
    <3>3. out = <<Reply(m.id)>> \/ out = <<Line, Reply(m.id)>>
      <4>1. /\ <<>> \o <<Reply(m.id)>> = <<Reply(m.id)>>
            /\ <<Line>> \o <<Reply(m.id)>> = <<Line, Reply(m.id)>>
        BY <1>1, <2>2, ShortSequences
      <4>. QED BY <1>1, <2>1, <3>2, <4>1
    <3>4. Line # Announcement("cfg_mgmt") /\ Reply(m.id) # Announcement("cfg_mgmt")
      BY DEF Line, Reply, Announcement, Msg
    <3>5. out \in MayAnswer(m)
      BY <1>3, <3>3 DEF MayAnswer, Reply, Line
    <3>6. /\ out \in Seq(FwMsgs) /\ Len(out) <= 2
          /\ \A k \in DOMAIN out : out[k] # Announcement("cfg_mgmt")
      <4>1. CASE out = <<Reply(m.id)>>
        BY <2>2, <3>4, <4>1, ShortSequences
      <4>2. CASE out = <<Line, Reply(m.id)>>
        BY <1>1, <2>2, <3>4, <4>2, ShortSequences
      <4>. QED BY <3>3, <4>1, <4>2
    <3>. QED BY <3>5, <3>6
  <2>4. CASE ~ Delivered(m)
    <3>1. s = <<>>
      BY <1>3, <2>4 DEF Sent, Up, Delivered, Chans
    <3> HIDE DEF s
    <3>2. out = <<>> \/ out = <<Line>>
      BY <1>1, <2>1, <3>1, ShortSequences
    <3>3. Line # Announcement("cfg_mgmt")
      BY DEF Line, Announcement, Msg
    <3>4. /\ out \in Seq(FwMsgs) /\ Len(out) <= 2
          /\ \A k \in DOMAIN out : out[k] # Announcement("cfg_mgmt")
      <4>1. CASE out = <<>>
        BY <4>1
      <4>2. CASE out = <<Line>>
        BY <1>1, <3>3, <4>2, ShortSequences
      <4>. QED BY <3>2, <4>1, <4>2
    <3>. QED BY <1>3, <2>4, <3>4
  <2>. QED BY <2>3, <2>4
<1>. QED BY <1>2, <1>3

(***************************************************************************)
(* Every step of the firmware keeps the types of its own state and what it *)
(* holds in its hands.                                                     *)
(***************************************************************************)
FwInv == RxTypes /\ TxTypes /\ BmTypes /\ Hands /\ Remotes

\* A step that goes to another point of the program with the same things in hand.
LEMMA Goes ==
    ASSUME FwInv, UNCHANGED <<rxHeld, txHeld, chan, stdioInit>>,
           NEW pc \in Pcs, NEW busy \in BOOLEAN,
           bm' = [bm EXCEPT !.pc = pc, !.busy = busy],
           \/ bm.pc \in {"main", "rxtask", "drain", "sleep"} /\ pc \in {"main", "rxtask", "drain", "sleep"}
           \/ bm.pc \in {"send", "wait", "sendtask"} /\ pc \in {"send", "wait", "sendtask"}
    PROVE  BmTypes' /\ Hands' /\ Remotes'
<1>1. /\ bm' \in [pc : Pcs, phase : Phases, busy : BOOLEAN, out : Seq(FwMsgs), ret : {"main", "return"}]
      /\ bm'.pc = pc /\ bm'.out = bm.out /\ bm'.ret = bm.ret /\ bm'.phase = bm.phase
  BY DEF FwInv, BmTypes
<1>2. BmTypes'
  BY <1>1 DEF FwInv, BmTypes
<1>3. Hands'
  BY <1>1 DEF FwInv, Hands, SendPcs
<1>4. Remotes'
  BY <1>1 DEF FwInv, Remotes
<1>. QED BY <1>2, <1>3, <1>4

\* A step that begins to send, from the main loop or from a callback.
LEMMA Calls ==
    ASSUME FwInv, UNCHANGED <<rxHeld, txHeld>>,
           NEW out \in Seq(FwMsgs), Len(out) <= 2, NEW phase \in Phases,
           NEW ret \in {"main", "return"},
           bm' = [bm EXCEPT !.phase = phase, !.pc = "send", !.ret = ret, !.out = out],
           bm.pc = IF ret = "main" THEN "main" ELSE "handle"
    PROVE  /\ bm' \in [pc : Pcs, phase : Phases, busy : BOOLEAN, out : Seq(FwMsgs), ret : {"main", "return"}]
           /\ bm'.out = out /\ bm'.phase = phase
           /\ Len(bm'.out) <= 2 /\ Hands'
<1>1. /\ bm' \in [pc : Pcs, phase : Phases, busy : BOOLEAN, out : Seq(FwMsgs), ret : {"main", "return"}]
      /\ bm'.out = out /\ bm'.phase = phase /\ bm'.pc = "send" /\ bm'.ret = ret
  BY DEF FwInv, BmTypes, Pcs
<1>2. Hands'
  BY <1>1 DEF FwInv, Hands, SendPcs
<1>. QED BY <1>1, <1>2

LEMMA CreatedIs ==
    ASSUME BmTypes, Remotes, NEW ch \in Chans, Created(ch)
    PROVE  /\ chan' \in [Chans -> [state : {"unused", "announced", "up"}, remote : Addrs]]
           /\ chan'[ch].state = "announced"
           /\ \A c \in Chans \ {ch} : chan'[c] = chan[c]
           /\ \A c \in Chans : chan'[c].state = "up" => chan'[c].remote = c
<1>1. [state |-> "announced", remote |-> "any"]
         \in [state : {"unused", "announced", "up"}, remote : Addrs]
  BY DEF Addrs
<1>. QED BY <1>1 DEF Created, BmTypes, Remotes

LEMMA MainKept ==
    ASSUME FwInv, MainStep
    PROVE  BmTypes' /\ Hands' /\ Remotes'
<1>1. CASE Boot
  <2>1. Announcement("bm_stdio") \in FwMsgs
    BY DEF FwMsgs, Chans
  <2>2. <<Announcement("bm_stdio")>> \in Seq(FwMsgs) /\ Len(<<Announcement("bm_stdio")>>) <= 2
    BY <2>1, ShortSequences
  <2>3. /\ bm' \in [pc : Pcs, phase : Phases, busy : BOOLEAN, out : Seq(FwMsgs), ret : {"main", "return"}]
        /\ Len(bm'.out) <= 2 /\ Hands' /\ bm'.phase = "handshake"
    BY <1>1, <2>2, Calls DEF Boot, At, Phases, rxVars, txVars
  <2>4. chan' \in [Chans -> [state : {"unused", "announced", "up"}, remote : Addrs]]
    BY <1>1, CreatedIs DEF Boot, FwInv, Chans
  <2>5. Remotes'
    BY <1>1, <2>3, CreatedIs DEF Boot, FwInv, Remotes, Chans
  <2>. QED BY <1>1, <2>3, <2>4, <2>5 DEF Boot, FwInv, BmTypes
<1>2. CASE CreateCfg
  <2>1. Announcement("cfg_mgmt") \in FwMsgs
    BY DEF FwMsgs, Chans
  <2>2. <<Announcement("cfg_mgmt")>> \in Seq(FwMsgs) /\ Len(<<Announcement("cfg_mgmt")>>) <= 2
    BY <2>1, ShortSequences
  <2>3. /\ bm' \in [pc : Pcs, phase : Phases, busy : BOOLEAN, out : Seq(FwMsgs), ret : {"main", "return"}]
        /\ Len(bm'.out) <= 2 /\ Hands' /\ bm'.phase = "report"
    BY <1>2, <2>2, Calls DEF CreateCfg, At, Phases, rxVars, txVars
  <2>4. chan' \in [Chans -> [state : {"unused", "announced", "up"}, remote : Addrs]]
    BY <1>2, CreatedIs DEF CreateCfg, FwInv, Chans
  <2>5. Remotes'
    BY <1>2, <2>3, CreatedIs DEF CreateCfg, FwInv, Remotes, Chans
  <2>. QED BY <1>2, <2>3, <2>4, <2>5 DEF CreateCfg, FwInv, BmTypes
<1>3. CASE Report
  <2>1. Lines \in Seq(FwMsgs) /\ Len(Lines) <= 2
    BY LinesType DEF FwInv
  <2>2. /\ bm' \in [pc : Pcs, phase : Phases, busy : BOOLEAN, out : Seq(FwMsgs), ret : {"main", "return"}]
        /\ Len(bm'.out) <= 2 /\ Hands' /\ bm'.phase = "run"
    BY <1>3, <2>1, Calls DEF Report, At, Phases, rxVars, txVars
  <2>3. Remotes'
    BY <1>3, <2>2 DEF Report, FwInv, Remotes
  <2>. QED BY <1>3, <2>2, <2>3 DEF Report, FwInv, BmTypes
<1>. QED BY <1>1, <1>2, <1>3 DEF MainStep

LEMMA HandleIs ==
    ASSUME FwInv, Handle
    PROVE  /\ rxHeld \in RxLoan /\ rxHeld.data \in FromLinux /\ chan' = Up(rxHeld.data)
           /\ bm.out = <<>>
           /\ \E out \in Answer(Up(rxHeld.data), rxHeld.data) :
                 bm' = [bm EXCEPT !.pc = "send", !.out = out, !.ret = "return"]
<1>1. rxHeld \in RxLoan /\ bm.out = <<>>
  BY DEF FwInv, RxTypes, Hands, Handle, At, SendPcs
<1>2. rxHeld.data \in FromLinux
  BY <1>1 DEF RxLoan
<1>. QED BY <1>1, <1>2 DEF Handle, Call

LEMMA HandleKept ==
    ASSUME FwInv, Handle
    PROVE  BmTypes' /\ Hands' /\ Remotes'
<1> DEFINE m == rxHeld.data
<1>1. m \in FromLinux /\ chan' = Up(m)
  BY HandleIs
<1>2. PICK out \in Answer(Up(m), m) : bm' = [bm EXCEPT !.pc = "send", !.out = out, !.ret = "return"]
  BY HandleIs
<1>3. stdioInit' = (stdioInit \/ (Delivered(m) /\ m.dst = "bm_stdio"))
  BY DEF Handle
<1> HIDE DEF m
<1>4. out \in Seq(FwMsgs) /\ Len(out) <= 2
  BY <1>1, AnswerType DEF FwInv
<1>5. bm' = [bm EXCEPT !.phase = bm.phase, !.pc = "send", !.ret = "return", !.out = out] /\ bm.phase \in Phases
  BY <1>2 DEF FwInv, BmTypes
<1>6. /\ bm' \in [pc : Pcs, phase : Phases, busy : BOOLEAN, out : Seq(FwMsgs), ret : {"main", "return"}]
      /\ Len(bm'.out) <= 2 /\ Hands' /\ bm'.phase = bm.phase
  BY <1>4, <1>5, Calls DEF Handle, At, rxVars, txVars
<1>7. /\ chan' \in [Chans -> [state : {"unused", "announced", "up"}, remote : Addrs]]
      /\ \A ch \in Chans : chan'[ch].state = "up" => chan'[ch].remote = ch
      /\ \A ch \in Chans : chan[ch].state = "up" => chan'[ch].state = "up"
      /\ \A ch \in Chans : chan'[ch].state = "unused" <=> chan[ch].state = "unused"
      /\ Delivered(m) => chan'[m.dst].state = "up"
  BY <1>1, UpIs DEF FwInv
<1>8. stdioInit' \in BOOLEAN
  BY <1>3
<1>9. stdioInit' => chan'["bm_stdio"].state = "up"
  BY <1>3, <1>7 DEF FwInv, Remotes, Chans
<1>10. Remotes'
  BY <1>6, <1>7, <1>9 DEF FwInv, Remotes
<1>. QED BY <1>6, <1>7, <1>8, <1>10 DEF BmTypes

LEMMA PollKept ==
    ASSUME FwInv, PollStep
    PROVE  BmTypes' /\ Hands' /\ Remotes'
<1>0. bm \in [pc : Pcs, phase : Phases, busy : BOOLEAN, out : Seq(FwMsgs), ret : {"main", "return"}]
  BY DEF FwInv, BmTypes
<1>1. CASE TxTask
  BY <1>1, Goes DEF TxTask, Polls, At, Pcs, rxVars, txVars
<1>2. CASE RxTask
  <2>1. PollEnd(bm.busy) \in {"main", "sleep"}
    BY DEF PollEnd
  <2>2. (IF due["rx"] = 0 THEN PollEnd(bm.busy) ELSE "drain") \in {"main", "sleep", "drain"}
    BY <2>1
  <2>. QED BY <1>2, <2>2, Goes DEF RxTask, At, Pcs, rxVars, txVars
<1>3. CASE Drain
  <2>1. /\ rxHeld' \in RxLoan /\ rxHeld' # NoLoan
        /\ bm' = [bm EXCEPT !.pc = "handle"] /\ bm.pc = "drain"
        /\ UNCHANGED <<txHeld, chan, stdioInit>>
    BY <1>3, HeadTailProperties, Loans DEF Drain, Rx!Take, Go, At, txVars, FwInv, RxTypes
  <2>2. BmTypes'
    BY <1>0, <2>1 DEF FwInv, BmTypes, Pcs
  <2>3. Hands'
    BY <1>0, <2>1 DEF FwInv, Hands, SendPcs
  <2>4. Remotes'
    BY <1>0, <2>1 DEF FwInv, Remotes
  <2>. QED BY <2>2, <2>3, <2>4
<1>4. CASE Drained
  <2>1. PollEnd(TRUE) = "main"
    BY DEF PollEnd
  <2>2. bm' = [bm EXCEPT !.pc = "main", !.busy = bm.busy]
    BY <1>0, <1>4, <2>1 DEF Drained, Go
  <2>. QED BY <1>0, <1>4, <2>2, Goes DEF Drained, At, Pcs, rxVars, txVars
<1>5. CASE Handle
  BY <1>5, HandleKept
<1>6. CASE ReturnBuffer
  <2>1. /\ rxHeld' = NoLoan
        /\ bm' = [bm EXCEPT !.pc = "drain"] /\ bm.pc = "return"
        /\ UNCHANGED <<txHeld, chan, stdioInit>>
    BY <1>6 DEF ReturnBuffer, AfterMessage, Rx!GiveBack, Go, At, txVars
  <2>2. BmTypes'
    BY <1>0, <2>1 DEF FwInv, BmTypes, Pcs
  <2>3. Hands'
    BY <1>0, <2>1 DEF FwInv, Hands, SendPcs
  <2>4. Remotes'
    BY <1>0, <2>1 DEF FwInv, Remotes
  <2>. QED BY <2>2, <2>3, <2>4
<1>. QED BY <1>1, <1>2, <1>3, <1>4, <1>5, <1>6 DEF PollStep

LEMMA SendKept ==
    ASSUME FwInv, SendStep
    PROVE  BmTypes' /\ Hands' /\ Remotes'
<1>0. /\ bm \in [pc : Pcs, phase : Phases, busy : BOOLEAN, out : Seq(FwMsgs), ret : {"main", "return"}]
      /\ Len(bm.out) <= 2
  BY DEF FwInv, BmTypes
<1>1. CASE SendTake
  <2>1. /\ txHeld' \in TxLoan /\ txHeld' # NoLoan
        /\ bm' = [bm EXCEPT !.pc = "fill"] /\ bm.pc = "send" /\ bm.out # <<>>
        /\ UNCHANGED <<rxHeld, chan, stdioInit>>
    BY <1>1, HeadTailProperties, Loans DEF SendTake, Tx!Take, Go, At, rxVars, FwInv, TxTypes
  <2>2. BmTypes'
    BY <1>0, <2>1 DEF FwInv, BmTypes, Pcs
  <2>3. Hands'
    BY <1>0, <2>1 DEF FwInv, Hands, SendPcs
  <2>4. Remotes'
    BY <1>0, <2>1 DEF FwInv, Remotes
  <2>. QED BY <2>2, <2>3, <2>4
<1>2. CASE SendFill
  <2>1. bm.pc = "fill" /\ bm.out # <<>> /\ txHeld \in TxLoan /\ txHeld # NoLoan
    BY <1>2 DEF SendFill, At, FwInv, Hands, TxTypes
  <2>2. Head(bm.out) \in FwMsgs /\ Tail(bm.out) \in Seq(FwMsgs) /\ Len(Tail(bm.out)) <= 2
    BY <1>0, <2>1, HeadTailProperties
  <2>3. txHeld'.data = Head(bm.out) /\ txHeld'.buf = txHeld.buf
    BY <1>2, <2>1 DEF SendFill, Tx!UseWith, TxLoan
  <2>4. txHeld' # NoLoan
    BY <2>1, <2>2, <2>3, FwMessages, Loans
  <2>5. /\ bm' = [bm EXCEPT !.pc = "publish", !.out = Tail(bm.out)]
        /\ UNCHANGED <<rxHeld, chan, stdioInit>>
    BY <1>2 DEF SendFill, rxVars
  <2>6. BmTypes'
    BY <1>0, <2>2, <2>5 DEF FwInv, BmTypes, Pcs
  <2>7. Hands'
    BY <1>0, <2>1, <2>2, <2>3, <2>4, <2>5 DEF FwInv, Hands, SendPcs
  <2>8. Remotes'
    BY <1>0, <2>5 DEF FwInv, Remotes
  <2>. QED BY <2>6, <2>7, <2>8
<1>3. CASE SendPublish
  <2>1. /\ txHeld' = NoLoan
        /\ bm' = [bm EXCEPT !.pc = "send"] /\ bm.pc = "publish"
        /\ UNCHANGED <<rxHeld, chan, stdioInit>>
    BY <1>3 DEF SendPublish, Tx!GiveBack, Go, At, rxVars
  <2>2. BmTypes'
    BY <1>0, <2>1 DEF FwInv, BmTypes, Pcs
  <2>3. Hands'
    BY <1>0, <2>1 DEF FwInv, Hands, SendPcs
  <2>4. Remotes'
    BY <1>0, <2>1 DEF FwInv, Remotes
  <2>. QED BY <2>2, <2>3, <2>4
<1>4. CASE SendWaits
  <2>1. bm' = [bm EXCEPT !.pc = "wait", !.busy = bm.busy]
    BY <1>0, <1>4 DEF SendWaits, NoBuffer, Go
  <2>. QED BY <1>0, <1>4, <2>1, Goes DEF SendWaits, At, Pcs, rxVars, txVars
<1>5. CASE SendTask
  <2>1. bm' = [bm EXCEPT !.pc = "send", !.busy = bm.busy]
    BY <1>0, <1>5 DEF SendTask, Go
  <2>. QED BY <1>0, <1>5, <2>1, Goes DEF SendTask, At, Pcs, rxVars, txVars
<1>6. CASE SendDone
  <2>1. /\ bm' = [bm EXCEPT !.pc = bm.ret, !.ret = "main"] /\ bm.pc = "send" /\ bm.out = <<>>
        /\ UNCHANGED <<rxHeld, txHeld, chan, stdioInit>>
    BY <1>6 DEF SendDone, At, rxVars, txVars
  <2>2. BmTypes'
    BY <1>0, <2>1 DEF FwInv, BmTypes, Pcs
  <2>3. Hands'
    BY <1>0, <2>1 DEF FwInv, Hands, SendPcs
  <2>4. Remotes'
    BY <1>0, <2>1 DEF FwInv, Remotes
  <2>. QED BY <2>2, <2>3, <2>4
<1>. QED BY <1>1, <1>2, <1>3, <1>4, <1>5, <1>6 DEF SendStep

LEMMA WfeKept ==
    ASSUME FwInv, Wfe
    PROVE  BmTypes' /\ Hands' /\ Remotes'
<1>0. bm \in [pc : Pcs, phase : Phases, busy : BOOLEAN, out : Seq(FwMsgs), ret : {"main", "return"}]
  BY DEF FwInv, BmTypes
<1>1. CASE WakeUp("sleep", "main")
  <2>1. bm' = [bm EXCEPT !.pc = "main", !.busy = bm.busy]
    BY <1>0, <1>1 DEF WakeUp, Go
  <2>. QED BY <1>0, <1>1, <2>1, Goes DEF WakeUp, At, Pcs, rxVars, txVars
<1>2. CASE WakeUp("wait", "sendtask")
  <2>1. bm' = [bm EXCEPT !.pc = "sendtask", !.busy = bm.busy]
    BY <1>0, <1>2 DEF WakeUp, Go
  <2>. QED BY <1>0, <1>2, <2>1, Goes DEF WakeUp, At, Pcs, rxVars, txVars
<1>. QED BY <1>1, <1>2 DEF Wfe

LEMMA FirmwareKept ==
    ASSUME FwInv, Firmware
    PROVE  FwInv'
<1>1. BmTypes' /\ Hands' /\ Remotes'
  BY MainKept, PollKept, SendKept, WfeKept DEF Firmware
<1>2. RxTypes'
  <2>1. Rx!Take \/ Rx!GiveBack \/ UNCHANGED rxVars
    BY DEF Firmware, MainStep, Boot, CreateCfg, Report, PollStep, TxTask, RxTask, Drain, Drained, Handle,
           ReturnBuffer, SendStep, SendTake, SendFill, SendPublish, SendWaits, SendTask, SendDone,
           Wfe, WakeUp
  <2>. QED BY <2>1, RxKept DEF FwInv
<1>3. TxTypes'
  <2>1. CASE SendFill
    <3>1. Head(bm.out) \in FwMsgs
      BY <2>1, HeadTailProperties DEF SendFill, At, FwInv, BmTypes, Hands
    <3>2. Tx!UseWith(Head(bm.out))
      BY <2>1 DEF SendFill
    <3>. QED BY <3>1, <3>2, TxKept DEF FwInv
  <2>2. CASE SendPublish
    BY <2>2, TxKept DEF SendPublish, At, FwInv, Hands
  <2>3. CASE ~ SendFill /\ ~ SendPublish
    <3>1. Tx!Take \/ UNCHANGED txVars
      BY <2>3 DEF Firmware, MainStep, Boot, CreateCfg, Report, PollStep, TxTask, RxTask, Drain, Drained, Handle,
             ReturnBuffer, SendStep, SendTake, SendWaits, SendTask, SendDone, Wfe, WakeUp
    <3>. QED BY <3>1, TxKept DEF FwInv
  <2>. QED BY <2>1, <2>2, <2>3
<1>. QED BY <1>1, <1>2, <1>3 DEF FwInv

\* Interrupts and Linux leave the firmware's own state and its hands alone.
LEMMA OthersKept ==
    ASSUME FwInv, (\E q \in {"rx", "tx"} : Irq(q)) \/ Linux \/ UNCHANGED vars
    PROVE  FwInv' /\ UNCHANGED <<bmVars, rxHeld, txHeld>>
<1>1. UNCHANGED <<bmVars, rxHeld, txHeld>>
  BY DEF Irq, Linux, Work, Users, Receive, Dispatch, ProbeSends, ProbeKicks, PutBack, WorkKicks, Ask,
         WriteDevice, SenderKicks, Recycle, vars, rxVars, txVars,
         Rx!LendWith, Rx!Collect, Tx!LendWith, Tx!Collect
<1>2. BmTypes' /\ Hands' /\ Remotes'
  BY <1>1 DEF FwInv, BmTypes, Hands, Remotes, bmVars
<1>3. RxTypes'
  <2>1. Rx!Collect \/ UNCHANGED rxVars \/ \E m \in FromLinux : Rx!LendWith(m)
    BY LinuxMessages
       DEF Irq, Linux, Work, Users, Receive, Dispatch, ProbeSends, ProbeKicks, PutBack, WorkKicks, Ask,
           WriteDevice, SenderKicks, Recycle, vars
  <2>. QED BY <2>1, RxKept DEF FwInv
<1>4. TxTypes'
  <2>1. Tx!Collect \/ UNCHANGED txVars \/ Tx!LendWith(Empty)
    BY DEF Irq, Linux, Work, Users, Receive, Dispatch, ProbeSends, ProbeKicks, PutBack, WorkKicks, Ask,
           WriteDevice, SenderKicks, Recycle, vars
  <2>. QED BY <2>1, TxKept DEF FwInv
<1>. QED BY <1>1, <1>2, <1>3, <1>4 DEF FwInv

LEMMA FwStep ==
    ASSUME FwInv, [Next]_vars
    PROVE  FwInv'
BY FirmwareKept, OthersKept DEF Next

(***************************************************************************)
(* The counters of interrupts and the state of Linux.                      *)
(***************************************************************************)
LEMMA ProcessedIs ==
    ASSUME IrqTypes, NEW q \in {"rx", "tx"}, Processed(q)
    PROVE  due' \in [{"rx", "tx"} -> 0 .. MaxDue]
BY DueAssumption DEF IrqTypes, Processed

LEMMA IrqStep ==
    ASSUME IrqTypes, [Next]_vars
    PROVE  IrqTypes'
<1>1. CASE UNCHANGED <<due, irq, event>>
  BY <1>1 DEF IrqTypes
<1>2. CASE Wfe
  BY <1>2 DEF IrqTypes, Wfe, WakeUp
<1>3. CASE \E q \in {"rx", "tx"} : Processed(q) /\ UNCHANGED <<irq, event>>
  BY <1>3, ProcessedIs DEF IrqTypes
<1>4. ASSUME NEW q \in {"rx", "tx"}, Irq(q)
      PROVE  IrqTypes'
  BY <1>4, DueAssumption DEF IrqTypes, Irq
<1>5. CASE ProbeKicks \/ WorkKicks \/ SenderKicks
  BY <1>5 DEF IrqTypes, ProbeKicks, WorkKicks, SenderKicks
<1>6. \/ UNCHANGED <<due, irq, event>> \/ Wfe \/ (\E q \in {"rx", "tx"} : Irq(q))
      \/ (\E q \in {"rx", "tx"} : Processed(q) /\ UNCHANGED <<irq, event>>)
      \/ ProbeKicks \/ WorkKicks \/ SenderKicks
  BY DEF Next, vars, irqVars, Firmware, MainStep, Boot, CreateCfg, Report, PollStep, TxTask, RxTask, Drain,
         Drained, Handle, ReturnBuffer, SendStep, SendTake, SendFill, SendPublish, SendWaits, SendTask,
         SendDone, Linux, Work, Users, Receive, Dispatch, ProbeSends, PutBack, Ask, WriteDevice, Recycle
<1>. QED BY <1>1, <1>2, <1>3, <1>4, <1>5, <1>6

LEMMA LinuxStep ==
    ASSUME TxTypes, LinuxTypes, [Next]_vars
    PROVE  LinuxTypes'
<1>1. CASE UNCHANGED <<work, sender, bound, asked>>
  BY <1>1 DEF LinuxTypes
<1>2. CASE Receive
  <2>1. Head(txBack) \in TxFull
    BY <1>2, HeadTailProperties DEF TxTypes, Receive, Tx!Collect
  <2>2. Head(txBack).data \in FwMsgs
    BY <2>1 DEF TxFull
  <2>. QED BY <1>2, <2>2 DEF LinuxTypes, Receive, WorkPcs
<1>3. CASE Dispatch
  <2>1. work.m \in FwMsgs
    BY <1>3 DEF LinuxTypes, Dispatch
  <2>2. bound' \subseteq Chans
    BY <1>3, <2>1, FwMessages DEF LinuxTypes, Dispatch
  <2>3. asked' \subseteq Reqs
    BY <1>3 DEF LinuxTypes, Dispatch
  <2>4. work' \in [pc : WorkPcs, m : FwMsgs \cup {Empty}] /\ work'.pc # "got"
    BY <1>3 DEF Dispatch, WorkPcs
  <2>. QED BY <1>3, <2>2, <2>3, <2>4 DEF LinuxTypes, Dispatch
<1>4. CASE ProbeSends \/ ProbeKicks \/ PutBack \/ WorkKicks
  BY <1>4 DEF LinuxTypes, ProbeSends, ProbeKicks, PutBack, WorkKicks, WorkGo, WorkPcs
<1>5. CASE Users
  BY <1>5 DEF LinuxTypes, Users, Ask, WriteDevice, SenderKicks
<1>6. UNCHANGED <<work, sender, bound, asked>> \/ Work \/ Users
  BY DEF Next, vars, linuxVars, Firmware, MainStep, Boot, CreateCfg, Report, PollStep, TxTask, RxTask, Drain,
         Drained, Handle, ReturnBuffer, SendStep, SendTake, SendFill, SendPublish, SendWaits, SendTask,
         SendDone, Wfe, WakeUp, Irq, Linux, Recycle
<1>. QED BY <1>1, <1>2, <1>3, <1>4, <1>5, <1>6 DEF Work

(***************************************************************************)
(* Nothing is asked before cfgInit has created the channel.                *)
(***************************************************************************)
LEMMA ChannelsStay ==
    ASSUME FwInv, [Next]_vars
    PROVE  chan'["cfg_mgmt"].state = "unused" => chan["cfg_mgmt"].state = "unused" /\ ~ CreateCfg
<1>1. CASE Boot
  <2>1. chan'["cfg_mgmt"] = chan["cfg_mgmt"]
    BY <1>1, CreatedIs DEF Boot, FwInv, Chans
  <2>2. ~ CreateCfg
    BY <1>1 DEF Boot, CreateCfg
  <2>. QED BY <2>1, <2>2
<1>2. CASE CreateCfg
  BY <1>2, CreatedIs DEF CreateCfg, FwInv, Chans
<1>3. CASE Handle
  <2>1. rxHeld.data \in FromLinux /\ chan' = Up(rxHeld.data)
    BY <1>3, HandleIs
  <2>2. ~ CreateCfg
    BY <1>3 DEF Handle, CreateCfg, At
  <2>. QED BY <2>1, <2>2, UpIs DEF FwInv, Chans
<1>4. CASE UNCHANGED chan /\ ~ CreateCfg
  BY <1>4
<1>5. Boot \/ CreateCfg \/ Handle \/ UNCHANGED chan
  BY DEF Next, vars, bmVars, Firmware, MainStep, Report, PollStep, TxTask, RxTask, Drain,
         Drained, ReturnBuffer, SendStep, SendTake, SendFill, SendPublish, SendWaits, SendTask,
         SendDone, Wfe, WakeUp, Irq, Linux, Work, Users, Receive, Dispatch, ProbeSends, ProbeKicks, PutBack,
         WorkKicks, Ask, WriteDevice, SenderKicks, Recycle
<1>. QED BY <1>1, <1>2, <1>3, <1>4, <1>5

\* The parts of Unasked, for a state in which the channel does not exist.
QuietOut == /\ \A k \in DOMAIN bm.out : bm.out[k] # Announcement("cfg_mgmt")
            /\ bm.pc = "publish" => txHeld.data # Announcement("cfg_mgmt")
            /\ \A k \in DOMAIN txBack : txBack[k].data # Announcement("cfg_mgmt")
QuietLinux == /\ "cfg_mgmt" \notin bound
              /\ work.pc = "got" => work.m # Announcement("cfg_mgmt")
QuietIn == /\ \A k \in DOMAIN rxLent : rxLent[k].data.dst # "cfg_mgmt"
           /\ rxHeld.data.dst # "cfg_mgmt"

LEMMA QuietOutStep ==
    ASSUME FwInv, QuietOut, [Next]_vars, ~ CreateCfg
    PROVE  QuietOut'
<1>0. /\ bm \in [pc : Pcs, phase : Phases, busy : BOOLEAN, out : Seq(FwMsgs), ret : {"main", "return"}]
      /\ txBack \in Seq(TxFull)
  BY DEF FwInv, BmTypes, TxTypes
<1>1. CASE UNCHANGED <<bm, txHeld, txBack>>
  BY <1>1 DEF QuietOut
<1>2. CASE Boot
  <2>1. bm'.out = <<Announcement("bm_stdio")>> /\ bm'.pc = "send" /\ txBack' = txBack
    BY <1>0, <1>2 DEF Boot, txVars
  <2>2. Announcement("bm_stdio") # Announcement("cfg_mgmt")
    BY DEF Announcement, Msg
  <2>. QED BY <2>1, <2>2 DEF QuietOut
<1>3. CASE Report
  <2>1. bm'.out = Lines /\ bm'.pc = "send" /\ txBack' = txBack
    BY <1>0, <1>3 DEF Report, txVars
  <2>2. Line # Announcement("cfg_mgmt")
    BY DEF Announcement, Line, Msg
  <2>3. Lines = <<>> \/ Lines = <<Line>>
    BY LinesType DEF FwInv
  <2>. QED BY <2>1, <2>2, <2>3 DEF QuietOut
<1>4. CASE Handle
  <2>1. PICK out \in Answer(Up(rxHeld.data), rxHeld.data) :
            bm' = [bm EXCEPT !.pc = "send", !.out = out, !.ret = "return"]
    BY <1>4, HandleIs
  <2>2. rxHeld.data \in FromLinux
    BY <1>4, HandleIs
  <2>3. \A k \in DOMAIN out : out[k] # Announcement("cfg_mgmt")
    BY <2>2, AnswerType DEF FwInv
  <2>4. bm'.out = out /\ bm'.pc = "send" /\ txBack' = txBack
    BY <1>0, <1>4, <2>1 DEF Handle, txVars
  <2>. QED BY <2>3, <2>4 DEF QuietOut
<1>5. CASE SendFill
  <2>1. bm.out # <<>> /\ txHeld \in TxLoan
    BY <1>5 DEF SendFill, At, FwInv, Hands, TxTypes
  <2>2. /\ bm'.out = Tail(bm.out) /\ txHeld'.data = Head(bm.out) /\ txBack' = txBack
    BY <1>0, <1>5, <2>1 DEF SendFill, Tx!UseWith, TxLoan
  <2>3. /\ Head(bm.out) = bm.out[1] /\ 1 \in DOMAIN bm.out
        /\ \A k \in DOMAIN Tail(bm.out) : k + 1 \in DOMAIN bm.out /\ Tail(bm.out)[k] = bm.out[k + 1]
    BY <1>0, <2>1
  <2>. QED BY <2>2, <2>3 DEF QuietOut
<1>6. CASE SendPublish
  <2>1. /\ txBack' = Append(txBack, txHeld) /\ bm'.pc = "send" /\ bm'.out = bm.out
        /\ txHeld.data # Announcement("cfg_mgmt") /\ txHeld \in TxFull
    <3>1. txHeld \in TxLoan /\ txHeld.data \in FwMsgs
      BY <1>6 DEF SendPublish, At, FwInv, Hands, TxTypes
    <3>. QED BY <1>0, <1>6, <3>1 DEF SendPublish, At, Go, Tx!GiveBack, QuietOut, TxLoan, TxFull
  <2>2. \A k \in DOMAIN txBack' : (k \in DOMAIN txBack /\ txBack'[k] = txBack[k]) \/ txBack'[k] = txHeld
    BY <1>0, <2>1, AppendProperties
  <2>. QED BY <2>1, <2>2 DEF QuietOut
<1>7. CASE Receive
  <2>1. txBack # <<>> /\ txBack' = Tail(txBack) /\ UNCHANGED <<bm, txHeld>>
    BY <1>7 DEF Receive, Tx!Collect, bmVars
  <2>2. \A k \in DOMAIN Tail(txBack) : k + 1 \in DOMAIN txBack /\ Tail(txBack)[k] = txBack[k + 1]
    BY <1>0, <2>1
  <2>. QED BY <2>1, <2>2 DEF QuietOut
<1>8. CASE bm'.out = bm.out /\ bm'.pc # "publish" /\ txBack' = txBack
  BY <1>8 DEF QuietOut
<1>9. CASE TxTask \/ Drain \/ ReturnBuffer \/ SendTake \/ SendWaits \/ SendTask \/ SendDone \/ Wfe
  BY <1>0, <1>8, <1>9 DEF TxTask, Drain, ReturnBuffer, AfterMessage, SendTake, SendWaits, NoBuffer, SendTask,
        SendDone, Wfe, WakeUp, Go, txVars, Tx!Take
<1>10. CASE RxTask \/ Drained
  <2>1. \A b \in BOOLEAN : PollEnd(b) \in {"main", "sleep"}
    BY DEF PollEnd
  <2>. QED BY <1>0, <1>8, <1>10, <2>1 DEF RxTask, Drained, Go, txVars
<1>11. CASE (\E q \in {"rx", "tx"} : Irq(q)) \/ (Linux /\ ~ Receive) \/ UNCHANGED vars
  <2>1. UNCHANGED <<bm, txHeld, txBack>>
    BY <1>11 DEF Irq, Linux, Work, Users, Dispatch, ProbeSends, ProbeKicks, PutBack, WorkKicks, Ask,
         WriteDevice, SenderKicks, Recycle, vars, bmVars, txVars, Tx!LendWith
  <2>. QED BY <1>1, <2>1
<1>. QED BY <1>2, <1>3, <1>4, <1>5, <1>6, <1>7, <1>9, <1>10, <1>11
     DEF Next, Firmware, MainStep, PollStep, SendStep

LEMMA QuietLinuxStep ==
    ASSUME FwInv, LinuxTypes, QuietOut, QuietLinux, [Next]_vars
    PROVE  QuietLinux'
<1>1. CASE UNCHANGED <<bound, work>>
  BY <1>1 DEF QuietLinux
<1>2. CASE Receive
  <2>1. work'.m = Head(txBack).data /\ bound' = bound /\ txBack # <<>>
    BY <1>2 DEF Receive, Tx!Collect
  <2>2. Head(txBack) = txBack[1] /\ 1 \in DOMAIN txBack
    BY <2>1 DEF FwInv, TxTypes
  <2>. QED BY <2>1, <2>2 DEF QuietLinux, QuietOut
<1>3. CASE Dispatch
  <2>1. work.m \in FwMsgs /\ work.m # Announcement("cfg_mgmt")
    BY <1>3 DEF Dispatch, LinuxTypes, QuietLinux
  <2>2. "cfg_mgmt" \notin bound'
    BY <1>3, <2>1, FwMessages DEF Dispatch, QuietLinux
  <2>3. work'.pc # "got"
    BY <1>3 DEF Dispatch
  <2>. QED BY <2>2, <2>3 DEF QuietLinux
<1>4. CASE ProbeSends \/ ProbeKicks \/ PutBack \/ WorkKicks
  BY <1>4 DEF QuietLinux, LinuxTypes, ProbeSends, ProbeKicks, PutBack, WorkKicks, WorkGo
<1>5. UNCHANGED <<bound, work>> \/ Work
  BY DEF Next, vars, linuxVars, Firmware, MainStep, Boot, CreateCfg, Report, PollStep, TxTask, RxTask, Drain,
         Drained, Handle, ReturnBuffer, SendStep, SendTake, SendFill, SendPublish, SendWaits, SendTask,
         SendDone, Wfe, WakeUp, Irq, Linux, Users, Ask, WriteDevice, SenderKicks, Recycle
<1>. QED BY <1>1, <1>2, <1>3, <1>4, <1>5 DEF Work

LEMMA QuietInStep ==
    ASSUME FwInv, QuietLinux, QuietIn, [Next]_vars
    PROVE  QuietIn'
<1>0. rxLent \in Seq(RxLoan)
  BY DEF FwInv, RxTypes
<1>1. CASE UNCHANGED <<rxLent, rxHeld>>
  BY <1>1 DEF QuietIn
<1>2. CASE Drain
  <2>1. rxLent # <<>> /\ rxHeld' = Head(rxLent) /\ rxLent' = Tail(rxLent)
    BY <1>2 DEF Drain, Rx!Take
  <2>2. /\ Head(rxLent) = rxLent[1] /\ 1 \in DOMAIN rxLent
        /\ \A k \in DOMAIN Tail(rxLent) : k + 1 \in DOMAIN rxLent /\ Tail(rxLent)[k] = rxLent[k + 1]
    BY <1>0, <2>1
  <2>. QED BY <2>1, <2>2 DEF QuietIn
<1>3. CASE ReturnBuffer
  BY <1>3, Loans DEF ReturnBuffer, Rx!GiveBack, QuietIn
<1>4. ASSUME NEW m \in FromLinux, Rx!LendWith(m), m.dst # "cfg_mgmt"
      PROVE  QuietIn'
  <2>1. PICK b \in rxHome : rxLent' = Append(rxLent, [buf |-> b, data |-> m])
    BY <1>4 DEF Rx!LendWith
  <2>2. [buf |-> b, data |-> m] \in RxLoan /\ [buf |-> b, data |-> m].data = m
    BY DEF FwInv, RxTypes, RxLoan
  <2>3. \A k \in DOMAIN rxLent' :
           (k \in DOMAIN rxLent /\ rxLent'[k] = rxLent[k]) \/ rxLent'[k] = [buf |-> b, data |-> m]
    BY <1>0, <2>1, <2>2, AppendProperties
  <2>. QED BY <1>4, <2>2, <2>3 DEF QuietIn, Rx!LendWith
<1>5. CASE ProbeSends \/ WriteDevice
  BY <1>4, <1>5, LinuxMessages DEF ProbeSends, WriteDevice
<1>6. CASE \E r \in Reqs : Ask(r)
  BY <1>6 DEF Ask, QuietLinux
<1>7. UNCHANGED <<rxLent, rxHeld>> \/ Drain \/ ReturnBuffer \/ ProbeSends \/ WriteDevice \/ \E r \in Reqs : Ask(r)
  BY DEF Next, vars, rxVars, Firmware, MainStep, Boot, CreateCfg, Report, PollStep, TxTask, RxTask,
         Drained, Handle, SendStep, SendTake, SendFill, SendPublish, SendWaits, SendTask,
         SendDone, Wfe, WakeUp, Irq, Linux, Work, Users, Receive, Dispatch, ProbeKicks, PutBack, WorkKicks,
         SenderKicks, Recycle, Rx!Collect
<1>. QED BY <1>1, <1>2, <1>3, <1>5, <1>6, <1>7

LEMMA UnaskedStep ==
    ASSUME FwInv, LinuxTypes, Unasked, [Next]_vars
    PROVE  Unasked'
<1> SUFFICES ASSUME chan'["cfg_mgmt"].state = "unused"
             PROVE  QuietOut' /\ QuietLinux' /\ QuietIn'
  BY DEF Unasked, QuietOut, QuietLinux, QuietIn
<1>1. chan["cfg_mgmt"].state = "unused" /\ ~ CreateCfg
  BY ChannelsStay
<1>2. QuietOut /\ QuietLinux /\ QuietIn
  BY <1>1 DEF Unasked, QuietOut, QuietLinux, QuietIn
<1>. QED BY <1>1, <1>2, QuietOutStep, QuietLinuxStep, QuietInStep

(***************************************************************************)
(* The invariant holds.                                                    *)
(***************************************************************************)
LEMMA InitInv ==
    ASSUME Init
    PROVE  Inv
<1>1. RxTypes
  BY EmptySeq DEF Init, RxTypes
<1>2. TxTypes
  <2>1. PICK s \in Orders(TxBufs) : txLent = [i \in DOMAIN s |-> [buf |-> s[i], data |-> Empty]]
    BY DEF Init
  <2>2. Cardinality(TxBufs) \in Nat
    BY BufsAssumption, FS_CardinalityType
  <2>3. s \in [1 .. Cardinality(TxBufs) -> TxBufs]
    BY DEF Orders
  <2>4. \A i \in 1 .. Cardinality(TxBufs) : [buf |-> s[i], data |-> Empty] \in TxLoan
    BY <2>3, FwMessages DEF TxLoan
  <2>5. txLent \in [1 .. Cardinality(TxBufs) -> TxLoan]
    BY <2>1, <2>3, <2>4
  <2>6. txLent \in Seq(TxLoan)
    BY <2>2, <2>5, SeqDef
  <2>. QED BY <2>6, EmptySeq DEF Init, TxTypes
<1>3. BmTypes
  <2>1. Unused \in [state : {"unused", "announced", "up"}, remote : Addrs]
    BY DEF Unused, Addrs
  <2>2. <<>> \in Seq(FwMsgs) /\ Len(<<>>) <= 2
    BY EmptySeq
  <2>. QED BY <2>1, <2>2 DEF Init, BmTypes, Pcs, Phases
<1>4. IrqTypes
  <2>1. 0 \in 0 .. MaxDue
    BY DueAssumption
  <2>2. due \in [{"rx", "tx"} -> 0 .. MaxDue]
    BY <2>1 DEF Init
  <2>. QED BY <2>2 DEF Init, IrqTypes
<1>5. LinuxTypes
  BY DEF Init, LinuxTypes, WorkPcs
<1>6. Hands
  BY DEF Init, Hands, SendPcs
<1>7. Remotes
  BY DEF Init, Remotes, Unused
<1>8. Unasked
  BY Loans DEF Init, Unasked
<1>. QED BY <1>1, <1>2, <1>3, <1>4, <1>5, <1>6, <1>7, <1>8 DEF Inv, Types

LEMMA InvStep ==
    ASSUME Inv, [Next]_vars
    PROVE  Inv'
<1>1. FwInv /\ IrqTypes /\ LinuxTypes /\ Unasked
  BY DEF Inv, Types, FwInv
<1>2. FwInv' /\ IrqTypes' /\ LinuxTypes' /\ Unasked'
  BY <1>1, FwStep, IrqStep, LinuxStep, UnaskedStep DEF FwInv
<1>. QED BY <1>2 DEF Inv, Types, FwInv

LEMMA InvHolds == Spec => []Inv
<1>1. Init => Inv
  BY InitInv
<1>2. Inv /\ [Next]_vars => Inv'
  BY InvStep
<1>. QED BY <1>1, <1>2, PTL DEF Spec

LEMMA InvTypes ==
    ASSUME Inv
    PROVE  TypeOK
<1>1. RxTypes /\ TxTypes /\ BmTypes /\ IrqTypes /\ LinuxTypes
  BY DEF Inv, Types
<1>2. /\ rxHome \subseteq RxBufs
      /\ \A s \in {rxLent, rxBack} : \A i \in DOMAIN s : s[i] \in Rx!Loan
  <2>1. /\ \A i \in DOMAIN rxLent : rxLent[i] \in RxLoan
        /\ \A i \in DOMAIN rxBack : rxBack[i] \in RxLoan
    BY <1>1 DEF RxTypes
  <2>2. Rx!Loan = RxLoan
    BY DEF Rx!Loan, RxLoan
  <2>. QED BY <1>1, <2>1, <2>2 DEF RxTypes
<1>3. /\ txHome \subseteq TxBufs
      /\ \A s \in {txLent, txBack} : \A i \in DOMAIN s : s[i] \in Tx!Loan
  <2>1. \A i \in DOMAIN txLent : txLent[i] \in TxLoan
    BY <1>1 DEF TxTypes
  <2>2. \A i \in DOMAIN txBack : txBack[i] \in TxFull
    BY <1>1 DEF TxTypes
  <2>3. Tx!Loan = TxLoan /\ TxFull \subseteq TxLoan
    BY Loans DEF Tx!Loan, TxLoan
  <2>. QED BY <1>1, <2>1, <2>2, <2>3 DEF TxTypes
<1>4. /\ chan \in [Chans -> [state : {"unused", "announced", "up"}, remote : Addrs]]
      /\ stdioInit \in BOOLEAN
      /\ bm.pc \in Pcs /\ bm.phase \in Phases /\ bm.busy \in BOOLEAN
      /\ bm.ret \in {"main", "return"} /\ Len(bm.out) \in 0 .. 2
  <2>1. bm \in [pc : Pcs, phase : Phases, busy : BOOLEAN, out : Seq(FwMsgs), ret : {"main", "return"}]
    BY <1>1 DEF BmTypes
  <2>2. Len(bm.out) \in Nat /\ Len(bm.out) <= 2
    BY <1>1, <2>1, LenProperties DEF BmTypes
  <2>3. Len(bm.out) \in 0 .. 2
    <3>1. \A n \in Nat : n <= 2 => n \in 0 .. 2
      OBVIOUS
    <3>. QED BY <2>2, <3>1, Zenon
  <2>. QED BY <1>1, <2>1, <2>3 DEF BmTypes
<1>5. work \in [pc : WorkPcs, m : Message]
  BY <1>1, FwMessages DEF LinuxTypes
<1>. QED BY <1>1, <1>2, <1>3, <1>4, <1>5 DEF TypeOK, IrqTypes, LinuxTypes

\* Type correctness: the two rings hold loans of their own buffers, the firmware is
\* at one of its program points with at most two messages to send, kicks are counted
\* without underflow (remoteproc.c: virtqueue_processed) and Linux has asked only
\* for requests that exist.
THEOREM TypeCorrect == Spec => []TypeOK
BY InvHolds, InvTypes, PTL

\* rpmsg_send and the callbacks address a message only to a remote end that was
\* heard from: nothing that Linux gets in tx_vring is addressed to RPMSG_ADDR_ANY.
THEOREM NoBroadcastHolds == Spec => []NoBroadcast
<1>1. Inv => NoBroadcast
  <2> SUFFICES ASSUME Inv, NEW i \in DOMAIN txBack
               PROVE  txBack[i].data.dst # "any"
    BY DEF NoBroadcast
  <2>1. txBack[i] \in TxFull
    BY DEF Inv, Types, TxTypes
  <2>. QED BY <2>1, FwMessages DEF TxFull
<1>. QED BY <1>1, InvHolds, PTL

(***************************************************************************)
(* No message is stranded.                                                 *)
(***************************************************************************)
\* What is in hand at the points of the program from which it does not drain.
LEMMA EmptyHands ==
    ASSUME Hands
    PROVE  /\ bm.pc \in {"main", "rxtask", "drain", "sleep"} => rxHeld = NoLoan
           /\ bm.pc \in {"handle", "return"} => rxHeld # NoLoan
BY DEF Hands, SendPcs

LEMMA StrandedFirmware ==
    ASSUME Inv, NoStrandedMessage, Firmware
    PROVE  NoStrandedMessage'
<1>0. /\ bm \in [pc : Pcs, phase : Phases, busy : BOOLEAN, out : Seq(FwMsgs), ret : {"main", "return"}]
      /\ Hands /\ due \in [{"rx", "tx"} -> 0 .. MaxDue]
  BY DEF Inv, Types, BmTypes, IrqTypes
<1>1. CASE MainStep \/ SendDone \/ Wfe
  BY <1>0, <1>1, EmptyHands
     DEF MainStep, Boot, CreateCfg, Report, SendDone, Wfe, WakeUp, Go, At, rxVars, txVars, irqVars, linuxVars,
         NoStrandedMessage, Draining, KickComes
<1>2. CASE TxTask
  BY <1>0, <1>2, EmptyHands
     DEF TxTask, Polls, Processed, Go, At, rxVars, txVars, linuxVars, NoStrandedMessage, Draining, KickComes
<1>3. CASE RxTask
  <2>1. PollEnd(bm.busy) \in {"main", "sleep"}
    BY DEF PollEnd
  <2>2. CASE due["rx"] = 0
    <3>1. due'["rx"] = 0 /\ bm'.pc \in {"main", "sleep"}
      BY <1>0, <1>3, <2>1, <2>2 DEF RxTask, Processed
    <3>2. rxLent # <<>> => irq["rx"] \/ sender \/ work.pc = "hellokick"
      BY <1>0, <1>3, <2>2, EmptyHands DEF RxTask, At, NoStrandedMessage, Draining, KickComes
    <3>. QED BY <1>3, <3>1, <3>2 DEF RxTask, At, rxVars, linuxVars, NoStrandedMessage, KickComes
  <2>3. CASE due["rx"] # 0
    <3>1. bm'.pc = "drain"
      BY <1>0, <1>3, <2>3 DEF RxTask
    <3>. QED BY <3>1 DEF At, NoStrandedMessage, Draining
  <2>. QED BY <2>2, <2>3
<1>4. CASE Drain \/ ReturnBuffer
  <2>1. bm'.pc \in {"handle", "drain"}
    BY <1>0, <1>4 DEF Drain, ReturnBuffer, AfterMessage, Go
  <2>. QED BY <2>1 DEF At, NoStrandedMessage, Draining
<1>5. CASE Drained
  <2>1. PollEnd(TRUE) = "main"
    BY DEF PollEnd
  <2>2. bm'.pc = "main" /\ rxLent' = <<>>
    BY <1>0, <1>5, <2>1 DEF Drained, Go, rxVars
  <2>. QED BY <2>2 DEF At, NoStrandedMessage
<1>6. CASE Handle
  <2>1. bm'.pc = "send" /\ rxHeld' # NoLoan
    BY <1>0, <1>6, EmptyHands DEF Handle, Call, At, rxVars
  <2>. QED BY <2>1 DEF At, NoStrandedMessage, Draining
<1>7. CASE SendTake \/ SendFill \/ SendPublish \/ SendTask
  BY <1>0, <1>7 DEF SendTake, SendFill, SendPublish, SendTask, Processed, Go, At, rxVars, irqVars, linuxVars,
     NoStrandedMessage, Draining, KickComes
<1>8. CASE SendWaits
  BY <1>0, <1>8 DEF SendWaits, NoBuffer, Go, At, rxVars, txVars, irqVars, linuxVars,
     NoStrandedMessage, Draining, KickComes
<1>. QED BY <1>1, <1>2, <1>3, <1>4, <1>5, <1>6, <1>7, <1>8 DEF Firmware, PollStep, SendStep

LEMMA StrandedOthers ==
    ASSUME Inv, NoStrandedMessage, (\E q \in {"rx", "tx"} : Irq(q)) \/ Linux \/ UNCHANGED vars
    PROVE  NoStrandedMessage'
<1>0. /\ due \in [{"rx", "tx"} -> 0 .. MaxDue] /\ irq \in [{"rx", "tx"} -> BOOLEAN]
      /\ work \in [pc : WorkPcs, m : FwMsgs \cup {Empty}] /\ sender \in BOOLEAN
  BY DEF Inv, Types, IrqTypes, LinuxTypes
<1>1. UNCHANGED <<bm, rxHeld>>
  BY OthersKept DEF Inv, Types, FwInv, bmVars
<1>2. ASSUME NEW q \in {"rx", "tx"}, Irq(q)
      PROVE  NoStrandedMessage'
  <2>1. event' /\ UNCHANGED <<rxLent, txLent, work, sender>>
    BY <1>2 DEF Irq, rxVars, txVars, linuxVars
  <2>2. CASE q = "rx"
    <3>1. due'["rx"] # 0
      BY <1>0, <1>2, <2>2 DEF Irq
    <3>. QED BY <2>1, <3>1 DEF NoStrandedMessage, KickComes
  <2>3. CASE q = "tx"
    <3>1. due'["rx"] = due["rx"] /\ irq'["rx"] = irq["rx"]
      BY <1>0, <1>2, <2>3 DEF Irq
    <3>. QED BY <1>1, <2>1, <3>1 DEF NoStrandedMessage, Draining, KickComes, At
  <2>. QED BY <2>2, <2>3
<1>3. CASE Receive \/ Dispatch \/ PutBack
  <2>1. UNCHANGED <<rxLent, due, irq, event, sender>> /\ work.pc # "hellokick" /\ work.pc # "rekick"
    BY <1>3 DEF Receive, Dispatch, PutBack, rxVars, irqVars
  <2>2. txLent' = txLent \/ work'.pc = "rekick"
    BY <1>0, <1>3 DEF Receive, Dispatch, PutBack, WorkGo, txVars, Tx!Collect
  <2>. QED BY <1>1, <2>1, <2>2 DEF NoStrandedMessage, Draining, KickComes, At
<1>4. CASE ProbeSends \/ ProbeKicks \/ WorkKicks
  <2>1. UNCHANGED <<txLent, due, event, sender>>
    BY <1>4 DEF ProbeSends, ProbeKicks, WorkKicks, txVars, irqVars
  <2>2. CASE ProbeSends
    <3>1. work.pc = "hello" /\ work'.pc = "hellokick" /\ irq' = irq
      BY <1>0, <2>2 DEF ProbeSends, WorkGo, irqVars
    <3>. QED BY <1>1, <2>1, <3>1 DEF NoStrandedMessage, KickComes, At
  <2>3. CASE ProbeKicks
    <3>1. work.pc = "hellokick" /\ irq'["rx"] /\ irq'["tx"] = irq["tx"]
      BY <1>0, <2>3 DEF ProbeKicks
    <3>. QED BY <1>1, <2>1, <3>1 DEF NoStrandedMessage, KickComes, At
  <2>4. CASE WorkKicks
    <3>1. work.pc = "rekick" /\ irq'["tx"] /\ irq'["rx"] = irq["rx"] /\ rxLent' = rxLent
      BY <1>0, <2>4 DEF WorkKicks, rxVars
    <3>. QED BY <1>1, <2>1, <3>1 DEF NoStrandedMessage, Draining, KickComes, At
  <2>. QED BY <1>4, <2>2, <2>3, <2>4
<1>5. CASE Users
  <2>1. UNCHANGED <<txLent, due, event, work>> /\ (sender' \/ irq'["rx"]) /\ irq'["tx"] = irq["tx"]
    BY <1>0, <1>5 DEF Users, Ask, WriteDevice, SenderKicks, txVars, irqVars
  <2>. QED BY <1>1, <2>1 DEF NoStrandedMessage, KickComes, At
<1>6. CASE Recycle \/ UNCHANGED vars
  BY <1>1, <1>6 DEF Recycle, Rx!Collect, vars, rxVars, txVars, irqVars, linuxVars,
                    NoStrandedMessage, Draining, KickComes, At
<1>. QED BY <1>2, <1>3, <1>4, <1>5, <1>6 DEF Linux, Work

\* The kicks of remoteproc.c lose nothing: a message in rx_vring always has a kick
\* still to be processed or a firmware that is draining the ring, and wfe is never
\* entered, neither by the handshake nor by block_send_message, with work to do and
\* no interrupt to come.
THEOREM NoStrandedHolds == Spec => []NoStrandedMessage
<1>1. Init => NoStrandedMessage
  BY DEF Init, NoStrandedMessage, At
<1>2. Inv /\ NoStrandedMessage /\ [Next]_vars => NoStrandedMessage'
  BY StrandedFirmware, StrandedOthers DEF Next
<1>. QED BY <1>1, <1>2, InvHolds, PTL DEF Spec

(***************************************************************************)
(* The refinement of RpmsgBus.  First what the mapping is made of: the     *)
(* contents of a sequence of loans, and concatenations of messages.        *)
(***************************************************************************)
AnyLoan == [buf : Nat, data : Message]

LEMMA LoansOfAll ==
    /\ \A s \in Seq(RxLoan) : s \in Seq(AnyLoan)
    /\ \A s \in Seq(TxFull) : s \in Seq(AnyLoan)
    /\ RxLoan \subseteq AnyLoan /\ TxFull \subseteq AnyLoan
    /\ \A s \in Seq(FwMsgs) : s \in Seq(Message)
<1>1. RxLoan \subseteq AnyLoan /\ TxFull \subseteq AnyLoan
  BY FwMessages, LinuxMessages, BufsAssumption DEF RxLoan, TxFull, AnyLoan
<1>2. Seq(RxLoan) \subseteq Seq(AnyLoan) /\ Seq(TxFull) \subseteq Seq(AnyLoan)
  BY <1>1, SeqMonotonic
<1>3. Seq(FwMsgs) \subseteq Seq(Message)
  BY FwMessages, SeqMonotonic
<1>. QED BY <1>1, <1>2, <1>3

LEMMA DatasType ==
    ASSUME NEW s \in Seq(AnyLoan)
    PROVE  /\ Datas(s) \in Seq(Message) /\ Len(Datas(s)) = Len(s)
           /\ \A k \in 1 .. Len(s) : Datas(s)[k] = s[k].data
<1>1. Len(s) \in Nat /\ DOMAIN s = 1 .. Len(s) /\ \A k \in 1 .. Len(s) : s[k] \in AnyLoan
  OBVIOUS
<1>2. \A k \in 1 .. Len(s) : s[k].data \in Message
  BY <1>1 DEF AnyLoan
<1>3. Datas(s) \in [1 .. Len(s) -> Message]
  BY <1>1, <1>2 DEF Datas
<1>. QED BY <1>1, <1>3 DEF Datas

LEMMA DatasAppend ==
    ASSUME NEW s \in Seq(AnyLoan), NEW x \in AnyLoan
    PROVE  x.data \in Message /\ Datas(Append(s, x)) = Datas(s) \o <<x.data>>
<1> DEFINE t == Append(s, x)
           u == Datas(s)
           v == Datas(t)
           m == x.data
<1>0. m \in Message
  BY DEF AnyLoan
<1>1. /\ t \in Seq(AnyLoan) /\ Len(s) \in Nat /\ Len(t) = Len(s) + 1
      /\ t[Len(s) + 1] = x /\ \A k \in 1 .. Len(s) : t[k] = s[k]
  OBVIOUS
<1>2. u \in Seq(Message) /\ Len(u) = Len(s) /\ \A k \in 1 .. Len(s) : u[k] = s[k].data
  BY DatasType
<1>3. v \in Seq(Message) /\ Len(v) = Len(t) /\ \A k \in 1 .. Len(t) : v[k] = t[k].data
  BY <1>1, DatasType
<1>4. v[Len(s) + 1] = m /\ \A k \in 1 .. Len(s) : v[k] = u[k]
  BY <1>1, <1>2, <1>3
<1> HIDE DEF t, u, v, m
<1>5. v = Append(u, m)
  BY <1>0, <1>1, <1>2, <1>3, <1>4
<1>6. Append(u, m) = u \o <<m>>
  BY <1>0, <1>2, AppendIsConcat
<1>. QED BY <1>0, <1>5, <1>6 DEF t, u, v, m

LEMMA DatasTail ==
    ASSUME NEW s \in Seq(AnyLoan), s # <<>>
    PROVE  /\ Head(s) \in AnyLoan /\ Tail(s) \in Seq(AnyLoan) /\ Head(s).data \in Message
           /\ Datas(s) # <<>> /\ Head(Datas(s)) = Head(s).data
           /\ Datas(Tail(s)) = Tail(Datas(s))
<1> DEFINE t == Tail(s)
           u == Datas(s)
           v == Datas(t)
           h == Head(s)
<1>1. /\ t \in Seq(AnyLoan) /\ Len(s) \in Nat \ {0} /\ Len(t) = Len(s) - 1 /\ h = s[1]
      /\ h \in AnyLoan /\ \A k \in 1 .. Len(t) : t[k] = s[k + 1]
  OBVIOUS
<1>2. u \in Seq(Message) /\ Len(u) = Len(s) /\ \A k \in 1 .. Len(s) : u[k] = s[k].data
  BY DatasType
<1>3. v \in Seq(Message) /\ Len(v) = Len(t) /\ \A k \in 1 .. Len(t) : v[k] = t[k].data
  BY <1>1, DatasType
<1>4. h.data \in Message /\ u[1] = h.data
  BY <1>1, <1>2 DEF AnyLoan
<1>5. \A k \in 1 .. Len(t) : v[k] = u[k + 1]
  <2> TAKE k \in 1 .. Len(t)
  <2>1. k + 1 \in 1 .. Len(s) /\ t[k] = s[k + 1]
    BY <1>1
  <2>. QED BY <1>2, <1>3, <2>1
<1> HIDE DEF t, u, v, h
<1>6. u # <<>> /\ Head(u) = u[1]
  BY <1>1, <1>2
<1>7. Tail(u) \in Seq(Message) /\ Len(Tail(u)) = Len(u) - 1 /\ \A k \in 1 .. Len(Tail(u)) : Tail(u)[k] = u[k + 1]
  BY <1>2, <1>6, HeadTailProperties
<1>8. Len(v) = Len(Tail(u)) /\ \A k \in 1 .. Len(v) : v[k] = Tail(u)[k]
  BY <1>1, <1>2, <1>3, <1>5, <1>7
<1>9. v = Tail(u)
  BY <1>3, <1>7, <1>8, SeqEqual
<1>. QED BY <1>1, <1>4, <1>6, <1>9 DEF t, u, v, h

LEMMA Concats ==
    ASSUME NEW a \in Seq(Message), NEW b \in Seq(Message), NEW c \in Seq(Message), NEW m \in Message
    PROVE  /\ <<m>> \in Seq(Message) /\ <<>> \in Seq(Message)
           /\ a \o b \in Seq(Message)
           /\ a \o <<>> = a /\ <<>> \o a = a
           /\ (a \o b) \o c = a \o (b \o c)
           /\ Append(a, m) = a \o <<m>>
BY EmptySeq, ConcatProperties, ConcatEmptySeq, ConcatAssociative, AppendIsConcat

LEMMA HeadTailConcat ==
    ASSUME NEW a \in Seq(Message), a # <<>>, NEW b \in Seq(Message)
    PROVE  /\ Head(a) \in Message /\ Tail(a) \in Seq(Message)
           /\ a = <<Head(a)>> \o Tail(a)
           /\ a \o b # <<>> /\ Head(a \o b) = Head(a) /\ Tail(a \o b) = Tail(a) \o b
<1> DEFINE s == a \o b
           t == Tail(a) \o b
           u == Tail(s)
           h == <<Head(a)>>
           w == h \o Tail(a)
<1>1. /\ Head(a) \in Message /\ Tail(a) \in Seq(Message) /\ Len(a) \in Nat \ {0} /\ Len(b) \in Nat
      /\ Head(a) = a[1] /\ Len(Tail(a)) = Len(a) - 1
      /\ \A k \in 1 .. Len(a) - 1 : Tail(a)[k] = a[k + 1]
  OBVIOUS
<1>2. /\ s \in Seq(Message) /\ Len(s) = Len(a) + Len(b)
      /\ \A i \in 1 .. Len(a) + Len(b) : s[i] = IF i <= Len(a) THEN a[i] ELSE b[i - Len(a)]
  BY ConcatProperties
<1>3. /\ t \in Seq(Message) /\ Len(t) = Len(a) - 1 + Len(b)
      /\ \A i \in 1 .. Len(a) - 1 + Len(b) :
            t[i] = IF i <= Len(a) - 1 THEN Tail(a)[i] ELSE b[i - (Len(a) - 1)]
  BY <1>1, ConcatProperties
<1>4. h \in Seq(Message) /\ Len(h) = 1 /\ h[1] = a[1]
  BY <1>1
<1>5. /\ w \in Seq(Message) /\ Len(w) = Len(a)
      /\ \A i \in 1 .. Len(a) : w[i] = IF i <= 1 THEN h[i] ELSE Tail(a)[i - 1]
  BY <1>1, <1>4, ConcatProperties
<1> HIDE DEF s, t, h, w
<1>6. s # <<>> /\ Head(s) = s[1] /\ s[1] = a[1]
  BY <1>1, <1>2
<1>7. u \in Seq(Message) /\ Len(u) = Len(s) - 1 /\ \A k \in 1 .. Len(u) : u[k] = s[k + 1]
  BY <1>2, <1>6, HeadTailProperties
<1> HIDE DEF u
<1>8. u = t
  <2>1. Len(u) = Len(t)
    BY <1>1, <1>2, <1>3, <1>7
  <2>2. ASSUME NEW k \in 1 .. Len(u) PROVE u[k] = t[k]
    <3>1. k \in Nat \ {0} /\ k <= Len(a) - 1 + Len(b) /\ k + 1 \in 1 .. Len(a) + Len(b)
      BY <1>1, <1>2, <1>7
    <3>2. u[k] = IF k + 1 <= Len(a) THEN a[k + 1] ELSE b[k + 1 - Len(a)]
      BY <1>2, <1>7, <3>1
    <3>3. t[k] = IF k <= Len(a) - 1 THEN Tail(a)[k] ELSE b[k - (Len(a) - 1)]
      BY <1>1, <1>3, <3>1
    <3>4. k <= Len(a) - 1 => Tail(a)[k] = a[k + 1]
      BY <1>1, <3>1
    <3>5. k + 1 <= Len(a) <=> k <= Len(a) - 1
      BY <1>1, <3>1
    <3>6. k + 1 - Len(a) = k - (Len(a) - 1)
      BY <1>1, <3>1
    <3>. QED BY <3>2, <3>3, <3>4, <3>5, <3>6
  <2>. QED BY <1>3, <1>7, <2>1, <2>2, SeqEqual
<1>9. w = a
  <2>1. ASSUME NEW i \in 1 .. Len(w) PROVE w[i] = a[i]
    <3>1. CASE i = 1
      BY <1>1, <1>4, <1>5, <3>1
    <3>2. CASE i > 1
      <4>1. i \in Nat /\ i \in 1 .. Len(a) /\ ~ (i <= 1) /\ i - 1 \in 1 .. Len(a) - 1 /\ i - 1 + 1 = i
        BY <1>1, <1>5, <3>2
      <4>2. w[i] = Tail(a)[i - 1]
        BY <1>5, <4>1
      <4>3. Tail(a)[i - 1] = a[i - 1 + 1]
        BY <1>1, <4>1
      <4>. QED BY <4>1, <4>2, <4>3
    <3>. QED BY <1>1, <1>5, <3>1, <3>2
  <2>. QED BY <1>5, <2>1, SeqEqual
<1>. QED BY <1>1, <1>6, <1>8, <1>9 DEF s, t, u, h, w

\* The message in the firmware's hands that has not been served, and the one that
\* is in a buffer but not published.
InHand == IF At("handle") THEN <<rxHeld.data>> ELSE <<>>
InFlight == IF At("publish") THEN <<txHeld.data>> ELSE <<>>

LEMMA BusIs ==
    /\ ToBm = InHand \o Datas(rxLent) /\ ToBm' = InHand' \o Datas(rxLent')
    /\ ToLinux = (Datas(txBack) \o InFlight) \o bm.out
    /\ ToLinux' = (Datas(txBack') \o InFlight') \o bm'.out
BY DEF ToBm, ToLinux, InHand, InFlight, Datas

LEMMA BusTypes ==
    ASSUME Inv
    PROVE  /\ bm \in [pc : Pcs, phase : Phases, busy : BOOLEAN, out : Seq(FwMsgs), ret : {"main", "return"}]
           /\ rxLent \in Seq(AnyLoan) /\ Datas(rxLent) \in Seq(Message)
           /\ txBack \in Seq(AnyLoan) /\ Datas(txBack) \in Seq(Message)
           /\ InHand \in Seq(Message) /\ InFlight \in Seq(Message) /\ bm.out \in Seq(Message)
           /\ bm.pc \notin SendPcs => bm.out = <<>>
           /\ FwInv
<1>1. /\ bm \in [pc : Pcs, phase : Phases, busy : BOOLEAN, out : Seq(FwMsgs), ret : {"main", "return"}]
      /\ rxLent \in Seq(RxLoan) /\ txBack \in Seq(TxFull) /\ Hands /\ FwInv
      /\ rxHeld \in RxLoan \cup {NoLoan}
  BY DEF Inv, Types, BmTypes, RxTypes, TxTypes, FwInv
<1>2. rxLent \in Seq(AnyLoan) /\ txBack \in Seq(AnyLoan) /\ bm.out \in Seq(Message)
  BY <1>1, LoansOfAll
<1>3. Datas(rxLent) \in Seq(Message) /\ Datas(txBack) \in Seq(Message)
  BY <1>2, DatasType
<1>4. InHand \in Seq(Message)
  <2>1. CASE At("handle")
    <3>1. rxHeld \in RxLoan
      BY <1>1, <2>1, EmptyHands DEF At
    <3>2. rxHeld.data \in Message
      BY <3>1, LinuxMessages DEF RxLoan
    <3>. QED BY <2>1, <3>2 DEF InHand
  <2>2. CASE ~ At("handle")
    BY <2>2, EmptySeq DEF InHand
  <2>. QED BY <2>1, <2>2
<1>5. InFlight \in Seq(Message)
  <2>1. CASE At("publish")
    <3>1. txHeld.data \in Message
      BY <1>1, <2>1, FwMessages DEF At, Hands
    <3>. QED BY <2>1, <3>1 DEF InFlight
  <2>2. CASE ~ At("publish")
    BY <2>2, EmptySeq DEF InFlight
  <2>. QED BY <2>1, <2>2
<1>. QED BY <1>1, <1>2, <1>3, <1>4, <1>5 DEF Hands

\* Steps that move nothing.
LEMMA SameToBm ==
    ASSUME rxLent' = rxLent, bm.pc # "handle", bm'.pc # "handle"
    PROVE  ToBm' = ToBm
BY BusIs DEF InHand, At

LEMMA SameToLinux ==
    ASSUME txBack' = txBack, bm'.out = bm.out, bm.pc # "publish", bm'.pc # "publish"
    PROVE  ToLinux' = ToLinux
BY BusIs DEF InFlight, At

\* The firmware begins to send out, with nothing left to send from before.
LEMMA Says ==
    ASSUME Inv, bm.out = <<>>, bm.pc # "publish", bm'.pc # "publish", txBack' = txBack,
           NEW out \in Seq(FwMsgs), bm'.out = out
    PROVE  /\ ToLinux' = ToLinux \o out
           /\ \A m : out = <<m>> => ToLinux' = Append(ToLinux, m)
           /\ out = <<>> => ToLinux' = ToLinux
<1> DEFINE d == Datas(txBack)
<1>1. d \in Seq(Message) /\ out \in Seq(Message)
  BY BusTypes, LoansOfAll
<1>2. ToLinux = (d \o <<>>) \o <<>> /\ ToLinux' = (d \o <<>>) \o out
  BY BusIs DEF InFlight, At
<1> HIDE DEF d
<1>3. d \o <<>> = d
  BY <1>1, ConcatEmptySeq
<1>4. ToLinux = d /\ ToLinux' = d \o out
  BY <1>2, <1>3
<1>5. ASSUME NEW m, out = <<m>> PROVE ToLinux' = Append(ToLinux, m)
  <2>1. m \in Message
    BY <1>1, <1>5
  <2>2. Append(d, m) = d \o <<m>>
    BY <1>1, <2>1, AppendIsConcat
  <2>. QED BY <1>4, <1>5, <2>2
<1>. QED BY <1>3, <1>4, <1>5

LEMMA BusMain ==
    ASSUME Inv, MainStep
    PROVE  [Bus!Next]_Bus!busVars
<1>0. /\ bm \in [pc : Pcs, phase : Phases, busy : BOOLEAN, out : Seq(FwMsgs), ret : {"main", "return"}]
      /\ bm.pc \notin SendPcs => bm.out = <<>>
      /\ FwInv
  BY BusTypes
<1>1. /\ bm.pc = "main" /\ bm'.pc = "send" /\ UNCHANGED <<rxLent, txBack>>
  BY <1>0 DEF MainStep, Boot, CreateCfg, Report, At, rxVars, txVars
<1>2. ToBm' = ToBm /\ bm.out = <<>>
  BY <1>0, <1>1, SameToBm DEF SendPcs
<1>3. ASSUME NEW ch \in Chans, bm'.out = <<Announcement(ch)>>
      PROVE  Bus!Speak
  <2>1. Announcement(ch) \in FwMsgs /\ Announcement(ch) \in FromBm
    BY DEF FwMsgs, FromBm
  <2>2. <<Announcement(ch)>> \in Seq(FwMsgs)
    BY <2>1, ShortSequences
  <2>3. ToLinux' = Append(ToLinux, Announcement(ch))
    BY <1>1, <1>2, <1>3, <2>2, Says
  <2>. QED BY <1>2, <2>1, <2>3 DEF Bus!Speak
<1>4. CASE Boot
  <2>1. bm'.out = <<Announcement("bm_stdio")>>
    BY <1>0, <1>4 DEF Boot
  <2>. QED BY <1>3, <2>1 DEF Bus!Next, Chans
<1>5. CASE CreateCfg
  <2>1. bm'.out = <<Announcement("cfg_mgmt")>>
    BY <1>0, <1>5 DEF CreateCfg
  <2>. QED BY <1>3, <2>1 DEF Bus!Next, Chans
<1>6. CASE Report
  <2>1. bm'.out = Lines /\ Lines \in Seq(FwMsgs) /\ Lines \in {<<>>, <<Line>>}
    BY <1>0, <1>6, LinesType DEF Report, FwInv
  <2>2. CASE Lines = <<>>
    <3>1. ToLinux' = ToLinux
      BY <1>1, <1>2, <2>1, <2>2, Says
    <3>. QED BY <1>2, <3>1 DEF Bus!busVars
  <2>3. CASE Lines = <<Line>>
    <3>1. ToLinux' = Append(ToLinux, Line)
      BY <1>1, <1>2, <2>1, <2>3, Says
    <3>2. Line \in FromBm
      BY DEF FromBm, Line
    <3>. QED BY <1>2, <3>1, <3>2 DEF Bus!Speak, Bus!Next
  <2>. QED BY <2>1, <2>2, <2>3
<1>. QED BY <1>4, <1>5, <1>6 DEF MainStep

LEMMA BusHandle ==
    ASSUME Inv, Handle
    PROVE  Bus!Serve
<1> DEFINE m == rxHeld.data
           d == Datas(rxLent)
<1>1. m \in FromLinux /\ m \in Message /\ bm.out = <<>>
  BY BusTypes, HandleIs, LinuxMessages
<1>2. PICK out \in Answer(Up(m), m) : bm' = [bm EXCEPT !.pc = "send", !.out = out, !.ret = "return"]
  BY BusTypes, HandleIs
<1>3. BmTypes /\ Remotes
  BY DEF Inv, Types
<1>4. Delivered(m) \/ m.dst # "cfg_mgmt"
  BY DEF Inv, Unasked, Delivered, Chans
<1>5. out \in Seq(FwMsgs) /\ out \in MayAnswer(m)
  BY <1>1, <1>3, <1>4, AnswerType
<1>6. /\ bm'.out = out /\ bm'.pc = "send" /\ bm.pc = "handle" /\ UNCHANGED <<rxLent, txBack>>
  BY <1>2, BusTypes DEF Handle, At, rxVars, txVars
<1>7. ToLinux' = ToLinux \o out
  BY <1>1, <1>5, <1>6, Says
<1>8. d \in Seq(Message)
  BY BusTypes
<1>9. ToBm = <<m>> \o d /\ ToBm' = <<>> \o d
  BY <1>6, BusIs DEF InHand, At
<1> HIDE DEF m, d
<1>10. <<m>> \in Seq(Message) /\ <<m>> # <<>> /\ Head(<<m>>) = m /\ Tail(<<m>>) = <<>>
  BY <1>1
<1>11. ToBm # <<>> /\ Head(ToBm) = m /\ Tail(ToBm) = <<>> \o d
  BY <1>8, <1>9, <1>10, HeadTailConcat
<1>. QED BY <1>5, <1>7, <1>9, <1>11 DEF Bus!Serve

LEMMA BusPoll ==
    ASSUME Inv, PollStep
    PROVE  [Bus!Next]_Bus!busVars
<1>0. /\ bm \in [pc : Pcs, phase : Phases, busy : BOOLEAN, out : Seq(FwMsgs), ret : {"main", "return"}]
  BY BusTypes
<1>1. CASE Handle
  BY <1>1, BusHandle DEF Bus!Next
<1>2. CASE TxTask \/ RxTask \/ Drained \/ ReturnBuffer
  <2>1. \A b \in BOOLEAN : PollEnd(b) \in {"main", "sleep"}
    BY DEF PollEnd
  <2>2. /\ bm.pc \notin {"handle", "publish"} /\ bm'.pc \notin {"handle", "publish"}
        /\ bm'.out = bm.out /\ UNCHANGED <<rxLent, txBack>>
    BY <1>0, <1>2, <2>1 DEF TxTask, RxTask, Drained, ReturnBuffer, AfterMessage, Polls, Go, At, rxVars, txVars,
          Rx!GiveBack
  <2>3. ToBm' = ToBm /\ ToLinux' = ToLinux
    BY <2>2, SameToBm, SameToLinux
  <2>. QED BY <2>3 DEF Bus!busVars
<1>3. CASE Drain
  <2> DEFINE d == Datas(rxLent)
             h == Head(rxLent).data
             t == Datas(Tail(rxLent))
  <2>1. /\ bm.pc = "drain" /\ bm'.pc = "handle" /\ bm'.out = bm.out /\ txBack' = txBack
        /\ rxLent # <<>> /\ rxHeld' = Head(rxLent) /\ rxLent' = Tail(rxLent)
    BY <1>0, <1>3 DEF Drain, Go, At, txVars, Rx!Take
  <2>2. ToLinux' = ToLinux
    BY <2>1, SameToLinux
  <2>3. d \in Seq(Message) /\ d # <<>> /\ Head(d) = h /\ t = Tail(d)
    BY <2>1, BusTypes, DatasTail
  <2>4. ToBm = <<>> \o d /\ ToBm' = <<h>> \o t
    BY <2>1, BusIs DEF InHand, At
  <2> HIDE DEF d, h, t
  <2>5. <<>> \o d = d /\ d = <<Head(d)>> \o Tail(d)
    BY <2>3, ConcatEmptySeq, HeadTailConcat
  <2>6. ToBm' = ToBm
    BY <2>3, <2>4, <2>5
  <2>. QED BY <2>2, <2>6 DEF Bus!busVars
<1>. QED BY <1>1, <1>2, <1>3 DEF PollStep

LEMMA BusSend ==
    ASSUME Inv, SendStep \/ Wfe
    PROVE  UNCHANGED Bus!busVars
<1> DEFINE d == Datas(txBack)
<1>0. /\ bm \in [pc : Pcs, phase : Phases, busy : BOOLEAN, out : Seq(FwMsgs), ret : {"main", "return"}]
      /\ d \in Seq(Message) /\ bm.out \in Seq(Message) /\ txBack \in Seq(AnyLoan) /\ Hands /\ TxTypes
  BY BusTypes DEF Inv, Types
<1>1. ToBm' = ToBm
  <2>1. rxLent' = rxLent /\ bm.pc # "handle" /\ bm'.pc # "handle"
    BY <1>0 DEF SendStep, SendTake, SendFill, SendPublish, SendWaits, NoBuffer, SendTask, SendDone, Wfe, WakeUp,
                Go, At, rxVars
  <2>. QED BY <2>1, SameToBm
<1>2. CASE SendFill
  <2>1. /\ bm.pc = "fill" /\ bm'.pc = "publish" /\ bm.out # <<>> /\ bm'.out = Tail(bm.out)
        /\ txBack' = txBack /\ txHeld \in TxLoan
    BY <1>0, <1>2 DEF SendFill, At, Hands, TxTypes, Tx!UseWith
  <2>2. txHeld'.data = Head(bm.out)
    BY <1>2, <2>1 DEF SendFill, Tx!UseWith, TxLoan
  <2>3. ToLinux = (d \o <<>>) \o bm.out /\ ToLinux' = (d \o <<Head(bm.out)>>) \o Tail(bm.out)
    BY <2>1, <2>2, BusIs DEF InFlight, At
  <2> HIDE DEF d
  <2>4. /\ bm.out = <<Head(bm.out)>> \o Tail(bm.out)
        /\ Head(bm.out) \in Message /\ Tail(bm.out) \in Seq(Message)
    BY <1>0, <2>1, HeadTailConcat
  <2>5. <<Head(bm.out)>> \in Seq(Message)
    BY <2>4
  <2>6. (d \o <<Head(bm.out)>>) \o Tail(bm.out) = d \o (<<Head(bm.out)>> \o Tail(bm.out))
    BY <1>0, <2>4, <2>5, ConcatAssociative
  <2>7. d \o <<>> = d
    BY <1>0, ConcatEmptySeq
  <2>8. ToLinux' = ToLinux
    BY <2>3, <2>4, <2>6, <2>7
  <2>. QED BY <1>1, <2>8 DEF Bus!busVars
<1>3. CASE SendPublish
  <2>1. /\ bm.pc = "publish" /\ bm'.pc = "send" /\ bm'.out = bm.out
        /\ txBack' = Append(txBack, txHeld) /\ txHeld \in TxLoan /\ txHeld.data \in FwMsgs
    BY <1>0, <1>3 DEF SendPublish, Go, At, Hands, TxTypes, Tx!GiveBack
  <2>2. txHeld \in AnyLoan
    <3>1. txHeld \in TxFull
      BY <2>1 DEF TxLoan, TxFull
    <3>. QED BY <3>1, LoansOfAll
  <2>3. txHeld.data \in Message /\ Datas(txBack') = d \o <<txHeld.data>>
    BY <1>0, <2>1, <2>2, DatasAppend
  <2>4. ToLinux = (d \o <<txHeld.data>>) \o bm.out /\ ToLinux' = ((d \o <<txHeld.data>>) \o <<>>) \o bm.out
    BY <2>1, <2>3, BusIs DEF InFlight, At
  <2> HIDE DEF d
  <2>5. d \o <<txHeld.data>> \in Seq(Message)
    BY <1>0, <2>3, Concats
  <2>6. (d \o <<txHeld.data>>) \o <<>> = d \o <<txHeld.data>>
    BY <2>5, ConcatEmptySeq
  <2>. QED BY <1>1, <2>4, <2>6 DEF Bus!busVars
<1>4. CASE SendTake \/ SendWaits \/ SendTask \/ SendDone \/ Wfe
  <2>1. /\ bm.pc # "publish" /\ bm'.pc # "publish" /\ bm'.out = bm.out /\ txBack' = txBack
    BY <1>0, <1>4 DEF SendTake, SendWaits, NoBuffer, SendTask, SendDone, Wfe, WakeUp, Go, At, txVars, Tx!Take
  <2>. QED BY <1>1, <2>1, SameToLinux DEF Bus!busVars
<1>. QED BY <1>2, <1>3, <1>4 DEF SendStep

LEMMA BusOthers ==
    ASSUME Inv, (\E q \in {"rx", "tx"} : Irq(q)) \/ Linux \/ UNCHANGED vars
    PROVE  [Bus!Next]_Bus!busVars
<1> DEFINE d == Datas(rxLent)
           e == Datas(txBack)
<1>0. /\ UNCHANGED <<bm, rxHeld, txHeld>>
      /\ d \in Seq(Message) /\ e \in Seq(Message) /\ bm.out \in Seq(Message)
      /\ rxLent \in Seq(AnyLoan) /\ txBack \in Seq(AnyLoan)
      /\ InHand \in Seq(Message) /\ InFlight \in Seq(Message)
  BY BusTypes, OthersKept DEF bmVars
<1>1. InHand' = InHand /\ InFlight' = InFlight
  BY <1>0 DEF InHand, InFlight, At
<1>2. rxLent' = rxLent => ToBm' = ToBm
  BY <1>0, <1>1, BusIs
<1>3. txBack' = txBack => ToLinux' = ToLinux
  BY <1>0, <1>1, BusIs
<1>4. ASSUME NEW m \in FromLinux, Rx!LendWith(m), txBack' = txBack
      PROVE  Bus!Send
  <2>1. PICK b \in rxHome : rxLent' = Append(rxLent, [buf |-> b, data |-> m])
    BY <1>4 DEF Rx!LendWith
  <2>2. [buf |-> b, data |-> m] \in AnyLoan /\ [buf |-> b, data |-> m].data = m
    BY BufsAssumption, LinuxMessages DEF AnyLoan, Inv, Types, RxTypes
  <2>3. m \in Message /\ Datas(rxLent') = d \o <<m>>
    BY <1>0, <2>1, <2>2, DatasAppend
  <2>4. ToBm = InHand \o d /\ ToBm' = InHand \o (d \o <<m>>)
    BY <1>1, <2>3, BusIs
  <2> HIDE DEF d
  <2>5. <<m>> \in Seq(Message) /\ InHand \o d \in Seq(Message)
    BY <1>0, <2>3, Concats
  <2>6. (InHand \o d) \o <<m>> = InHand \o (d \o <<m>>)
    <3> DEFINE i == InHand
               n == <<m>>
    <3>1. i \in Seq(Message) /\ d \in Seq(Message) /\ n \in Seq(Message)
      BY <1>0, <2>5
    <3> HIDE DEF i, n
    <3>2. (i \o d) \o n = i \o (d \o n)
      BY <3>1, ConcatAssociative
    <3>. QED BY <3>2 DEF i, n
  <2>7. Append(InHand \o d, m) = (InHand \o d) \o <<m>>
    BY <2>3, <2>5, AppendIsConcat
  <2>8. ToBm' = Append(ToBm, m)
    BY <2>4, <2>6, <2>7
  <2>. QED BY <1>3, <1>4, <2>8 DEF Bus!Send
<1>5. CASE ProbeSends \/ WriteDevice \/ \E r \in Reqs : Ask(r)
  <2>1. txBack' = txBack /\ \E m \in FromLinux : Rx!LendWith(m)
    BY <1>5, LinuxMessages DEF ProbeSends, WriteDevice, Ask, txVars
  <2>. QED BY <1>4, <2>1 DEF Bus!Next
<1>6. CASE Receive
  <2>1. txBack # <<>> /\ txBack' = Tail(txBack) /\ rxLent' = rxLent
    BY <1>6 DEF Receive, Tx!Collect, rxVars
  <2>2. e # <<>> /\ Datas(txBack') = Tail(e)
    BY <1>0, <2>1, DatasTail
  <2>3. ToLinux = (e \o InFlight) \o bm.out /\ ToLinux' = (Tail(e) \o InFlight) \o bm.out
    BY <1>0, <1>1, <2>2, BusIs
  <2> HIDE DEF e
  <2>4. e \o InFlight \in Seq(Message) /\ e \o InFlight # <<>> /\ Tail(e \o InFlight) = Tail(e) \o InFlight
    BY <1>0, <2>2, HeadTailConcat, ConcatProperties
  <2>5. (e \o InFlight) \o bm.out # <<>>
        /\ Tail((e \o InFlight) \o bm.out) = (Tail(e) \o InFlight) \o bm.out
    <3> DEFINE p == e \o InFlight
               o == bm.out
    <3>1. p \in Seq(Message) /\ p # <<>> /\ Tail(p) = Tail(e) \o InFlight /\ o \in Seq(Message)
      BY <1>0, <2>4
    <3> HIDE DEF p, o
    <3>2. p \o o # <<>> /\ Tail(p \o o) = Tail(p) \o o
      BY <3>1, HeadTailConcat
    <3>. QED BY <3>1, <3>2 DEF p, o
  <2>. QED BY <1>2, <2>1, <2>3, <2>5 DEF Bus!Deliver, Bus!Next
<1>7. CASE \/ (\E q \in {"rx", "tx"} : Irq(q)) \/ Dispatch \/ ProbeKicks \/ PutBack \/ WorkKicks \/ SenderKicks
           \/ Recycle \/ UNCHANGED vars
  <2>1. rxLent' = rxLent /\ txBack' = txBack
    BY <1>7 DEF Irq, Dispatch, ProbeKicks, PutBack, WorkKicks, SenderKicks, Recycle, vars, rxVars, txVars,
                Rx!Collect, Tx!LendWith
  <2>. QED BY <1>2, <1>3, <2>1 DEF Bus!busVars
<1>. QED BY <1>5, <1>6, <1>7 DEF Linux, Work, Users

\* remoteproc.c implements RpmsgBus: whatever the interleaving of interrupts, the
\* main loop and Linux, each message is delivered once and in order in both
\* directions, and the answers to one message leave before those to the next.
THEOREM RpmsgImplementsBus == Spec => ImplementsBus
<1>1. Init => Bus!Init
  <2> SUFFICES ASSUME Init PROVE Bus!Init
    OBVIOUS
  <2>1. rxLent = <<>> /\ txBack = <<>> /\ bm.out = <<>> /\ bm.pc = "main"
    BY DEF Init
  <2>2. Datas(<<>>) = <<>>
    BY DEF Datas
  <2>3. ToBm = <<>> \o <<>> /\ ToLinux = (<<>> \o <<>>) \o <<>>
    BY <2>1, <2>2, BusIs DEF InHand, InFlight, At
  <2>4. <<>> \o <<>> = <<>>
    BY EmptySeq, ConcatEmptySeq
  <2>. QED BY <2>3, <2>4 DEF Bus!Init
<1>2. Inv /\ [Next]_vars => [Bus!Next]_Bus!busVars
  BY BusMain, BusPoll, BusSend, BusOthers DEF Next, Firmware
<1>. QED BY <1>1, <1>2, InvHolds, PTL DEF Spec, ImplementsBus, Bus!Spec

=============================================================================
