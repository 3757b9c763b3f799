-------------------------------- MODULE Vring --------------------------------
(***************************************************************************)
(* One virtqueue (bm_fw/src/virtio_ring.c): two rings of descriptor        *)
(* indices in memory that both processors see, one written by Linux        *)
(* (avail) and one by the firmware (used).  Linux is the external side;    *)
(* it puts buffers in as its virtio driver does.  Stores become visible    *)
(* in the order of the code, one per step; either side may run between     *)
(* two of the other's.                                                     *)
(*                                                                         *)
(* The firmware uses one queue to send (kick) and one to receive.  On the  *)
(* first Linux looks for buffers when it has been interrupted, on the      *)
(* second whenever it needs one.                                           *)
(***************************************************************************)
EXTENDS Integers, Sequences

CONSTANTS N,            \* VRING_SIZE
          M,            \* values of a free running index: 2^16
          Contents      \* what can be in a buffer

ASSUME SizeAssumption == N \in Nat \ {0}
\* VRING_SIZE "has to be a power of 2", and is smaller than 2^16.
ASSUME IndexAssumption == M \in Nat /\ M > N /\ M % N = 0

VARIABLES avail, availIdx,      \* the available ring and its head index
          tail,                 \* avail_tail, private to the firmware
          used, usedIdx,        \* the used ring and its index
          seen,                 \* Linux's index into the used ring
          buf,                  \* contents of the buffers
          free,                 \* buffers in Linux's hands
          linux,                \* the step of Linux, and the buffer it is at
          bm,                   \* the step of the firmware, and the buffer it holds
          awake, irq,           \* whether Linux looks at the ring; interrupt to come
          kick                  \* whether vring_publish_buf is told to kick, fixed

vars == <<avail, availIdx, tail, used, usedIdx, seen, buf, free, linux, bm, awake, irq, kick>>

Desc == 0 .. N - 1
Index == 0 .. M - 1

Slot(i) == i % N
\* (Variant: the index has no width.)
AfterUnbounded(i) == i + 1
After(i) == (i + 1) % M

LinuxIdle == [pc |-> "idle", d |-> 0]
BmIdle    == [pc |-> "idle", d |-> 0]

Init == /\ avail = [s \in Desc |-> 0] /\ availIdx = 0 /\ tail = 0
        /\ used = [s \in Desc |-> 0] /\ usedIdx = 0 /\ seen = 0
        /\ buf \in [Desc -> Contents]
        /\ free = Desc
        /\ linux = LinuxIdle /\ bm = BmIdle
        /\ awake = TRUE /\ irq = FALSE /\ kick \in BOOLEAN

(***************************************************************************)
(* Linux: virtqueue_add and virtqueue_get_buf.                             *)
(***************************************************************************)
PutSlot == /\ linux.pc = "idle" /\ (awake \/ ~ kick)
           /\ \E d \in free, m \in Contents :
                 /\ buf' = [buf EXCEPT ![d] = m]
                 /\ avail' = [avail EXCEPT ![Slot(availIdx)] = d]
                 /\ free' = free \ {d}
                 /\ linux' = [pc |-> "put", d |-> d]
           /\ UNCHANGED <<availIdx, tail, used, usedIdx, seen, bm, awake, irq, kick>>

PutIdx == /\ linux.pc = "put"
          /\ availIdx' = After(availIdx)
          /\ linux' = LinuxIdle
          /\ UNCHANGED <<avail, tail, used, usedIdx, seen, buf, free, bm, awake, irq, kick>>

Collect == /\ linux.pc = "idle" /\ (awake \/ ~ kick)
           /\ seen # usedIdx
           /\ free' = free \cup {used[Slot(seen)]}
           /\ seen' = After(seen)
           /\ UNCHANGED <<avail, availIdx, tail, used, usedIdx, buf, linux, bm, awake, irq, kick>>

\* The interrupt handler runs until the ring is empty, and puts every buffer
\* back that it has read.
Rest == /\ kick /\ awake /\ linux.pc = "idle" /\ seen = usedIdx /\ free = {}
        /\ awake' = FALSE
        /\ UNCHANGED <<avail, availIdx, tail, used, usedIdx, seen, buf, free, linux, bm, irq, kick>>

Interrupt == /\ irq
             /\ irq' = FALSE /\ awake' = TRUE
             /\ UNCHANGED <<avail, availIdx, tail, used, usedIdx, seen, buf, free, linux, bm, kick>>

(***************************************************************************)
(* vring_get_buf: the index is read before the slot.                       *)
(***************************************************************************)
vring_available == availIdx # tail

GetIdx == /\ bm.pc = "idle"
          /\ vring_available
          /\ bm' = [pc |-> "get", d |-> 0]
          /\ UNCHANGED <<avail, availIdx, tail, used, usedIdx, seen, buf, free, linux, awake, irq, kick>>

\* (Variant: the index is advanced before the slot is read.)
EntryAhead == avail[Slot(After(tail))]
Entry == avail[Slot(tail)]

GetSlot == /\ bm.pc = "get"
           /\ bm' = [pc |-> "held", d |-> Entry]
           /\ tail' = After(tail)
           /\ UNCHANGED <<avail, availIdx, used, usedIdx, seen, buf, free, linux, awake, irq, kick>>

\* __send_message writes its message into the buffer, read_message reads it.
Fill == /\ bm.pc = "held" /\ kick
        /\ \E m \in Contents : buf' = [buf EXCEPT ![bm.d] = m]
        /\ UNCHANGED <<avail, availIdx, tail, used, usedIdx, seen, free, linux, bm, awake, irq, kick>>

(***************************************************************************)
(* vring_publish_buf.                                                      *)
(***************************************************************************)
\* (Variant: the entry goes into the slot after the one that is announced.)
PubEntryAhead == used' = [used EXCEPT ![Slot(After(usedIdx))] = bm.d]
PubEntry == used' = [used EXCEPT ![Slot(usedIdx)] = bm.d]

PubSlot == /\ bm.pc = "held"
           /\ PubEntry
           /\ bm' = [bm EXCEPT !.pc = "pub"]
           /\ UNCHANGED <<avail, availIdx, tail, usedIdx, seen, buf, free, linux, awake, irq, kick>>

\* (Variant: nothing is left to do, the kick is forgotten.)
PublishedQuietly == BmIdle
Published == IF kick THEN [bm EXCEPT !.pc = "kick"] ELSE BmIdle

PubIdx == /\ bm.pc = "pub"
          /\ usedIdx' = After(usedIdx)
          /\ bm' = Published
          /\ UNCHANGED <<avail, availIdx, tail, used, seen, buf, free, linux, awake, irq, kick>>

\* The flag that suppresses interrupts is tested at a bit Linux never sets.
Notify == /\ bm.pc = "kick"
          /\ irq' = TRUE
          /\ bm' = BmIdle
          /\ UNCHANGED <<avail, availIdx, tail, used, usedIdx, seen, buf, free, linux, awake, kick>>

Linux == PutSlot \/ PutIdx \/ Collect \/ Rest \/ Interrupt
Firmware == GetIdx \/ GetSlot \/ Fill \/ PubSlot \/ PubIdx \/ Notify

Next == Linux \/ Firmware

Spec == Init /\ [][Next]_vars

(***************************************************************************)
(* Properties.                                                             *)
(***************************************************************************)
\* How many entries lie between two free running indices, and which.
Dist(i, j) == (j - i) % M
Between(ring, i, j) == [k \in 1 .. Dist(i, j) |-> ring[Slot(i + k - 1)]]
Members(s) == {s[k] : k \in DOMAIN s}

Lent == Between(avail, tail, availIdx)
Back == Between(used, seen, usedIdx)
Putting == IF linux.pc = "put" THEN {linux.d} ELSE {}
Holding == IF bm.pc \in {"held", "pub"} THEN {bm.d} ELSE {}

\* The rings, the indices and the steps of the two sides have their types.
TypeOK == /\ avail \in [Desc -> Desc] /\ used \in [Desc -> Desc]
          /\ availIdx \in Index /\ tail \in Index /\ usedIdx \in Index /\ seen \in Index
          /\ buf \in [Desc -> Contents]
          /\ free \subseteq Desc
          /\ linux \in [pc : {"idle", "put"}, d : Desc]
          /\ bm \in [pc : {"idle", "get", "held", "pub", "kick"}, d : Desc]
          /\ awake \in BOOLEAN /\ irq \in BOOLEAN /\ kick \in BOOLEAN

\* Every buffer has exactly one owner: Linux, the entries between tail and
\* avail_idx, the firmware between vring_get_buf and vring_publish_buf, or the
\* used entries Linux has not seen; also when the 16 bit indices wrap around.
OneOwner ==
    \A d \in Desc :
        LET places == {<<"free", 0>> : x \in free \cap {d}}
                         \cup {<<"put", 0>> : x \in Putting \cap {d}}
                         \cup {<<"held", 0>> : x \in Holding \cap {d}}
                         \cup {<<"lent", k>> : k \in {j \in DOMAIN Lent : Lent[j] = d}}
                         \cup {<<"back", k>> : k \in {j \in DOMAIN Back : Back[j] = d}}
        IN  \E p \in places : places = {p}

\* Linux never rests while a published buffer waits for it, unless it is about to
\* be interrupted (vring_publish_buf: "make it aware of the new data").
NoLostKick == kick /\ ~ awake /\ seen # usedIdx => irq \/ bm.pc = "kick"

WithData(s) == [k \in DOMAIN s |-> [buf |-> s[k], data |-> buf[s[k]]]]
Record(d) == [buf |-> d, data |-> buf[d]]

Nobody == [buf |-> -1, data |-> -1]

\* A buffer is lent from when Linux writes its slot, and held until it is announced.
Sent == IF linux.pc = "put" THEN Append(Lent, linux.d) ELSE Lent
Held == IF Holding = {} THEN Nobody ELSE Record(bm.d)

Loan == INSTANCE BufferLoan WITH
           Buffers <- Desc,
           home <- free,
           lent <- WithData(Sent),
           held <- Held,
           back <- WithData(Back)

\* The virtqueue hands over buffers in order, in both directions, with the
\* contents that the other side put into them.
ImplementsLoan == Loan!Spec
=============================================================================
