# A verification of cfg_mgmt

`cfg_mgmt` runs a Xilinx Zynq in asymmetric mode: Linux on one processor, a bare metal
firmware on the other. The firmware keeps a table of configuration variables; a kernel
module shows them as files under debugfs. Reading `cfg_mgmt/val/var_1` asks the firmware for
the value, writing it sets the value. A second channel carries the firmware's standard output to a
character device. This directory holds TLA+ models of both paths, the configurations that TLC checks,
and proofs for TLAPS. Of the 80,000 lines of C in the repository some 4,300 are the project's own (`bm_fw/src`,
`kernel_mod`, `bm_stdio_mod`, `tools`); the rest is a vendored board support package.

## 1. The system

| Part | Source | State | Operations |
|---|---|---|---|
| Variable table | `bm_fw/src/config.c`, `config_vars.c/.h` | `vars[]` (value, limits, callbacks), static reply buffer `cfgMsgTxBuf` | `config_msg_handler`, `cfgSetId`, `cfgSetInd`, `cfgSetCallback`, callbacks `cfgCpyCB`, `cfgFloatMilliCB`, getters |
| Link layer | `kernel_mod/rpmsg_link.c/.h` | `pending_list`, `unused_list`, sequence counter, `n_vars`, static requests, channel pointer | `rpmsg_link_init/exit`, `rpmsg_link_alloc_trans`, `rpmsg_link_return_trans`, `access_var`, `get_n_vars`, receive callback `cfg_mgmt_rpmsg_cb` |
| Variable files | `kernel_mod/cfg_mgmt_main.c` | one transaction struct per open file, wait queue `usr_wait_q`, `*_access` arrays, debugfs directories | `debugfs_open_var/read_var/write_var/release_var/poll`, `debugfs_open_ll`, probe, remove |
| rpmsg layer of the firmware | `bm_fw/src/remoteproc.c` | `channels[]`, kick counters, address counter | `rpmsg_poll`, `rpmsg_create_ch`, `rpmsg_send`, `read_message`, interrupt handlers |
| Virtqueues | `bm_fw/src/virtio_ring.c/.h` | descriptor, available and used rings in shared memory, private tail index | `vring_init`, `vring_get_buf`, `vring_publish_buf`, `vring_available` |
| Main loop, stdio of the firmware | `bm_fw/src/main.c` | `stdio_init`, line buffer, trace buffer | `main`, `_write`, `outbyte`, `stdio_msg_handler`, `var_cb` |
| stdio module | `bm_stdio_mod/bm_stdio.c` | 64 kB kfifo, static transmit buffer | receive callback, `dev_read`, `dev_write`, probe, remove |
| clist | `tools/clist/src/clist.c` | none that lasts | opens, reads and closes four files per variable |

How they interact. A process opens a file: `debugfs_open_var` takes a transaction struct and
`access_var` builds a request, numbers it, puts the struct into `pending_list` and hands the
request to the rpmsg bus. The firmware's polling loop takes messages from a virtqueue and calls
`config_msg_handler`, which answers from one static buffer through the other virtqueue. On Linux
the bus calls `cfg_mgmt_rpmsg_cb`, which finds the struct by sequence number, unlinks it, stores
text, `valid` and `err` and wakes the queue that all readers share. A read waits for `valid`.
A write only fills the buffer; the release sends it, waits for the answer and recycles the struct.

What is hard about it:

* processes, the callback and the firmware run at once; the structs are shared by lists, file
  pointers and the callback's local pointer, with locks only around single list operations;
* the callback stores `valid` and `err` one after the other, after the lock is released;
* requests are static buffers, which only the absence of preemption protects;
* the paths that give up early - a signal, a send that fails, text that is no number, an error
  response, a close without a read - each leave the struct somewhere else;
* the sequence counter and both ring indices wrap around;
* one wait queue serves all files, so a wake-up may be early, or meant for another file;
* the firmware answers from within its receive handler and waits there for a buffer;
* a module exit, or a second probe, finds open files, sleeping processes and an old `n_vars`.

What makes the parts correct:

* table: limits hold whatever is written and whichever callbacks run; a read answers what the
  last write, limited, put there;
* link: a struct is in one place at a time, is recycled only when no response can reach it any
  more, and gets its own response; no struct is lost;
* files: a read returns its own variable's value, never an error text; each operation takes
  effect at one instant between its beginning and its end; no process sleeps on a response that
  has come; each operation ends;
* rpmsg layer and virtqueues: a buffer has one owner; messages arrive once and in order; no message
  stays in a ring without a kick to come;
* list of variables: a file stands for a variable of the firmware that runs, "ok" means all of them;
* stdio: bytes arrive in order, a write reports what was sent, nobody waits for a reader.

## 2. Modules

| Module | Models | Extends |
|---|---|---|
| `VarTable` | what the table promises: one limited register per variable, whose writes leave what they were given | |
| `ConfigVars` | `config.c`: the table, callbacks, the handler, application calls | |
| `ConfigTable` | the table seen by whoever sends requests; the refinement of `VarTable` | `ConfigVars` |
| `RpmsgLink` | `rpmsg_link.c`: pool, lists, `access_var`, the receive callback | |
| `CfgMgmt` | `cfg_mgmt_main.c`: the file operations on variable files | `RpmsgLink` |
| `VarStore` | what the users of the files are promised: a linearizable table | |
| `CfgAccess` | processes, kernel module, bus and firmware together; the properties | `CfgMgmt`, `ConfigVars` |
| `LoadList` | `debugfs_open_ll`, `get_n_vars`, probe, remove, `rpmsg_link_init/exit` | `RpmsgLink` |
| `BufferLoan` | what a virtqueue promises: buffers lent and given back in order | |
| `Vring` | `virtio_ring.c`: one virtqueue, both sides | |
| `RpmsgBus` | what the rpmsg layer promises: two FIFO channels, served one message at a time | |
| `RpmsgBm` | `remoteproc.c` and the main loop between two virtqueues (`BufferLoan`) | |
| `Stdio` | `_write` and `stdio_msg_handler` of `main.c`, and `bm_stdio.c` | |
| `ConfigVarsProofs`, `VringProofs`, `RpmsgBmProofs`, `CfgAccessProofs`, `LoadListProofs`, `StdioProofs` | theorems and proofs | the module they are named for |
| `CfgDataProofs` | theorems about the data in requests and files, and about `CfgAccess` when sends fail | `CfgAccessProofs` |
| `CfgStoreProofs` | what closes send, what sleepers wait for, and the refinement of `VarStore` by `CfgAccess` | `CfgDataProofs` |
| `MCConfigVars`, `MCCfgAccess`, `MCLoadList`, `MCVring`, `MCRpmsgBm`, `MCStdio` | values of the constants for TLC | |

`ConfigVars`. `val`, `rdCb`, `wrCb` are the fields of `vars[]`, `rep` is the reply buffer, `cell`
the application's data behind `rd_cb_data` and `wr_cb_data`. The firmware is bare metal code without
preemption, so every handler is one action: it sets all of the reply and all of the table.
Interrupt handlers only count kicks and touch none of this. One disjunct of `config_msg_handler`
stands for each branch of its switch. Replies that carry no number keep the previous one, as the
static buffer does. Callbacks are told apart by what they do to the table: `app` is any callback that
leaves it alone (`var_cb`), `cpy` is `cfgCpyCB`, `milli` is `cfgFloatMilliCB`. A float cell is
represented by the integer that is read from it; `Lossy` holds the values `v` for which
`(int32_t)((float)(v * 1.0e-3) * 1000)` is `v - 1`, 251 among them.

`ConfigTable` adds one history variable, `given`, the last request if it was a write: the reply to a write tells
nothing of the value. With it the mapping to `VarTable` shows each exchange, a read with the value of its answer and a write with the value it
was given, and `VarTable`'s `Write` has to leave exactly that value, limited, in the register.

`RpmsgLink`. `trans[t]` is a struct, `unused` and `pending` are the two lists. They are sets: the code
takes any free struct, and sequence numbers of pending structs differ unless the requests raced.
`heap` holds structs that `kzalloc` could still hand out. Memory that runs out blocks the open in the
model; the code dereferences the null pointer in `INIT_LIST_HEAD` before its callers can test it.
A thread in `access_var` passes the stages `fill`, `seq`, `pend` and `send`: between them other threads
run. The callback takes three steps: match and unlink (under the lock), the stores up to
`valid = true`, and the stores and the wake-up after it. A text is a record of the kind of text, the
variable it speaks of and its number; `ind` and the kind are what lets a property see whose
text it is.

`CfgMgmt`. `file[f]` is an open file: its operation in progress, mode, struct and whether it has been
read. Begin actions start an operation, Continue actions are the steps of the kernel thread up to
its return, Interrupt actions are signals that end a wait. `wait_event_interruptible` is `Sleep`
(check and join the queue in one step, which is what `prepare_to_wait` before the check amounts to),
waking takes all sleepers out of the queue, and each checks `valid` again.
A second read of the same open file is the end-of-file read and changes nothing; `O_NONBLOCK` reads
and `poll` only look.

`CfgAccess`. The bus is two FIFO channels. The firmware takes a request, handles it and sends the reply
in one step; its `rpmsg_send` blocks until there is a buffer and so loses nothing. On the Linux side
`rpmsg_send` may fail (`LossyNext`). `Application` stands for the firmware's application changing a
value between requests.

The C lists are linked through the structs. `rpmsg_link_return_trans` of a struct that `pending_list` links
clears its list node with the rest and links it into `unused_list`; `add_pend_trans` of a linked one links it twice. Either breaks both lists, and what the code
does from there on is undefined. The sets of the model would not show that, so `Intact`, a guard on every step of `CfgAccess` and `LoadList`, ends each
behaviour in the first such state, and no property speaks of what comes after. Theorem `ListsIntact` shows that patient clients on a bus that takes all requests never reach one.
How others do is what `SafeUnlessReleased` and `SafeUnlessCut` say: they are steps from any state with the structs in their places, and list the
operations of the source that can take one out (section 3, "Known deviations").

A struct is *unanswered* while it is in `pending_list` or in the callback's hands before `valid = true`. After that the owner may release it although the
callback has yet to store `err` and to look at `wq`: the struct can then be another file's. The model has that window
(`cb.pc = "finish"`), and no property says that it is harmless: `NoFalseError`, which would, does not hold.

`Vring`. `avail` and `used` are the two rings, `availIdx` and `usedIdx` the indices their writers
store, `tail` is `avail_tail`, `seen` its counterpart in Linux. `vring_get_buf` is `GetIdx` and
`GetSlot`, `vring_publish_buf` is `PubSlot`, `PubIdx` and `Notify`: one access to shared memory per
step, so that Linux runs between any two. The variable `kick` is the argument of
`vring_publish_buf`: the firmware sends with it (`__send_message`, which fills the buffer) and receives
without it (`read_message`). Linux is external: `PutSlot`, `PutIdx` and `Collect` are its
`virtqueue_add` and `virtqueue_get_buf`; on the queue it receives from it looks at the ring only after an
interrupt, until the ring is empty, and puts every buffer back before it rests.
The test `avail->flags & (1<<VRING_AVAIL_F_NO_INTERRUPT)` looks at a bit that Linux never sets, so
the kick is never suppressed; `idx > VRING_SIZE` never holds for an index that Linux puts in.

The modules are stacked: `Vring` implements `BufferLoan`; `RpmsgBm` is built on two instances of
`BufferLoan` and implements `RpmsgBus`, two FIFO channels with a server that takes one message at a time;
`CfgAccess`, `LoadList` and `Stdio` are built on such channels.

`RpmsgBm`. `rxHome .. rxBack` and `txHome .. txBack` are the two loans. The firmware is a program counter
(`bm.pc`), the phase of `main` (`bm.phase`), what it has yet to send (`bm.out`) and where the send
returns to (`bm.ret`): `main` creates the stdio channel, polls and sleeps in `wfe` until the handshake, creates the
second channel and polls for ever. `due[q]` is the interrupt's counter less `processed_kicks`; one look
of the main loop processes one kick, and one kick drains the whole ring. `irq[q]` is an interrupt that is
pending: a kick that comes before the last one was taken is lost in it. `event` is the processor's event
register, set by every interrupt and cleared by `wfe`. `Handle` delivers a message and learns the sender's address; what the callback sends
(a reply, after a line of text if a variable's callback prints) then goes out before the buffer is given back.
That a buffer published to Linux is seen without a further kick is `Vring`'s `NoLostKick`.
Linux is external: the work that receives (`Receive` to `WorkKicks`, in which the stdio driver's probe sends the
first message), processes that send and kick, and the recycling of used buffers.

`LoadList`. `load[f]` is an open of `load_list`: counting, asking for names, or open with a text to
read; `load[f].n` is the local `n_vars`. The four directories are made and removed together, so `val` stands for
all; `dir` is `val_dir_p`, which `debugfs_create_dir` sets to null when the directory exists, and
`debugfs_create_file` with a null parent makes the file in debugfs' root. The stages of `access_var` and the callback are those of
`RpmsgLink`; `get_n_vars` has a static request of its own (`nreq`). `Remove` and `Probe` stop the firmware and start another one,
`gen` and `size` say which runs. A name is known by the firmware and the index it comes from. `Disturbances` says what can go wrong with the request for a
name: a `"signal"` in the wait, a `"send"` that fails (the loop then skips the name with `continue`). The same failures of the count, in `get_n_vars`,
are always there. `Remove` takes place when no file is open and no callback runs; messages under way are gone with the channel.

`Stdio`. A byte is known by its origin and its place there, so that order, loss and duplication can be seen.
`Printf`, `SendChunk` and `ToTrace` are `_write`: chunks of `DATA_LEN_MAX - 1` while `stdio_init` is set, then the trace buffer.
`dev_read` is two steps, since `kfifo_to_user` copies first and moves the fifo's index later, while the callback may put more in;
`dev_write` is three, since `copy_from_user` and `rpmsg_send` may sleep and the buffer between them is static; either may fail
(`WriteFaults`, after part of the chunk, and `WriteUnsent`).

Two constants say in which world the system runs. `Preempt`: whether two threads can be in
`access_var` at once. FALSE is the setting the code was written for: one processor (the other one runs
the firmware) with a kernel without preemption, and a bus that has a buffer at hand, so that `rpmsg_send` does not
sleep before it has copied the request. TRUE is every other setting. The steps of the callback interleave with those of
the threads in both. `Patient`: whether a file opened for reading is read to the end before it is
closed, as `cat` and `clist` do.

## 3. Runs

| Run | Checks | Result |
|---|---|---|
| `config_table` | `CfgTypeOK`, `InLimits`, `ImplementsTable` | hold |
| `access_safe` | `TypeOK`, `TransAccounted`, `NotRecycledUnanswered`, `NoLostWakeup`, `WaitsForAnswer`, `OwnData`, `SafeInv`, `CloseWritesBack`, `ErrorWindow` | hold |
| `access_store` | `NoLeak`, `ImplementsStore`, `Finishes` | hold |
| `access_rough` | `NoLostWakeup`, `ForgottenByFailedClose`, `SafeUnlessReleased`, with failing sends and files closed unread, as long as the lists are intact | hold |
| `race_data` | `OwnData`, with `Preempt` | violated |
| `rw_close` | `CloseWritesBack`, a file opened for reading and writing | violated |
| `vring` | `TypeOK`, `OneOwner`, `NoLostKick`, `ImplementsLoan` | hold |
| `rpmsg` | `TypeOK`, `NoStrandedMessage`, `NoBroadcast`, `ImplementsBus`, `Answered` | hold |
| `load` | `TypeOK`, `FilesNamed`, `OkComplete`, `OnlyCountsLeak`, `SafeUnlessCut`, `Loads`, counts and names interrupted and not sent, as long as the lists are intact | hold |
| `load_race` | `FilesInPlace`, two opens at once (`Alone = FALSE`) | violated |
| `stdio` | `TypeOK`, `PrintIntact`, `RoomForTerminator`, `InputIntact`, `Completes` | hold |
| `dev_write` | `InputIntact`, a write longer than `tx_buf` | violated |

What the violations show, each a behaviour found by TLC:

* `race_data`. Thread A fills the static request with its index, thread B fills it with its own, A
  numbers and sends it: A's read returns B's variable. Needs two threads in `access_var`.
* `rw_close`. The test of `access_var`'s result in `debugfs_open_var` is inverted: a query that was sent ends the open, the lines for
  `FMODE_WRITE` are skipped, `rnw` stays true and the release sends a read.
* `load_race`. Two opens of `load_list` both find `val_access` unset, because it is set only after
  `get_n_vars` has waited. The second `debugfs_create_dir` yields null, which is the global `val_dir_p` for both;
  the first one's remaining files are made in debugfs' root, where `cfg_mgmt_remove` does not find them.
* `dev_write`. `copied += len` ends the loop after the first chunk, and the whole length is returned.

### Known deviations without a run of their own

The same modules show these when a constant, the specification or the way the files are used is changed:

* A struct recycled or linked again while it is under way. The three ways that `SafeUnlessReleased` leaves are real: a file closed before its response has come
  (`NotRecycledUnanswered` with `Patient = FALSE`), a release whose write could not be sent (`TransAccounted` under `LossySpec`),
  and an open for reading and writing whose query could not be sent and whose release then asks again. So are the two of `SafeUnlessCut`: a signal ends the
  load between the request for a name and its answer, and the release of `load_list` recycles the struct; a name that cannot be asked for leaves the struct in
  `pending_list`, and the next turn uses it again (`TransAccounted` of `LoadList` with `Disturbances` either `{"signal"}` or `{"send"}`). "ok" comes of a name that was
  left out, as the code's comment intends, only when it is the last one (`OkComplete`).
* By the inverted test an open for reading succeeds although its query could not be sent, and the read sleeps until a signal comes
  (`WaitsForAnswer` under `LossySpec` with `Modes = {"r"}`).
* A release that is interrupted, or gets an error response, loses its struct (`NoLeak` with `Signals`, or with an index
  the firmware refuses). `ForgottenByFailedClose` says that nothing else does.
* `valid` is stored before `err`. A reader in between returns "received ID error ..." as data;
  `ErrorWindow` says that this is the only moment when it can. And the file may be closed in between and its struct taken by another process, whose write the
  firmware carries out: the late `err` makes its close fail, and the struct is lost (`NoFalseError` with a file of an unknown index).
* `n_vars` is never reset. With `SameTable = FALSE` the list of a second firmware is loaded with the first one's count, and `OkComplete` is
  violated: too few files, or files for indices that the firmware refuses.
* An interrupted load leaves a partial list that cannot be loaded again, since the directories are made.
* The stdio device exists before the driver has sent its first message: a write in between is swallowed as the handshake
  (`InputIntact` with `Early = TRUE`). Two writers share `tx_buf` (`InputIntact` with two `Writers`). Two readers
  can copy the same bytes before either moves the kfifo's index (`PrintIntact` is stated for one reader).
* `cfgFloatMilliCB` loses a milli (251 is read back as 250) and stores past `cfgSetInd`, so that neither
  `InLimits` nor `ImplementsTable` holds with `"milli"` in `Kinds`.

### Bounds

* `config_table`: two variables, `var_1` with limits 0 and 1 and one with limits -2 and 1; values -1
  and 2 are below, inside or above them. Requests take every type and every index from
  -1 to `NVars`. The application's calls pass the id of the second variable, on which callbacks are registered, and an unknown one.
* `access_safe`: three files of two processes, for the value and the upper limit of one variable and for an index
  that the firmware does not have; two structs, one in the initial pool (the code has 16), so that the pool runs empty
  and a new one is made and recycled. Signals arrive. Sequence numbers are taken modulo 3 (`u32` in the code): they have to wrap
  around for the run to end, and a modulus larger than the number of requests under way behaves as
  2^32 does. Closes that fail lose structs until none is left, so the run may stop (`CHECK_DEADLOCK FALSE`).
* `access_store`: two files on the same variable, text that is above the limits and text that is no
  number, and an application that sets the variable back. No signals: nothing is lost, and deadlock is checked.
* `access_rough`: two files of one variable, opened for reading or for both, closed at any time, a bus that may have no
  buffer, signals and preemption; `Room = 2` messages are under way at most, which a file closed unread would not bound. Sequence numbers modulo 2 are as few as
  make a late response meet a new request with its number. Structs are lost, as above, and behaviours end where a list breaks.
* `race_data` and `rw_close` have two files, and only what the behaviour takes: the ways of opening, one text.
* `vring`: three entries and indices modulo 6 (256 and 2^16 in the code): the modulus is a multiple of
  the ring's size and larger than it, so a full ring differs from an empty one and the slot is continuous
  at the wrap-around, which is all the code relies on. Two contents per buffer. The run
  is unbounded: the indices go round as often as it takes to close the state graph.
* `rpmsg`: two buffers to receive with, so that messages queue up behind one kick, one buffer to send with, so
  that the firmware waits in the middle of its receive handler; one request at a time, one write to the
  device, and `MaxDue = 2` kicks not yet processed, so that a kick can come while one waits.
  The initial state leaves open whether Linux's first kick comes and in which order Linux has put its buffers into the ring.
* `load`: two processes, firmwares with no, one and three variables (three turns: the first, one in the middle, the last), a
  pool of one struct and memory for three, one restart (`MaxGen = 1`), both `Disturbances`. `SeqMod = 64` is more than the requests of a behaviour, of which there are few
  because each count loses a struct; when memory is used up the run stops (`CHECK_DEADLOCK FALSE`). `Alone` keeps two opens from loading at
  once (`load_race`); `SameTable` gives both firmwares the same number of variables. A behaviour ends where a list breaks: that is no end of a load, so `Loads`
  has it as the other outcome.
* `stdio`: messages of three bytes with room for two, so a print of three takes two chunks; a fifo of two bytes, which overflows
  when nobody reads; a trace buffer of six, which fills up; writes of one and two bytes with a transmit buffer
  of two; two messages in each direction. It stops when all has been printed and written (`CHECK_DEADLOCK FALSE`).
* The structs are interchangeable (no order among them is used), hence `SYMMETRY` in safety runs.

### Fairness

`FairSpec` assumes weak fairness of three things: the firmware's handling of a request that is on the
bus (the main loop polls for ever and its send blocks rather than drops), the receive callback
(run by the kernel's virtio work queue), and each thread's continuation of the system call it is in
(the scheduler runs every thread that can run; a thread asleep on the queue cannot). Nothing is
assumed of the processes starting or closing anything, nor of signals. `LoadList` assumes the same as long as
the lists are intact (`Intact`), since its behaviours end where one breaks.

`RpmsgBm`: the firmware takes its steps, a pending interrupt is taken, and Linux runs its receive work, finishes a
system call that has put a message into the ring (its kick follows) and recycles used buffers when it has no other.
`Stdio`: the firmware goes on with a `_write` and polls, the bus runs the callback and the probe, and each `dev_write` goes on
(or fails, when the bus has no buffer). Nobody has to read the device or to print.

## 4. Proofs

| Module | Theorem | Says |
|---|---|---|
| `ConfigVarsProofs` | `CfgTypeCorrect` | `CfgSpec => []CfgTypeOK` |
| | `LimitsHold` | without the milli callback `CfgSpec => []InLimits` |
| | `TableImplemented` | without the milli callback `GivenSpec => ImplementsTable` |
| `VringProofs` | `TypeCorrect` | `Spec => []TypeOK` |
| | `OneOwnerHolds` | `Spec => []OneOwner` |
| | `NoLostKickHolds` | `Spec => []NoLostKick` |
| | `VringImplementsLoan` | `Spec => ImplementsLoan` |
| `RpmsgBmProofs` | `TypeCorrect` | `Spec => []TypeOK` |
| | `NoBroadcastHolds` | `Spec => []NoBroadcast` |
| | `NoStrandedHolds` | `Spec => []NoStrandedMessage` |
| | `RpmsgImplementsBus` | `Spec => ImplementsBus` |
| `CfgAccessProofs` | `TypeCorrect` | `Spec => []TypeOK` |
| | `AccountedHolds`, `NotRecycledHolds`, `NoLostWakeupHolds`, `SafeInvHolds` | with `Patient`: `TransAccounted`, `NotRecycledUnanswered`, `NoLostWakeup`, `SafeInv` |
| | `ListsIntact` | with `Patient`: `Spec => []Intact`, so that the guard of `Next` leaves out nothing |
| `CfgDataProofs` | `ErrorWindowHolds` | with `Patient`: `Spec => ErrorWindow` |
| | `OwnDataHolds` | with `OneWay` and `FewStructs`: `Spec => []OwnData` |
| | `NoLeakHolds` | with `NothingFails`: `Spec => []NoLeak` |
| | `RoughWakeup`, `ReleasedHolds` | `LossySpec => []NoLostWakeup`, `LossySpec => SafeUnlessReleased` |
| | `ForgottenHolds` | `LossySpec => ForgottenByFailedClose` |
| `CfgStoreProofs` | `CloseWritesBackHolds`, `WaitsForAnswerHolds` | with `OneWay` and `FewStructs`: `Spec => []CloseWritesBack`, `Spec => []WaitsForAnswer` |
| | `StoreImplemented` | with `OneWay`, `FewStructs` and `NothingFails`: `Spec => ImplementsStore` |
| `LoadListProofs` | `TypeCorrect` | `Spec => []TypeOK` |
| | `TransAccountedHolds` | with `Undisturbed`: `Spec => []TransAccounted` |
| | `SafeUnlessCutHolds`, `OnlyCountsLeakHolds` | `Spec => SafeUnlessCut`, `Spec => []OnlyCountsLeak` |
| | `FilesNamedHolds`, `OkCompleteHolds`, `FilesInPlaceHolds` | with `OneLoader`: `FilesNamed`; `OkComplete` and that "ok" means all files; `FilesInPlace` |
| `StdioProofs` | `TypeCorrect` | `Spec => []TypeOK` |
| | `RoomForTerminatorHolds` | with `TxBufSize < DataLenMax`: `Spec => []RoomForTerminator` |
| | `PrintIntactHolds` | with one reader: `Spec => []PrintIntact` |
| | `InputIntactHolds` | with one writer, no write longer than `tx_buf` and none before the probe's message: `Spec => []InputIntact` |

They hold for any number of files, processes, structs, variables and buffers, any limits and any sizes of
rings, messages and fifos. Where a theorem says nothing else it holds with and without preemption, signals and all three modes of opening.
The modules' assumptions give the constants the types the code gives them: initial values are within limits
(`config_vars.h`), ids are unique, the size of a ring divides the number of values of its indices. The theorems' own
assumptions:

* None for `LossySpec` and for `SafeUnlessCutHolds` and `OnlyCountsLeakHolds`, whose behaviours end where a list breaks: they hold up to that state.
  Where `Patient` is FALSE the same is true of `NoLeakHolds`, the other theorem about such clients.
* `Patient`: what is opened for reading is read before it is closed (section 3 says what happens otherwise).
* `OneWay`: `Patient`, one thread in `access_var` at a time (`race_data`) and no file opened for reading and writing
  (`rw_close`).
* `FewStructs`: no more transaction structs than sequence numbers. The code numbers with a `u32`: 2^32 structs do not fit into
  the memory of a Zynq. With fewer numbers a response could meet the wrong struct.
* `NothingFails`: no signals, and only indices that the firmware has, which is how `load_cfg_variables` makes the files.
  Either failure loses a struct by design of the code.
* `Undisturbed`: no signal in the wait for a name and no full bus when it is asked for (section 3).
* `OneLoader`: `Undisturbed`; `load_list` is opened by one process at a time until it has been loaded (`load_race` shows why), a firmware
  that is started again has as many variables as before (section 3), and `FewStructs` as above.
* `TxBufSize < DataLenMax`: 256 and 496 in the code.
* One reader, one writer, short writes, `~Early`: the device has no lock. Two readers copy the same bytes, two writers share `tx_buf`,
  a longer write is cut (`dev_write`) and one that overtakes the probe's message is taken for it; section 3 names all four. What is
  printed needs the first of these only.
* `"milli" \notin Kinds`: the callback stores past the limits.

### The arguments

**Table** (`TableInv`). The refinement maps a variable to what a read would publish. Where `cfgCpyCB`
reads, the register is the application's location, limited; elsewhere it is the table's value. A copying read stores into the table what it
publishes, so it changes no register, and limiting twice changes nothing. A write through a variable that only copies
on reading reaches the table and not the register: these variables (`ReadOnly`) are the `fixed` ones of `VarTable`. The
handler's branch for a write is the only one that leaves `given` set and answers OK, and the register then holds `Clamp` of the request's value.

**Virtqueue** (`Inv == TypeOK /\ Owned`). `OneOwner` is not inductive: it says nothing of how the slots between two
indices relate. `Owned` cuts the descriptors into those at home, lent, held, given back and those in the act of being put in; the
parts are disjoint (`Apart`), together they are all (`Covered`), there are never more of them than the ring has slots, so no index
overtakes another (`Counted`), and what a side has written to a slot is still there when its index announces it (`Announced`).
The arithmetic rests on three lemmas: division with remainder is unique, the
distance of two free running indices is their difference or their difference plus the modulus, and an index that wraps around goes on with
the next slot because the ring's size divides the modulus. For the refinement each part is the sequence of slots between two
indices; moving an index moves the first element of one sequence to the end of another.

**rpmsg layer** (`Inv == Types /\ Hands /\ Remotes /\ Unasked`). `Hands` says which program counters go with a buffer in hand: the receive
buffer is kept while a callback sends. `Remotes`: a channel that is up has its own remote address, and `stdio_init` is set only then.
`Unasked`: until the second channel is created no request for it is on the way. `NoStrandedMessage` follows the kick: at every program counter between the
look at the counter and `wfe` either the ring is empty, a poll will still look at it, or `due`, `irq` or a sender's kick to come stands for the message.

**Files** (`SafeInv`). `TransAccounted`, `NotRecycledUnanswered` and `NoLostWakeup` are not inductive. The invariant that is
adds: which stages of `access_var` go with which file operation (`OpStage`); that the struct the
callback works on has left `pending_list` and is neither free nor awaited by anybody whose struct is
valid (`Flight`); that a file between taking a struct and sending its request has `valid` unset
(`Ready`); that the struct of whoever may sleep has its wait queue set (`WakeUp`). The
argument of `NotRecycledUnanswered`: a struct enters `pending_list` only at the stage `pend` of the
file that holds it, which then awaits a response; a patient client leaves that state only by seeing
`valid`, which only the callback stores, after it has unlinked the struct. Interrupted and failed closes
keep the struct for ever, which loses it but never recycles it. After `valid = true` the invariant says nothing of the callback's struct: it may be anybody's by then. Where `Preempt` is TRUE `OwnData` fails, yet this invariant holds: what the
race breaks is whose data a response carries, not where the structs are.

**Data in the files** (`CfgDataProofs`). `ErrInv` relates `err` and an error text in a struct: they differ only while the callback is
between its two stores, hence `ErrorWindow`. `WayInv` is the static request: one file at a time is in `access_var` (`Lone`), `rnw` tells how its file was
opened (`Direction`), and from `seq` to `send` the request is that file's (`ReqInv`); with the text in its struct (`WriteInv`, below) this is `CloseWritesBack`. `DataInv` is what `OwnData` needs of the sequence
numbers. `Window`: the responses under way, then the requests under way, then the request that is being sent carry consecutive
numbers, ending with the last one given out. `Paired`: each of them has a struct of its own in `pending_list`, and no two structs there have
the same number. With no more structs than numbers the window never closes around to itself, so a new number is not in use, and the
callback finds the struct of the file that asked; `OwnInv` says for each stage that what is under way for a file speaks of
its variable. `NoLeak` needs only that no error is ever under way (`NoErrors`).

**The files are a table** (`StoreInv == NoErrors /\ WriteInv /\ Written /\ ExpectInv /\ Plain`, besides `SafeInv`'s `Inv`, `WayInv` and `DataInv`).
The mapping gives each file a job of `VarStore`: asked from `seq` on, served when the firmware has put the response on the bus, nobody's when the
file has seen it. `WriteInv`: what is under way for a closing file carries the text in its struct, which is one of the users' numbers
(`Written`). `ExpectInv`: while a file waits with `valid` unset its response is still to come, as its struct is pending or in the callback's hands,
and with the window of `DataInv` it is on the bus or with the callback: `WaitsForAnswer`. `Plain`: the
application registers no callback here. A step of the module is then a step of `VarStore` or a stutter: `access_var` leaving `fill` asks (`FillStep`), the handler
serves the one file whose number the request carries (`FirmwareStep`; `Paired` makes it one), the read or the close that sees `valid` takes the
answer (`FinishStep`), the application's calls are `LocalStep`; the callback, the work of the bus and the rest of `access_var` change
nobody's job (`HiddenStep`, `CallbackStep`), because a response keeps its content on its way from the bus to the struct.

**Failing sends** (`RoughInv == TypeInv /\ Places /\ ReadModes /\ WakeUp`). `LossySpec` lets `rpmsg_send` fail in every request. The part of `SafeInv` about responses under
way (`Flight`) is lost with it. Up to the step that breaks a list, where the structs of files are does not depend on it, nor does the wake-up; so these theorems need no
assumption on the constants, and no bound on the messages under way, which `access_rough` has. For `SafeUnlessReleased` the steps are the ones of the invariant
of the files, each with the hypothesis that it is none of the three ways: the release then finds its response used, and the only failing send left is that of an open for reading,
whose struct stays pending with the file waiting for it.

**Loading the list** (`Inv == Types /\ Places /\ Flight /\ Strays`). `Types` contains which stage goes with which step of `debugfs_open_ll`, and that only `N_VARS` and `NAME` are asked.
`Flight`: a file's struct is under way only while the file waits for a name that has not come, and is invalid until then: one struct serves
all turns of the loop, and this is what resetting `valid` in each turn is for. `Strays`: a struct that is neither free nor a file's has a wait queue and `rnw` unset, which
only `get_n_vars` leaves behind. `rpmsg_link_exit` and `rpmsg_link_init` keep all of it because nothing is open when the firmware stops.
The invariant has two halves. `Core` (types, places, responses under way) is lost by a step of `ClosesCut` or `SkipsName` and no other (`CoreStep`), which is `SafeUnlessCut`; with
`Undisturbed` there is no such step, because a list that can be read has its answers (`Answered`). `Types` and `Strays` do not need even that, since a disturbed name
leaves its struct with its file, and so `OnlyCountsLeak` holds for all constants.

**The files of the variables** (`NameInv == Stage /\ Counts /\ Names /\ Got /\ Numbers /\ Apart`). `Stage`: at turn `i` of the loop the files are
exactly those of the variables below `i`, so the file of the last turn completes the table. `Names`: the request or answer about a name is the last
message of all and a file waits for it, so a second name never overtakes the first and none is left when the firmware stops. What could put a
wrong text into a file is an old count: `get_n_vars` may be interrupted and its answer come much later, when its number has been
given out again. Its struct never comes back (`Strays`), though, so there are never more old numbers than structs that are away, one more while
a count is between its number and its struct (`Numbers`); with `FewStructs` the next number is none of theirs (`Apart`).

**stdio** (`Types`, `Terminators`). Every message is a chunk of `DATA_LEN_MAX - 1` bytes at most or of `tx_buf`, the fifo takes what it has room for, the trace buffer refuses
what would fill it.

**Text from the firmware** (`PrintInv == PrintTexts /\ InOrder /\ Quiet /\ Intact`). `Intact` is `PrintIntact` for the one reader. It is not inductive: when the callback drops the end of a
message, what remains is what was said without those bytes only if none of them occurs elsewhere. `InOrder`: bytes are said in ascending order and everything lost has been printed,
so the next print has no byte that is lost. `Quiet`: nothing is on its way before the device is registered, which empties the fifo. The reader's count never exceeds
the fifo (`PrintTexts`), since only the callback can come between the two halves of a `dev_read`, and it appends.

**Text to the firmware** (`InputInv == InputTexts /\ Greeted /\ Underway /\ Taking`). `Greeted`: before the probe's message nothing is in the queue, until the firmware takes
that message it is the first one, and no other message holds its byte, which the firmware does not count as input. `Underway`: what `copy_from_user` has put into `tx_buf`
is still there at the send, being the whole write.

Both use laws of the sequences' operators that are inductions over data (a queue put together, `Flat`; a sequence without some elements, `Without`).
The library's induction theorems cannot be instantiated here, so `AllNats` and `AllSeqs` state induction for the members of a set: a set of numbers
with 0 and every successor is `Nat` (from the well-foundedness of `<`), a set of sequences with the empty one and every extension is `Seq(S)`.

Every inductive invariant was checked by TLC on the instance of a run before it was proved.

### Only model-checked

* Liveness (`Finishes`, `Answered`, `Loads`, `Completes`), which is out of the prover's reach.
* `FilesNamed` and `OkComplete` when names are interrupted or not sent (`load`): the theorems have `Undisturbed`.

## 5. Not modelled, and the plan

Every invariant, action property and refinement that a passing run checks is stated by a theorem. What could be proved beyond that: the two
refinements around `RpmsgBm` composed with `CfgAccess`, whose bus is `RpmsgBus`' channel.

Not modelled, of the parts that are:

* the firmware being stopped, or a module removed, while files are open: `rpmsg_link_exit` frees pending structs that
  open files point to, and sleepers are never woken. What follows is use of freed memory, of which no property can be stated;
* what a broken list does to the requests that come after (`Intact`);
* the lines that a callback prints one by one (`main.c`, `var_cb`): one message stands for them in `RpmsgBm`;
* `rpmsg_link_init` returning with `pending_list_lock` held when an allocation fails, and the failing allocations of `alloc_mem`;
* `debugfs_poll_var` and `O_NONBLOCK`, which look and change nothing;
* `outbyte` and the line buffer of the firmware's C library in front of `_write`; removal of the stdio module.

Left out for good: the Xilinx board support package and generated IP drivers (vendored), interrupt
controller, MMU and timer set-up (register writes), `uart.c` (not linked), the build and load scripts, `clist`, whose
sequential opening and reading of files is what `Patient = TRUE` stands for. Caches and memory barriers are abstracted: stores become visible in the
order in which the code makes them. These parts are more than nine tenths of the repository's lines,
so the share of all lines that the modules stand for stays small.
