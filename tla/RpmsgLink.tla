------------------------------ MODULE RpmsgLink ------------------------------
(***************************************************************************)
(* The link layer of the kernel module (kernel_mod/rpmsg_link.c): a pool   *)
(* of transaction structs, the request that access_var builds and sends,   *)
(* and the callback that matches a response with its transaction.          *)
(*                                                                         *)
(* A thread inside access_var is at one of its stages; the locks make      *)
(* single steps of the list operations and of the sequence counter, all    *)
(* the rest interleaves.  The callback takes three steps: it finds the     *)
(* transaction under the lock, stores up to valid = true, and does what    *)
(* the code does after that store.  The two channels are the rpmsg bus,    *)
(* which delivers in order.                                                *)
(***************************************************************************)
EXTENDS Integers, Sequences

CONSTANTS Fds,          \* open files, whose operations call access_var
          Trans,        \* the transaction structs that memory has room for
          Pool,         \* those that rpmsg_link_init allocates
          NoTrans,      \* a null pointer
          SeqMod,       \* values of a u32: sequence numbers wrap around
          Preempt       \* whether two files can be in access_var at once: in a
                        \* preemptible kernel, or when rpmsg_send sleeps

ASSUME PoolAssumption == Pool \subseteq Trans /\ NoTrans \notin Trans
ASSUME SeqAssumption == SeqMod \in Nat \ {0}
ASSUME PreemptAssumption == Preempt \in BOOLEAN

VARIABLES trans,        \* contents of each transaction struct
          unused,       \* unused_list
          heap,         \* structs that kzalloc has not handed out
          pending,      \* pending_list
          nextSeq,      \* msg_seq_nr of get_next_seq_nr
          req,          \* the static request buffer of access_var
          at,           \* stage of access_var each file is at
          cb,           \* the running cfg_mgmt_rpmsg_cb
          nVars,        \* n_vars
          toBm, toLinux \* messages under way in each direction

linkVars == <<trans, unused, heap, pending, nextSeq, req, at, cb, nVars, toBm, toLinux>>

(***************************************************************************)
(* Data.  A text stands for the contents of an IO buffer: what kind of     *)
(* text it is, the variable it is about and the number in it.              *)
(***************************************************************************)
Stages == {"out", "fill", "seq", "pend", "send", "wait"}

NumberTexts == {"RD_VAL", "RD_MIN", "RD_MAX"}
ValueTexts  == NumberTexts \cup {"NAME", "DESC"}
ErrorTexts  == {"ID_ERR", "REQ_ERR"}
LinkTypes   == ValueTexts \cup ErrorTexts \cup {"OK", "N_VARS"}
ReqTypes    == {"WR", "RD", "RD_MIN", "RD_MAX", "NAME", "DESC", "N_VARS"}
TextKinds   == ValueTexts \cup ErrorTexts \cup {"empty", "user", "junk", "ok", "sorry"}

Text == [kind : TextKinds, ind : Int, val : Int]
NoText == [kind |-> "empty", ind |-> -1, val |-> 0]

Struct == [seq : Nat, text : Text, dirty : BOOLEAN, valid : BOOLEAN,
           rnw : BOOLEAN, err : BOOLEAN, wq : BOOLEAN]
Zeroed == [seq |-> 0, text |-> NoText, dirty |-> FALSE, valid |-> FALSE,
           rnw |-> FALSE, err |-> FALSE, wq |-> FALSE]

LinkRequest  == [seq : Nat, type : ReqTypes, ind : Int, val : Int]
LinkResponse == [seq : Nat, type : LinkTypes, ind : Int, val : Int]
NoResponse == [seq |-> 0, type |-> "OK", ind |-> -1, val |-> 0]
CbIdle == [pc |-> "idle", t |-> NoTrans, msg |-> NoResponse]

(***************************************************************************)
(* rpmsg_link_alloc_trans and rpmsg_link_return_trans.  The caller writes  *)
(* the struct right after the memset, while it is its own.                 *)
(***************************************************************************)
\* (Variant: the struct is not taken off the list.)
AllocKeep(t) == /\ t \in unused \cup heap
                /\ heap' = heap \ {t}
                /\ UNCHANGED unused
Alloc(t) == /\ t \in IF unused # {} THEN unused ELSE heap
            /\ unused' = unused \ {t}
            /\ heap' = heap \ {t}

\* (Variant: the struct is cleared and then forgotten.)
ReturnForgets(t) == /\ trans' = [trans EXCEPT ![t] = Zeroed]
                    /\ UNCHANGED <<unused, heap>>
Return(t) == /\ trans' = [trans EXCEPT ![t] = Zeroed]
             /\ unused' = unused \cup {t}
             /\ UNCHANGED heap

(***************************************************************************)
(* access_var.                                                             *)
(***************************************************************************)
InAccess(f) == at[f] \in {"fill", "seq", "pend", "send"}

MayEnter == Preempt \/ \A f \in Fds : ~ InAccess(f)

Enter(f) == /\ MayEnter
             /\ at' = [at EXCEPT ![f] = "fill"]

\* Every field but seq; type and val come from the caller and its buffer.
FillRequest(f, type, ind, v) ==
    /\ at[f] = "fill"
    /\ req' = [req EXCEPT !.type = type, !.ind = ind, !.val = v]
    /\ at' = [at EXCEPT ![f] = "seq"]
    /\ UNCHANGED <<trans, unused, heap, pending, nextSeq, cb, nVars, toBm, toLinux>>

\* The buffer is no number: access_var gives up with the request half filled.
RejectRequest(f, ind) ==
    /\ at[f] = "fill"
    /\ req' = [req EXCEPT !.type = "WR", !.ind = ind, !.val = 0]
    /\ at' = [at EXCEPT ![f] = "out"]

\* req.seq = get_next_seq_nr()
TakeSeq(f) == /\ at[f] = "seq"
               /\ req' = [req EXCEPT !.seq = nextSeq]
               /\ nextSeq' = (nextSeq + 1) % SeqMod
               /\ at' = [at EXCEPT ![f] = "pend"]
               /\ UNCHANGED <<trans, unused, heap, pending, cb, nVars, toBm, toLinux>>

\* t->msg_seq_nr = req.seq; add_pend_trans(t)
AddPending(f, t) == /\ at[f] = "pend"
                     /\ trans' = [trans EXCEPT ![t].seq = req.seq]
                     /\ pending' = pending \cup {t}
                     /\ at' = [at EXCEPT ![f] = "send"]
                     /\ UNCHANGED <<unused, heap, nextSeq, req, cb, nVars, toBm, toLinux>>

\* rpmsg_send copies the request into a buffer of the bus.
SendRequest(f, stage) ==
    /\ at[f] = "send"
    /\ toBm' = Append(toBm, req)
    /\ at' = [at EXCEPT ![f] = stage]
    /\ UNCHANGED <<trans, unused, heap, pending, nextSeq, req, cb, nVars, toLinux>>

\* rpmsg_send finds no buffer: access_var fails, t stays in the pending list.
FailToSend(f) == /\ at[f] = "send"
                  /\ at' = [at EXCEPT ![f] = "out"]

(***************************************************************************)
(* cfg_mgmt_rpmsg_cb.                                                      *)
(***************************************************************************)
\* (Variant: any transaction will do.)
MatchesAny(t, m) == t \in pending
Matches(t, m) == t \in pending /\ trans[t].seq = m.seq

\* (Variant: the transaction is left in the list.)
UnlinkNot(t) == pending' = pending
Unlink(t) == pending' = pending \ {t}

CbMatch ==
    /\ cb.pc = "idle" /\ toLinux # <<>>
    /\ \E t \in Trans :
          /\ Matches(t, Head(toLinux))
          /\ Unlink(t)
          /\ cb' = [pc |-> "fill", t |-> t, msg |-> Head(toLinux)]
    /\ toLinux' = Tail(toLinux)
    /\ UNCHANGED <<trans, unused, heap, nextSeq, req, at, nVars, toBm>>

\* No transaction has the sequence number of the response: it is dropped.
CbDrop ==
    /\ cb.pc = "idle" /\ toLinux # <<>>
    /\ ~ \E t \in Trans : Matches(t, Head(toLinux))
    /\ toLinux' = Tail(toLinux)
    /\ UNCHANGED <<trans, unused, heap, pending, nextSeq, req, at, cb, nVars, toBm>>

\* The switch over the response type, up to and including valid = true.
Filled(s, m) ==
    CASE m.type \in ValueTexts ->
           [s EXCEPT !.text = [kind |-> m.type, ind |-> m.ind, val |-> m.val],
                     !.err = FALSE, !.valid = TRUE]
      [] m.type \in ErrorTexts ->
           [s EXCEPT !.text = [kind |-> m.type, ind |-> m.ind, val |-> 0],
                     !.valid = TRUE]
      [] OTHER -> [s EXCEPT !.valid = TRUE]

CbFill == /\ cb.pc = "fill"
          /\ trans' = [trans EXCEPT ![cb.t] = Filled(trans[cb.t], cb.msg)]
          /\ nVars' = IF cb.msg.type = "N_VARS" THEN cb.msg.val ELSE nVars
          /\ cb' = [cb EXCEPT !.pc = "finish"]
          /\ UNCHANGED <<unused, heap, pending, nextSeq, req, at, toBm, toLinux>>

\* What follows valid = true: err of the responses OK and error, the wake-up.
\* (Variant: err is never set.)
FinishedNoErr(s, m) == IF m.type = "OK" THEN [s EXCEPT !.err = FALSE] ELSE s
Finished(s, m) ==
    CASE m.type = "OK"         -> [s EXCEPT !.err = FALSE]
      [] m.type \in ErrorTexts -> [s EXCEPT !.err = TRUE]
      [] OTHER                 -> s

CbWakes == trans[cb.t].wq

CbFinish == /\ cb.pc = "finish"
            /\ trans' = [trans EXCEPT ![cb.t] = Finished(trans[cb.t], cb.msg)]
            /\ cb' = CbIdle
            /\ UNCHANGED <<unused, heap, pending, nextSeq, req, at, nVars, toBm, toLinux>>

(***************************************************************************)
(* rpmsg_link_init, before any other call.                                 *)
(***************************************************************************)
LinkInit == /\ trans = [t \in Trans |-> Zeroed]
            /\ unused = Pool
            /\ heap = Trans \ Pool
            /\ pending = {}
            /\ nextSeq = 0
            /\ req = [seq |-> 0, type |-> "RD", ind |-> 0, val |-> 0]
            /\ at = [f \in Fds |-> "out"]
            /\ cb = CbIdle
            /\ toBm = <<>>
            /\ toLinux = <<>>

\* Every variable of the link has its type: rpmsg_link.h's structs.
LinkTypeOK == /\ trans \in [Trans -> Struct]
              /\ unused \subseteq Trans
              /\ heap \subseteq Trans
              /\ pending \subseteq Trans
              /\ nextSeq \in Nat
              /\ req \in LinkRequest
              /\ at \in [Fds -> Stages]
              /\ cb \in [pc : {"idle", "fill", "finish"}, t : Trans \cup {NoTrans},
                         msg : LinkResponse]
              /\ (cb.pc # "idle" => cb.t \in Trans)
              /\ nVars \in Int
              /\ toBm \in Seq(LinkRequest)
              /\ toLinux \in Seq(LinkResponse)
=============================================================================
