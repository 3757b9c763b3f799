------------------------------ MODULE RpmsgBus ------------------------------
(***************************************************************************)
(* What the rpmsg bus and the firmware's rpmsg layer promise: messages     *)
(* arrive once and in order in both directions, the firmware serves its    *)
(* messages one at a time, and what it sends for one message leaves before *)
(* what it sends for the next.                                             *)
(***************************************************************************)
EXTENDS Sequences

CONSTANTS ToBmMessages,     \* what Linux sends
          ToLinuxMessages,  \* what the firmware sends for itself
          Answers(_)        \* what the firmware may send for a message

VARIABLES toBm, toLinux

busVars == <<toBm, toLinux>>

Init == toBm = <<>> /\ toLinux = <<>>

Send == /\ \E m \in ToBmMessages : toBm' = Append(toBm, m)
        /\ UNCHANGED toLinux

Serve == /\ toBm # <<>>
         /\ toBm' = Tail(toBm)
         /\ \E a \in Answers(Head(toBm)) : toLinux' = toLinux \o a

\* The firmware speaks for itself.
Speak == /\ \E m \in ToLinuxMessages : toLinux' = Append(toLinux, m)
         /\ UNCHANGED toBm

Deliver == /\ toLinux # <<>>
           /\ toLinux' = Tail(toLinux)
           /\ UNCHANGED toBm

Next == Send \/ Serve \/ Speak \/ Deliver

Spec == Init /\ [][Next]_busVars
=============================================================================
