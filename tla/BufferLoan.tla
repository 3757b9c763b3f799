----------------------------- MODULE BufferLoan -----------------------------
(***************************************************************************)
(* What a virtqueue promises: buffers are lent and come back, each side    *)
(* gets them in the order in which the other one passed them on, with      *)
(* the contents they had then, and at any time each has one owner.         *)
(***************************************************************************)
EXTENDS Integers, Sequences

CONSTANTS Buffers, Contents, Nobody

VARIABLES home,     \* buffers of the lender
          lent,     \* passed to the borrower with their contents, not taken yet
          held,     \* in the borrower's hands, or Nobody
          back      \* passed back, not collected yet

loanVars == <<home, lent, held, back>>

Loan == [buf : Buffers, data : Contents]

Init == /\ home = Buffers
        /\ lent = <<>> /\ held = Nobody /\ back = <<>>

LendWith(m) == /\ \E b \in home : /\ home' = home \ {b}
                                  /\ lent' = Append(lent, [buf |-> b, data |-> m])
               /\ UNCHANGED <<held, back>>
Lend == \E m \in Contents : LendWith(m)

Take == /\ held = Nobody /\ lent # <<>>
        /\ held' = Head(lent)
        /\ lent' = Tail(lent)
        /\ UNCHANGED <<home, back>>

UseWith(m) == /\ held # Nobody
              /\ held' = [held EXCEPT !.data = m]
              /\ UNCHANGED <<home, lent, back>>
Use == \E m \in Contents : UseWith(m)

GiveBack == /\ held # Nobody
            /\ back' = Append(back, held)
            /\ held' = Nobody
            /\ UNCHANGED <<home, lent>>

Collect == /\ back # <<>>
           /\ home' = home \cup {Head(back).buf}
           /\ back' = Tail(back)
           /\ UNCHANGED <<lent, held>>

Next == Lend \/ Take \/ Use \/ GiveBack \/ Collect

Spec == Init /\ [][Next]_loanVars
=============================================================================
