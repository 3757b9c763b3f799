----------------------------- MODULE VringProofs -----------------------------
(***************************************************************************)
(* Proofs about the virtqueue of module Vring, for every size of the ring, *)
(* every width of the indices that the size divides, and every contents.   *)
(***************************************************************************)
EXTENDS Vring, FiniteSetTheorems, SequenceTheorems, TLAPS

(***************************************************************************)
(* Free running indices and slots.                                         *)
(***************************************************************************)

\* Division with remainder is unique: how % is computed in what follows.
LEMMA ModUnique ==
    ASSUME NEW n \in Nat \ {0}, NEW a \in Int, NEW q \in Int, NEW r \in 0 .. n - 1,
           a = n * q + r
    PROVE  a % n = r
<1> DEFINE p == a \div n
           s == a % n
<1>1. p \in Int /\ s \in 0 .. n - 1 /\ a = n * p + s
  OBVIOUS
<1> HIDE DEF p, s
<1>2. ASSUME p < q PROVE FALSE
  <2>1. n * (q - p) = s - r
    BY <1>1
  <2>2. n * (q - p) >= n
    BY <1>1, <1>2
  <2>. QED BY <2>1, <2>2, <1>1
<1>3. ASSUME q < p PROVE FALSE
  <2>1. n * (p - q) = r - s
    BY <1>1
  <2>2. n * (p - q) >= n
    BY <1>1, <1>3
  <2>. QED BY <2>1, <2>2, <1>1
<1>4. s = r
  BY <1>1, <1>2, <1>3
<1>. QED BY <1>4 DEF s

LEMMA Sizes == N \in Nat \ {0} /\ M \in Nat \ {0} /\ N < M
BY SizeAssumption, IndexAssumption

\* A free running index goes to the next one, or from the last one to 0.
LEMMA AfterIs ==
    ASSUME NEW i \in Index
    PROVE  /\ After(i) \in Index
           /\ After(i) = IF i + 1 = M THEN 0 ELSE i + 1
<1>1. CASE i + 1 = M
  BY <1>1, ModUnique, IndexAssumption, M = M * 1 + 0 DEF After, Index
<1>2. CASE i + 1 # M
  BY <1>2, IndexAssumption DEF After, Index
<1>. QED BY <1>1, <1>2

\* How many entries there are between two indices, without %.
LEMMA DistIs ==
    ASSUME NEW i \in Index, NEW j \in Index
    PROVE  /\ Dist(i, j) \in 0 .. M - 1
           /\ Dist(i, j) = IF i <= j THEN j - i ELSE j - i + M
<1>1. CASE i <= j
  <2>1. j - i = M * 0 + (j - i) /\ j - i \in 0 .. M - 1 /\ M \in Nat \ {0}
    BY <1>1, IndexAssumption, SizeAssumption DEF Index
  <2>. QED BY <1>1, <2>1, ModUnique, IndexAssumption DEF Index, Dist
<1>2. CASE ~(i <= j)
  <2>1. j - i = M * (-1) + (j - i + M) /\ j - i + M \in 0 .. M - 1 /\ M \in Nat \ {0}
    BY <1>2, IndexAssumption, SizeAssumption DEF Index
  <2>2. Dist(i, j) = j - i + M
    BY <2>1, ModUnique, IndexAssumption DEF Index, Dist
  <2>. QED BY <1>2, <2>1, <2>2
<1>. QED BY <1>1, <1>2

LEMMA SlotType ==
    ASSUME NEW i \in Int
    PROVE  Slot(i) \in Desc
BY SizeAssumption DEF Slot, Desc

\* The size of the ring divides the number of index values: an index that wraps
\* around goes on with the next slot.
LEMMA SlotWraps ==
    ASSUME NEW i \in Int
    PROVE  Slot(i + M) = Slot(i)
<1> DEFINE c == M \div N
           p == i \div N
           r == i % N
<1>1. c \in Int /\ M = N * c
  BY SizeAssumption, IndexAssumption
<1>2. p \in Int /\ r \in 0 .. N - 1 /\ i = N * p + r
  BY SizeAssumption
<1> HIDE DEF c, p, r
<1>3. i + M = N * (p + c) + r
  BY <1>1, <1>2, SizeAssumption
<1>4. (i + M) % N = r
  BY <1>1, <1>2, <1>3, ModUnique, SizeAssumption, IndexAssumption
<1>. QED BY <1>4 DEF Slot, r

\* Fewer than N steps apart, two indices have different slots.
LEMMA SlotsDiffer ==
    ASSUME NEW i \in Int, NEW j \in Int, i < j, j < i + N
    PROVE  Slot(i) # Slot(j)
<1> SUFFICES ASSUME Slot(i) = Slot(j) PROVE FALSE
  OBVIOUS
<1> DEFINE p == i \div N
           q == j \div N
           r == i % N
<1>1. p \in Int /\ q \in Int /\ r \in 0 .. N - 1 /\ i = N * p + r /\ j = N * q + r
  BY SizeAssumption DEF Slot
<1> HIDE DEF p, q, r
<1>2. N * (q - p) = j - i
  BY <1>1, SizeAssumption
<1>3. q - p > 0
  BY <1>1, <1>2, SizeAssumption
<1>4. N * (q - p) >= N
  BY <1>1, <1>3, SizeAssumption
<1>. QED BY <1>2, <1>4, SizeAssumption

(***************************************************************************)
(* The entries between two indices, as a sequence that grows at one end    *)
(* and shrinks at the other.                                               *)
(***************************************************************************)

LEMMA BetweenType ==
    ASSUME NEW ring \in [Desc -> Desc], NEW i \in Index, NEW j \in Index
    PROVE  /\ Between(ring, i, j) \in Seq(Desc)
           /\ Len(Between(ring, i, j)) = Dist(i, j)
           /\ DOMAIN Between(ring, i, j) = 1 .. Dist(i, j)
           /\ \A k \in 1 .. Dist(i, j) : Between(ring, i, j)[k] = ring[Slot(i + k - 1)]
<1>1. Dist(i, j) \in Nat
  BY DistIs, IndexAssumption
<1>2. \A k \in 1 .. Dist(i, j) : ring[Slot(i + k - 1)] \in Desc
  <2> TAKE k \in 1 .. Dist(i, j)
  <2>1. i + k - 1 \in Int
    BY <1>1, IndexAssumption DEF Index
  <2>. QED BY <2>1, SlotType
<1>3. Between(ring, i, j) \in [1 .. Dist(i, j) -> Desc]
  BY <1>2 DEF Between
<1>. QED BY <1>1, <1>3 DEF Between

\* The index moves on: the entry at its slot is the new last one.
LEMMA BetweenGrows ==
    ASSUME NEW ring \in [Desc -> Desc], NEW i \in Index, NEW j \in Index, Dist(i, j) < N
    PROVE  Between(ring, i, After(j)) = Append(Between(ring, i, j), ring[Slot(j)])
<1> DEFINE n == Dist(i, j)
           a == Between(ring, i, j)
           b == Between(ring, i, After(j))
<1>1. After(j) \in Index /\ n \in Nat /\ Dist(i, After(j)) = n + 1
  <2>1. n \in 0 .. M - 1 /\ n = IF i <= j THEN j - i ELSE j - i + M
    BY DistIs
  <2>2. After(j) \in Index /\ After(j) = IF j + 1 = M THEN 0 ELSE j + 1
    BY AfterIs
  <2>3. Dist(i, After(j)) = IF i <= After(j) THEN After(j) - i ELSE After(j) - i + M
    BY <2>2, DistIs
  <2>. QED BY <2>1, <2>2, <2>3, Sizes DEF Index
<1>2. Slot(i + (n + 1) - 1) = Slot(j)
  <2>1. n = IF i <= j THEN j - i ELSE j - i + M
    BY DistIs
  <2>2. i + n = j \/ i + n = j + M
    BY <2>1, Sizes DEF Index
  <2>3. i + (n + 1) - 1 = i + n /\ j \in Int
    BY <1>1, Sizes DEF Index
  <2>. QED BY <2>2, <2>3, SlotWraps
<1>3. /\ a \in Seq(Desc) /\ Len(a) = n
      /\ \A k \in 1 .. n : a[k] = ring[Slot(i + k - 1)]
  BY BetweenType
<1>4. /\ b \in Seq(Desc) /\ Len(b) = n + 1
      /\ \A k \in 1 .. n + 1 : b[k] = ring[Slot(i + k - 1)]
  BY <1>1, BetweenType
<1>5. ring[Slot(j)] \in Desc
  BY SlotType DEF Index
<1> HIDE DEF n, a, b
<1>6. b = Append(a, ring[Slot(j)])
  BY <1>1, <1>2, <1>3, <1>4, <1>5
<1>. QED BY <1>6 DEF a, b

\* The other index moves on: its entry was the first one.
LEMMA BetweenShrinks ==
    ASSUME NEW ring \in [Desc -> Desc], NEW i \in Index, NEW j \in Index, i # j
    PROVE  /\ Between(ring, i, j) # <<>>
           /\ Head(Between(ring, i, j)) = ring[Slot(i)]
           /\ Between(ring, After(i), j) = Tail(Between(ring, i, j))
<1> DEFINE n == Dist(i, j)
           a == Between(ring, i, j)
           b == Between(ring, After(i), j)
<1>1. After(i) \in Index /\ n \in Nat \ {0} /\ Dist(After(i), j) = n - 1
  <2>1. n \in 0 .. M - 1 /\ n = IF i <= j THEN j - i ELSE j - i + M
    BY DistIs
  <2>2. After(i) \in Index /\ After(i) = IF i + 1 = M THEN 0 ELSE i + 1
    BY AfterIs
  <2>3. Dist(After(i), j) = IF After(i) <= j THEN j - After(i) ELSE j - After(i) + M
    BY <2>2, DistIs
  <2>. QED BY <2>1, <2>2, <2>3, Sizes DEF Index
<1>2. \A k \in 1 .. n - 1 : Slot(After(i) + k - 1) = Slot(i + (k + 1) - 1)
  <2> TAKE k \in 1 .. n - 1
  <2>1. i + (k + 1) - 1 = After(i) + k - 1 \/ i + (k + 1) - 1 = (After(i) + k - 1) + M
    BY <1>1, AfterIs, IndexAssumption DEF Index
  <2>2. After(i) + k - 1 \in Int
    BY <1>1, IndexAssumption DEF Index
  <2>. QED BY <2>1, <2>2, SlotWraps, IndexAssumption
<1>3. /\ a \in Seq(Desc) /\ Len(a) = n
      /\ \A k \in 1 .. n : a[k] = ring[Slot(i + k - 1)]
  BY BetweenType
<1>4. /\ b \in Seq(Desc) /\ Len(b) = n - 1
      /\ \A k \in 1 .. n - 1 : b[k] = ring[Slot(After(i) + k - 1)]
  BY <1>1, BetweenType
<1>5. a[1] = ring[Slot(i)]
  BY <1>1, <1>3, i + 1 - 1 = i, IndexAssumption DEF Index
<1> HIDE DEF n, a, b
<1>6. a # <<>> /\ Head(a) = ring[Slot(i)] /\ b = Tail(a)
  BY <1>1, <1>2, <1>3, <1>4, <1>5
<1>. QED BY <1>6 DEF a, b

\* The slot at the index is not between the two, unless the ring is full.
LEMMA BetweenKept ==
    ASSUME NEW ring \in [Desc -> Desc], NEW i \in Index, NEW j \in Index, NEW d \in Desc,
           Dist(i, j) < N
    PROVE  Between([ring EXCEPT ![Slot(j)] = d], i, j) = Between(ring, i, j)
<1> DEFINE n == Dist(i, j)
<1>1. n \in Nat /\ (i + n = j \/ i + n = j + M)
  <2>1. n \in 0 .. M - 1 /\ n = IF i <= j THEN j - i ELSE j - i + M
    BY DistIs
  <2>. QED BY <2>1, Sizes DEF Index
<1>2. Slot(i + n) = Slot(j)
  <2>1. j \in Int
    BY Sizes DEF Index
  <2>. QED BY <1>1, <2>1, SlotWraps
<1>3. ASSUME NEW k \in 1 .. n
      PROVE  Slot(i + k - 1) # Slot(j) /\ Slot(i + k - 1) \in Desc
  <2>1. i + k - 1 \in Int /\ i + n \in Int /\ i + k - 1 < i + n /\ i + n < i + k - 1 + N
    BY <1>1, SizeAssumption, IndexAssumption DEF Index
  <2>. QED BY <2>1, <1>2, SlotsDiffer, SlotType
<1> HIDE DEF n
<1>4. \A k \in 1 .. n : [ring EXCEPT ![Slot(j)] = d][Slot(i + k - 1)] = ring[Slot(i + k - 1)]
  BY <1>3
<1>. QED BY <1>4 DEF Between, n

(***************************************************************************)
(* The inductive invariant.  The buffers are spread over five places; the  *)
(* two that are stretches of a ring hold a buffer once; and because there  *)
(* are only as many buffers as slots, none of the stretches ever covers    *)
(* the slot that is written next.                                          *)
(***************************************************************************)
Once(s) == \A j, k \in DOMAIN s : s[j] = s[k] => j = k

\* No buffer is in two places.
Apart == /\ free \cap (Putting \cup Holding \cup Members(Lent) \cup Members(Back)) = {}
         /\ Putting \cap (Holding \cup Members(Lent) \cup Members(Back)) = {}
         /\ Holding \cap (Members(Lent) \cup Members(Back)) = {}
         /\ Members(Lent) \cap Members(Back) = {}
         /\ Once(Lent) /\ Once(Back)

\* None is lost.
Covered == Desc \subseteq free \cup Putting \cup Holding \cup Members(Lent) \cup Members(Back)

\* There are N of them.
One(p) == IF p THEN 1 ELSE 0
Counted == Cardinality(free) + One(linux.pc = "put") + One(bm.pc \in {"held", "pub"})
              + Len(Lent) + Len(Back) = N

\* What is written to a slot stays there until the index announces it, and
\* vring_get_buf goes on only when there is an entry.
Announced == /\ linux.pc = "put" => avail[Slot(availIdx)] = linux.d
             /\ bm.pc = "pub" => used[Slot(usedIdx)] = bm.d
             /\ bm.pc = "get" => availIdx # tail

Owned == Apart /\ Covered /\ Counted /\ Announced

Inv == TypeOK /\ Owned

(***************************************************************************)
(* Types, and the kick.                                                    *)
(***************************************************************************)
LEMMA TypeInit == Init => TypeOK
<1>1. 0 \in Desc /\ 0 \in Index
  BY Sizes DEF Desc, Index
<1> SUFFICES ASSUME Init PROVE TypeOK
  OBVIOUS
<1>2. linux \in [pc : {"idle", "put"}, d : Desc]
  BY <1>1 DEF Init, LinuxIdle
<1>3. bm \in [pc : {"idle", "get", "held", "pub", "kick"}, d : Desc]
  BY <1>1 DEF Init, BmIdle
<1>4. awake \in BOOLEAN /\ irq \in BOOLEAN /\ kick \in BOOLEAN
  BY DEF Init
<1>5. avail \in [Desc -> Desc] /\ used \in [Desc -> Desc] /\ buf \in [Desc -> Contents]
  BY <1>1 DEF Init
<1>. QED BY <1>1, <1>2, <1>3, <1>4, <1>5 DEF Init, TypeOK

LEMMA TypeStep == TypeOK /\ [Next]_vars => TypeOK'
<1> SUFFICES ASSUME TypeOK, [Next]_vars PROVE TypeOK'
  OBVIOUS
<1>1. 0 \in Desc /\ \A i \in Index : Slot(i) \in Desc
  <2>1. \A i \in Index : i \in Int
    BY Sizes DEF Index
  <2>. QED BY <2>1, SlotType, Sizes DEF Desc
<1>2. \A i \in Index : After(i) \in Index
  BY AfterIs
<1>3. CASE PutSlot
  <2>1. PICK d \in free, m \in Contents :
           /\ buf' = [buf EXCEPT ![d] = m]
           /\ avail' = [avail EXCEPT ![Slot(availIdx)] = d]
           /\ free' = free \ {d}
           /\ linux' = [pc |-> "put", d |-> d]
    BY <1>3 DEF PutSlot
  <2>. QED BY <1>3, <2>1 DEF PutSlot, TypeOK
<1>4. CASE PutIdx
  BY <1>1, <1>2, <1>4 DEF PutIdx, TypeOK, LinuxIdle
<1>5. CASE Collect
  <2>1. used[Slot(seen)] \in Desc
    BY <1>1 DEF TypeOK
  <2>. QED BY <1>2, <1>5, <2>1 DEF Collect, TypeOK
<1>6. CASE Rest
  BY <1>6 DEF Rest, TypeOK
<1>7. CASE Interrupt
  BY <1>7 DEF Interrupt, TypeOK
<1>8. CASE GetIdx
  BY <1>1, <1>8 DEF GetIdx, TypeOK
<1>9. CASE GetSlot
  <2>1. Entry \in Desc
    BY <1>1 DEF TypeOK, Entry
  <2>. QED BY <1>2, <1>9, <2>1 DEF GetSlot, TypeOK
<1>10. CASE Fill
  BY <1>10 DEF Fill, TypeOK
<1>11. CASE PubSlot
  BY <1>1, <1>11 DEF PubSlot, PubEntry, TypeOK
<1>12. CASE PubIdx
  BY <1>1, <1>2, <1>12 DEF PubIdx, Published, BmIdle, TypeOK
<1>13. CASE Notify
  BY <1>1, <1>13 DEF Notify, BmIdle, TypeOK
<1>14. CASE UNCHANGED vars
  BY <1>14 DEF vars, TypeOK
<1>. QED BY <1>3, <1>4, <1>5, <1>6, <1>7, <1>8, <1>9, <1>10, <1>11, <1>12, <1>13, <1>14
         DEF Next, Linux, Firmware

\* The indices, the rings and the program counters of the two sides always have
\* their types: an index stays below its width and a slot holds a descriptor
\* (bm_fw/src/virtio_ring.c keeps 16 bit indices and masks them).
THEOREM TypeCorrect == Spec => []TypeOK
BY TypeInit, TypeStep, PTL DEF Spec

\* vring_publish_buf cannot lose its kick: as long as Linux rests with an entry in
\* the used ring that it has not seen, it is going to be interrupted.
THEOREM NoLostKickHolds == Spec => []NoLostKick
<1>1. Init => NoLostKick
  BY DEF Init, NoLostKick
<1>2. TypeOK /\ NoLostKick /\ [Next]_vars => NoLostKick'
  <2> SUFFICES ASSUME TypeOK, NoLostKick, [Next]_vars PROVE NoLostKick'
    OBVIOUS
  <2> USE DEF NoLostKick
  <2>1. CASE PutSlot \/ PutIdx
    BY <2>1 DEF PutSlot, PutIdx
  <2>2. CASE Collect
    BY <2>2 DEF Collect
  <2>3. CASE Rest \/ Interrupt
    BY <2>3 DEF Rest, Interrupt, TypeOK
  <2>4. CASE GetIdx \/ GetSlot \/ Fill \/ PubSlot
    BY <2>4 DEF GetIdx, GetSlot, Fill, PubSlot
  <2>5. CASE PubIdx
    BY <2>5 DEF PubIdx, Published, TypeOK
  <2>6. CASE Notify
    BY <2>6 DEF Notify
  <2>7. CASE UNCHANGED vars
    BY <2>7 DEF vars
  <2>. QED BY <2>1, <2>2, <2>3, <2>4, <2>5, <2>6, <2>7 DEF Next, Linux, Firmware
<1>. QED BY <1>1, <1>2, TypeCorrect, PTL DEF Spec

(***************************************************************************)
(* Owners.                                                                 *)
(***************************************************************************)
LEMMA Shape ==
    ASSUME TypeOK
    PROVE  /\ Lent \in Seq(Desc) /\ Len(Lent) = Dist(tail, availIdx) /\ Len(Lent) \in Nat
           /\ Back \in Seq(Desc) /\ Len(Back) = Dist(seen, usedIdx) /\ Len(Back) \in Nat
           /\ DOMAIN Lent = 1 .. Len(Lent) /\ DOMAIN Back = 1 .. Len(Back)
           /\ IsFiniteSet(free) /\ Cardinality(free) \in Nat
           /\ free # {} => Cardinality(free) > 0
<1>0. /\ avail \in [Desc -> Desc] /\ used \in [Desc -> Desc]
      /\ availIdx \in Index /\ tail \in Index /\ usedIdx \in Index /\ seen \in Index
  BY DEF TypeOK
<1>1. Lent \in Seq(Desc) /\ Len(Lent) = Dist(tail, availIdx) /\ DOMAIN Lent = 1 .. Dist(tail, availIdx)
  BY <1>0, BetweenType DEF Lent
<1>2. Back \in Seq(Desc) /\ Len(Back) = Dist(seen, usedIdx) /\ DOMAIN Back = 1 .. Dist(seen, usedIdx)
  BY <1>0, BetweenType DEF Back
<1>3. Len(Lent) \in Nat /\ Len(Back) \in Nat
  BY <1>1, <1>2
<1>4. IsFiniteSet(Desc)
  BY Sizes, FS_Interval DEF Desc
<1>5. IsFiniteSet(free)
  BY <1>4, FS_Subset DEF TypeOK
<1>6. Cardinality(free) \in Nat
  BY <1>5, FS_CardinalityType
<1>7. free # {} => Cardinality(free) > 0
  <2>1. Cardinality(free) = 0 => free = {}
    BY <1>5, FS_EmptySet
  <2>. QED BY <2>1, <1>6
<1>. QED BY <1>1, <1>2, <1>3, <1>5, <1>6, <1>7

\* There is room in the ring for every buffer that can still be passed on.
LEMMA Room ==
    ASSUME Inv
    PROVE  /\ free # {} \/ linux.pc = "put" => Dist(tail, availIdx) < N
           /\ bm.pc \in {"held", "pub"} => Dist(seen, usedIdx) < N
<1>1. /\ Len(Lent) = Dist(tail, availIdx) /\ Len(Lent) \in Nat
      /\ Len(Back) = Dist(seen, usedIdx) /\ Len(Back) \in Nat
      /\ Cardinality(free) \in Nat /\ (free # {} => Cardinality(free) > 0)
  BY Shape DEF Inv
<1>. QED BY <1>1, Sizes DEF Inv, Owned, Counted, One

LEMMA OwnedInit == Init => Owned
<1> SUFFICES ASSUME Init PROVE Owned
  OBVIOUS
<1>1. TypeOK /\ Dist(0, 0) = 0
  BY TypeInit, DistIs, Sizes DEF Index
<1>2. Len(Lent) = 0 /\ Len(Back) = 0 /\ DOMAIN Lent = {} /\ DOMAIN Back = {}
  BY <1>1, Shape DEF Init
<1>3. Putting = {} /\ Holding = {}
  BY DEF Init, Putting, Holding, LinuxIdle, BmIdle
<1>4. Apart /\ Covered
  BY <1>2, <1>3 DEF Apart, Covered, Once, Members, Init
<1>5. Cardinality(free) = N
  BY FS_Interval, Sizes DEF Init, Desc
<1>6. Counted
  BY <1>2, <1>5, Sizes DEF Counted, One, Init, LinuxIdle, BmIdle
<1>7. Announced
  BY DEF Announced, Init, LinuxIdle, BmIdle
<1>. QED BY <1>4, <1>6, <1>7 DEF Owned

LEMMA AppendMembers ==
    ASSUME NEW s \in Seq(Desc), NEW e \in Desc
    PROVE  /\ Members(Append(s, e)) = Members(s) \cup {e}
           /\ Once(s) /\ e \notin Members(s) => Once(Append(s, e))
<1> DEFINE t == Append(s, e)
<1>1. /\ Len(s) \in Nat /\ DOMAIN s = 1 .. Len(s)
      /\ DOMAIN t = 1 .. Len(s) + 1 /\ t[Len(s) + 1] = e
      /\ \A k \in 1 .. Len(s) : t[k] = s[k]
  OBVIOUS
<1> HIDE DEF t
<1>2. Members(t) = Members(s) \cup {e}
  <2>1. \A k \in DOMAIN t : k \in DOMAIN s \/ k = Len(s) + 1
    BY <1>1
  <2>2. DOMAIN s \subseteq DOMAIN t /\ Len(s) + 1 \in DOMAIN t
    BY <1>1
  <2>. QED BY <1>1, <2>1, <2>2 DEF Members
<1>3. Once(s) /\ e \notin Members(s) => Once(t)
  BY <1>1 DEF Once, Members
<1>. QED BY <1>2, <1>3 DEF t

LEMMA TailMembers ==
    ASSUME NEW s \in Seq(Desc), s # <<>>
    PROVE  /\ Head(s) \in Members(s)
           /\ Once(s) => Once(Tail(s)) /\ Members(Tail(s)) = Members(s) \ {Head(s)}
<1> DEFINE t == Tail(s)
<1>1. /\ Len(s) \in Nat \ {0} /\ DOMAIN s = 1 .. Len(s) /\ Head(s) = s[1]
      /\ DOMAIN t = 1 .. Len(s) - 1
      /\ \A k \in 1 .. Len(s) - 1 : t[k] = s[k + 1]
  OBVIOUS
<1> HIDE DEF t
<1>2. Head(s) \in Members(s)
  BY <1>1 DEF Members
<1>3. ASSUME Once(s) PROVE Once(t)
  BY <1>1, <1>3 DEF Once
<1>4. ASSUME Once(s) PROVE Members(t) = Members(s) \ {Head(s)}
  <2>1. ASSUME NEW x \in Members(t) PROVE x \in Members(s) /\ x # Head(s)
    <3>1. PICK k \in 1 .. Len(s) - 1 : x = s[k + 1]
      BY <1>1, <2>1 DEF Members
    <3>2. k + 1 \in DOMAIN s /\ 1 \in DOMAIN s /\ k + 1 # 1
      BY <1>1
    <3>. QED BY <1>1, <1>4, <3>1, <3>2 DEF Members, Once
  <2>2. ASSUME NEW x \in Members(s), x # Head(s) PROVE x \in Members(t)
    <3>1. PICK k \in 1 .. Len(s) : x = s[k]
      BY <1>1 DEF Members
    <3>2. k - 1 \in 1 .. Len(s) - 1 /\ (k - 1) + 1 = k
      BY <1>1, <2>2, <3>1
    <3>. QED BY <1>1, <3>1, <3>2 DEF Members
  <2>. QED BY <2>1, <2>2
<1>. QED BY <1>2, <1>3, <1>4 DEF t

\* Linux takes one of its buffers and writes it to the slot it will announce.
LEMMA PutSlotOwned ==
    ASSUME Inv, PutSlot, TypeOK'
    PROVE  Owned' /\ Lent' = Lent /\ Back' = Back
<1>1. PICK d \in free : /\ avail' = [avail EXCEPT ![Slot(availIdx)] = d]
                        /\ free' = free \ {d}
                        /\ linux' = [pc |-> "put", d |-> d]
  BY DEF PutSlot
<1>2. d \in Desc /\ linux.pc = "idle"
  BY DEF Inv, TypeOK, PutSlot
<1>3. Lent' = Lent
  <2>1. Dist(tail, availIdx) < N
    BY Room
  <2>2. avail \in [Desc -> Desc] /\ tail \in Index /\ availIdx \in Index
    BY DEF Inv, TypeOK
  <2>3. Between([avail EXCEPT ![Slot(availIdx)] = d], tail, availIdx) = Lent
    BY <1>2, <2>1, <2>2, BetweenKept DEF Lent
  <2>. QED BY <1>1, <2>3 DEF PutSlot, Lent
<1>4. Back' = Back /\ Holding' = Holding
  BY DEF PutSlot, Back, Between, Dist, Holding
<1>5. Putting = {} /\ Putting' = {d}
  BY <1>1, <1>2 DEF Putting
<1>6. Apart'
  BY <1>1, <1>3, <1>4, <1>5 DEF Inv, Owned, Apart, Once
<1>7. Covered'
  BY <1>1, <1>3, <1>4, <1>5 DEF Inv, Owned, Covered, PutSlot
<1>8. Counted'
  <2>1. IsFiniteSet(free) /\ Cardinality(free) \in Nat /\ Len(Lent) \in Nat /\ Len(Back) \in Nat
    BY Shape DEF Inv
  <2>2. Cardinality(free') = Cardinality(free) - 1
    BY <1>1, <2>1, FS_RemoveElement
  <2>. QED BY <1>1, <1>2, <1>3, <1>4, <2>1, <2>2 DEF Inv, Owned, Counted, One, PutSlot
<1>9. Announced'
  <2>1. Slot(availIdx) \in Desc
    BY SlotType, Sizes DEF Inv, TypeOK, Index
  <2>2. avail'[Slot(availIdx)] = d
    BY <1>1, <2>1 DEF Inv, TypeOK
  <2>. QED BY <1>1, <2>2 DEF Inv, Owned, Announced, PutSlot
<1>. QED BY <1>3, <1>4, <1>6, <1>7, <1>8, <1>9 DEF Owned

\* Linux announces it: the buffer is the last one lent.
LEMMA PutIdxOwned ==
    ASSUME Inv, PutIdx, TypeOK'
    PROVE  Owned' /\ Lent' = Append(Lent, linux.d)
<1>1. linux.pc = "put" /\ linux.d \in Desc /\ linux'.pc = "idle"
  BY DEF Inv, TypeOK, PutIdx, LinuxIdle
<1>2. Lent' = Append(Lent, linux.d)
  <2>1. Dist(tail, availIdx) < N
    BY <1>1, Room
  <2>2. avail \in [Desc -> Desc] /\ tail \in Index /\ availIdx \in Index
    BY DEF Inv, TypeOK
  <2>3. Between(avail, tail, After(availIdx)) = Append(Lent, avail[Slot(availIdx)])
    BY <2>1, <2>2, BetweenGrows DEF Lent
  <2>4. avail[Slot(availIdx)] = linux.d
    BY <1>1 DEF Inv, Owned, Announced
  <2>. QED BY <2>3, <2>4 DEF PutIdx, Lent
<1>3. Back' = Back /\ Holding' = Holding /\ free' = free
  BY DEF PutIdx, Back, Between, Dist, Holding
<1>4. Putting = {linux.d} /\ Putting' = {}
  BY <1>1 DEF Putting
<1>5. Lent \in Seq(Desc) /\ Len(Lent) \in Nat /\ Len(Back) \in Nat /\ Cardinality(free) \in Nat
  BY Shape DEF Inv
<1>6. linux.d \notin Members(Lent)
  BY <1>4 DEF Inv, Owned, Apart
<1>7. Members(Lent') = Members(Lent) \cup {linux.d} /\ Once(Lent')
  BY <1>1, <1>2, <1>5, <1>6, AppendMembers DEF Inv, Owned, Apart
<1>8. Apart'
  <2>1. Members(Back') = Members(Back) /\ Once(Back')
    BY <1>3 DEF Inv, Owned, Apart
  <2>. QED BY <1>3, <1>4, <1>7, <2>1 DEF Inv, Owned, Apart
<1>9. Covered'
  BY <1>3, <1>4, <1>7 DEF Inv, Owned, Covered
<1>10. Counted'
  <2>1. Len(Lent') = Len(Lent) + 1
    BY <1>1, <1>2, <1>5
  <2>2. One(linux.pc = "put") = 1 /\ One(linux'.pc = "put") = 0
    BY <1>1 DEF One
  <2>3. bm' = bm /\ One(bm.pc \in {"held", "pub"}) \in Nat
    BY DEF One, PutIdx
  <2>. QED BY <1>3, <1>5, <2>1, <2>2, <2>3 DEF Inv, Owned, Counted
<1>11. Announced'
  <2>1. bm.pc = "get" => availIdx' # tail'
    <3>1. Len(Lent') = Len(Lent) + 1
      BY <1>1, <1>2, <1>5
    <3>2. /\ tail' \in Index /\ availIdx' \in Index /\ avail' \in [Desc -> Desc]
          /\ Len(Lent') = Dist(tail', availIdx')
      <4>1. tail' \in Index /\ availIdx' \in Index /\ avail' \in [Desc -> Desc]
        BY DEF TypeOK
      <4>. QED BY <4>1, BetweenType DEF Lent
    <3>3. availIdx' = tail' => Dist(tail', availIdx') = 0
      BY <3>2, DistIs, Sizes DEF Index
    <3>. QED BY <3>1, <3>2, <3>3, <1>5
  <2>. QED BY <1>1, <2>1 DEF Inv, Owned, Announced, PutIdx
<1>. QED BY <1>2, <1>8, <1>9, <1>10, <1>11 DEF Owned

\* Linux takes the first buffer it has not seen out of the used ring.
LEMMA CollectOwned ==
    ASSUME Inv, Collect, TypeOK'
    PROVE  Owned' /\ Back # <<>> /\ Back' = Tail(Back) /\ free' = free \cup {Head(Back)}
<1>1. used \in [Desc -> Desc] /\ seen \in Index /\ usedIdx \in Index
  BY DEF Inv, TypeOK
<1>2. /\ Back # <<>> /\ Head(Back) = used[Slot(seen)]
      /\ Between(used, After(seen), usedIdx) = Tail(Back)
  BY <1>1, BetweenShrinks DEF Collect, Back
<1>3. Back' = Tail(Back) /\ free' = free \cup {Head(Back)}
  BY <1>2 DEF Collect, Back
<1>4. Lent' = Lent /\ Holding' = Holding /\ Putting' = Putting
  BY DEF Collect, Lent, Between, Dist, Holding, Putting
<1>5. /\ Back \in Seq(Desc) /\ Len(Lent) \in Nat /\ Len(Back) \in Nat
      /\ IsFiniteSet(free) /\ Cardinality(free) \in Nat
  BY Shape DEF Inv
<1>6. /\ Head(Back) \in Members(Back) /\ Once(Back')
      /\ Members(Back') = Members(Back) \ {Head(Back)}
  BY <1>2, <1>3, <1>5, TailMembers DEF Inv, Owned, Apart
<1>7. Apart'
  <2>1. Members(Lent') = Members(Lent) /\ Once(Lent')
    BY <1>4 DEF Inv, Owned, Apart
  <2>. QED BY <1>3, <1>4, <1>6, <2>1 DEF Inv, Owned, Apart
<1>8. Covered'
  BY <1>3, <1>4, <1>6 DEF Inv, Owned, Covered
<1>9. Counted'
  <2>1. Len(Back') = Len(Back) - 1
    BY <1>2, <1>3, <1>5
  <2>2. Head(Back) \notin free
    BY <1>6 DEF Inv, Owned, Apart
  <2>3. Cardinality(free') = Cardinality(free) + 1
    BY <1>3, <1>5, <2>2, FS_AddElement
  <2>4. /\ linux' = linux /\ One(linux.pc = "put") \in Nat
        /\ bm' = bm /\ One(bm.pc \in {"held", "pub"}) \in Nat
    BY DEF One, Collect
  <2>. QED BY <1>4, <1>5, <2>1, <2>3, <2>4 DEF Inv, Owned, Counted
<1>10. Announced'
  BY DEF Inv, Owned, Announced, Collect
<1>. QED BY <1>2, <1>3, <1>7, <1>8, <1>9, <1>10 DEF Owned

\* vring_get_buf takes the first buffer that was lent.
LEMMA GetSlotOwned ==
    ASSUME Inv, GetSlot, TypeOK'
    PROVE  /\ Owned' /\ Lent # <<>> /\ Lent' = Tail(Lent)
           /\ Holding' = {Head(Lent)} /\ bm' = [pc |-> "held", d |-> Head(Lent)]
<1>1. /\ avail \in [Desc -> Desc] /\ tail \in Index /\ availIdx \in Index
      /\ bm.pc = "get" /\ tail # availIdx
  BY DEF Inv, TypeOK, GetSlot, Owned, Announced
<1>2. /\ Lent # <<>> /\ Head(Lent) = avail[Slot(tail)]
      /\ Between(avail, After(tail), availIdx) = Tail(Lent)
  BY <1>1, BetweenShrinks DEF Lent
<1>3. Lent' = Tail(Lent) /\ bm' = [pc |-> "held", d |-> Head(Lent)]
  BY <1>2 DEF GetSlot, Lent, Entry
<1>4. Back' = Back /\ Putting' = Putting /\ free' = free
  BY DEF GetSlot, Back, Between, Dist, Putting
<1>5. Holding = {} /\ Holding' = {Head(Lent)}
  BY <1>1, <1>3 DEF Holding
<1>6. Lent \in Seq(Desc) /\ Len(Lent) \in Nat /\ Len(Back) \in Nat /\ Cardinality(free) \in Nat
  BY Shape DEF Inv
<1>7. /\ Head(Lent) \in Members(Lent) /\ Once(Lent')
      /\ Members(Lent') = Members(Lent) \ {Head(Lent)}
  BY <1>2, <1>3, <1>6, TailMembers DEF Inv, Owned, Apart
<1>8. Apart'
  <2>1. Members(Back') = Members(Back) /\ Once(Back')
    BY <1>4 DEF Inv, Owned, Apart
  <2>. QED BY <1>4, <1>5, <1>7, <2>1 DEF Inv, Owned, Apart
<1>9. Covered'
  BY <1>4, <1>5, <1>7 DEF Inv, Owned, Covered
<1>10. Counted'
  <2>1. Len(Lent') = Len(Lent) - 1
    BY <1>2, <1>3, <1>6
  <2>2. One(bm.pc \in {"held", "pub"}) = 0 /\ One(bm'.pc \in {"held", "pub"}) = 1
    BY <1>1, <1>3 DEF One
  <2>3. linux' = linux /\ One(linux.pc = "put") \in Nat
    BY DEF One, GetSlot
  <2>. QED BY <1>4, <1>6, <2>1, <2>2, <2>3 DEF Inv, Owned, Counted
<1>11. Announced'
  BY <1>3 DEF Inv, Owned, Announced, GetSlot
<1>. QED BY <1>2, <1>3, <1>5, <1>8, <1>9, <1>10, <1>11 DEF Owned

\* vring_publish_buf writes the slot it will announce.
LEMMA PubSlotOwned ==
    ASSUME Inv, PubSlot, TypeOK'
    PROVE  Owned' /\ Back' = Back /\ Holding' = Holding
<1>1. /\ used \in [Desc -> Desc] /\ seen \in Index /\ usedIdx \in Index
      /\ bm.pc = "held" /\ bm.d \in Desc /\ bm' = [bm EXCEPT !.pc = "pub"]
      /\ bm \in [pc : {"idle", "get", "held", "pub", "kick"}, d : Desc]
  BY DEF Inv, TypeOK, PubSlot
<1>2. bm'.pc = "pub" /\ bm'.d = bm.d
  BY <1>1
<1>3. Back' = Back
  <2>1. Dist(seen, usedIdx) < N
    BY <1>1, Room
  <2>2. Between([used EXCEPT ![Slot(usedIdx)] = bm.d], seen, usedIdx) = Back
    BY <1>1, <2>1, BetweenKept DEF Back
  <2>. QED BY <2>2 DEF PubSlot, PubEntry, Back
<1>4. Lent' = Lent /\ Putting' = Putting /\ free' = free
  BY DEF PubSlot, Lent, Between, Dist, Putting
<1>5. Holding' = Holding
  BY <1>1, <1>2 DEF Holding
<1>6. Apart' /\ Covered'
  BY <1>3, <1>4, <1>5 DEF Inv, Owned, Apart, Covered
<1>7. Counted'
  <2>1. One(bm.pc \in {"held", "pub"}) = 1 /\ One(bm'.pc \in {"held", "pub"}) = 1
    BY <1>1, <1>2 DEF One
  <2>2. linux' = linux
    BY DEF PubSlot
  <2>. QED BY <1>3, <1>4, <2>1, <2>2 DEF Inv, Owned, Counted
<1>8. Announced'
  <2>1. Slot(usedIdx) \in Desc
    BY <1>1, SlotType, Sizes DEF Index
  <2>2. used'[Slot(usedIdx)] = bm.d
    BY <1>1, <2>1 DEF PubSlot, PubEntry
  <2>. QED BY <1>2, <2>2 DEF Inv, Owned, Announced, PubSlot
<1>. QED BY <1>3, <1>5, <1>6, <1>7, <1>8 DEF Owned

\* It announces it: the buffer is the last one passed back.
LEMMA PubIdxOwned ==
    ASSUME Inv, PubIdx, TypeOK'
    PROVE  /\ Owned' /\ Back' = Append(Back, bm.d)
           /\ Holding = {bm.d} /\ Holding' = {}
<1>1. /\ used \in [Desc -> Desc] /\ seen \in Index /\ usedIdx \in Index
      /\ bm.pc = "pub" /\ bm.d \in Desc
      /\ bm \in [pc : {"idle", "get", "held", "pub", "kick"}, d : Desc]
  BY DEF Inv, TypeOK, PubIdx
<1>2. bm'.pc \in {"idle", "kick"}
  BY <1>1 DEF PubIdx, Published, BmIdle
<1>3. Back' = Append(Back, bm.d)
  <2>1. Dist(seen, usedIdx) < N
    BY <1>1, Room
  <2>2. Between(used, seen, After(usedIdx)) = Append(Back, used[Slot(usedIdx)])
    BY <1>1, <2>1, BetweenGrows DEF Back
  <2>3. used[Slot(usedIdx)] = bm.d
    BY <1>1 DEF Inv, Owned, Announced
  <2>. QED BY <2>2, <2>3 DEF PubIdx, Back
<1>4. Lent' = Lent /\ Putting' = Putting /\ free' = free
  BY DEF PubIdx, Lent, Between, Dist, Putting
<1>5. Holding = {bm.d} /\ Holding' = {}
  BY <1>1, <1>2 DEF Holding
<1>6. Back \in Seq(Desc) /\ Len(Lent) \in Nat /\ Len(Back) \in Nat /\ Cardinality(free) \in Nat
  BY Shape DEF Inv
<1>7. bm.d \notin Members(Back)
  BY <1>5 DEF Inv, Owned, Apart
<1>8. Members(Back') = Members(Back) \cup {bm.d} /\ Once(Back')
  BY <1>1, <1>3, <1>6, <1>7, AppendMembers DEF Inv, Owned, Apart
<1>9. Apart'
  <2>1. Members(Lent') = Members(Lent) /\ Once(Lent')
    BY <1>4 DEF Inv, Owned, Apart
  <2>. QED BY <1>4, <1>5, <1>8, <2>1 DEF Inv, Owned, Apart
<1>10. Covered'
  BY <1>4, <1>5, <1>8 DEF Inv, Owned, Covered
<1>11. Counted'
  <2>1. Len(Back') = Len(Back) + 1
    BY <1>1, <1>3, <1>6
  <2>2. One(bm.pc \in {"held", "pub"}) = 1 /\ One(bm'.pc \in {"held", "pub"}) = 0
    BY <1>1, <1>2 DEF One
  <2>3. linux' = linux /\ One(linux.pc = "put") \in Nat
    BY DEF One, PubIdx
  <2>. QED BY <1>4, <1>6, <2>1, <2>2, <2>3 DEF Inv, Owned, Counted
<1>12. Announced'
  BY <1>2 DEF Inv, Owned, Announced, PubIdx
<1>. QED BY <1>3, <1>5, <1>9, <1>10, <1>11, <1>12 DEF Owned

\* The other steps move no buffer.
Quiet == /\ UNCHANGED <<avail, availIdx, tail, used, usedIdx, seen, free, linux>>
         /\ (bm'.pc \in {"held", "pub"}) = (bm.pc \in {"held", "pub"})
         /\ bm.pc \in {"held", "pub"} => bm' = bm

LEMMA QuietKeeps ==
    ASSUME Quiet
    PROVE  /\ Lent' = Lent /\ Back' = Back /\ Putting' = Putting /\ Holding' = Holding
           /\ (Apart => Apart') /\ (Covered => Covered') /\ (Counted => Counted')
<1>1. Lent' = Lent /\ Back' = Back /\ Putting' = Putting /\ Holding' = Holding
  BY DEF Quiet, Lent, Back, Between, Dist, Putting, Holding
<1>2. (Apart => Apart') /\ (Covered => Covered')
  BY <1>1 DEF Quiet, Apart, Covered
<1>3. Counted => Counted'
  BY <1>1 DEF Quiet, Counted, One
<1>. QED BY <1>1, <1>2, <1>3

LEMMA OtherStepsQuiet ==
    ASSUME Inv, Rest \/ Interrupt \/ GetIdx \/ Fill \/ Notify \/ UNCHANGED vars
    PROVE  Quiet /\ Announced'
<1>1. CASE Rest
  BY <1>1 DEF Quiet, Rest, Inv, Owned, Announced
<1>2. CASE Interrupt
  BY <1>2 DEF Quiet, Interrupt, Inv, Owned, Announced
<1>3. CASE GetIdx
  BY <1>3 DEF Quiet, GetIdx, vring_available, Inv, Owned, Announced
<1>4. CASE Fill
  BY <1>4 DEF Quiet, Fill, Inv, Owned, Announced
<1>5. CASE Notify
  BY <1>5 DEF Quiet, Notify, BmIdle, Inv, Owned, Announced
<1>6. CASE UNCHANGED vars
  BY <1>6 DEF Quiet, vars, Inv, Owned, Announced
<1>. QED BY <1>1, <1>2, <1>3, <1>4, <1>5, <1>6

LEMMA InvStep == Inv /\ [Next]_vars => Inv'
<1> SUFFICES ASSUME Inv, [Next]_vars PROVE Inv'
  OBVIOUS
<1>1. TypeOK'
  BY TypeStep DEF Inv
<1>2. CASE PutSlot
  BY <1>1, <1>2, PutSlotOwned DEF Inv
<1>3. CASE PutIdx
  BY <1>1, <1>3, PutIdxOwned DEF Inv
<1>4. CASE Collect
  BY <1>1, <1>4, CollectOwned DEF Inv
<1>5. CASE GetSlot
  BY <1>1, <1>5, GetSlotOwned DEF Inv
<1>6. CASE PubSlot
  BY <1>1, <1>6, PubSlotOwned DEF Inv
<1>7. CASE PubIdx
  BY <1>1, <1>7, PubIdxOwned DEF Inv
<1>8. CASE Rest \/ Interrupt \/ GetIdx \/ Fill \/ Notify \/ UNCHANGED vars
  BY <1>1, <1>8, OtherStepsQuiet, QuietKeeps DEF Inv, Owned
<1>. QED BY <1>2, <1>3, <1>4, <1>5, <1>6, <1>7, <1>8 DEF Next, Linux, Firmware

LEMMA InvHolds == Spec => []Inv
<1>1. Init => Inv
  BY TypeInit, OwnedInit DEF Inv
<1>. QED BY <1>1, InvStep, PTL DEF Spec

\* Every buffer has exactly one owner, whatever the size of the ring and wherever
\* the 16 bit indices of virtio_ring.c wrap around: it is Linux's, or on its way in
\* the avail ring, or the firmware's, or on its way back in the used ring.
THEOREM OneOwnerHolds == Spec => []OneOwner
<1>1. ASSUME Inv PROVE OneOwner
  <2> SUFFICES ASSUME NEW d \in Desc
               PROVE  LET places == {<<"free", 0>> : x \in free \cap {d}}
                                \cup {<<"put", 0>> : x \in Putting \cap {d}}
                                \cup {<<"held", 0>> : x \in Holding \cap {d}}
                                \cup {<<"lent", k>> : k \in {j \in DOMAIN Lent : Lent[j] = d}}
                                \cup {<<"back", k>> : k \in {j \in DOMAIN Back : Back[j] = d}}
                      IN  \E p \in places : places = {p}
    BY DEF OneOwner
  <2> DEFINE A == {<<"free", 0>> : x \in free \cap {d}}
             B == {<<"put", 0>> : x \in Putting \cap {d}}
             C == {<<"held", 0>> : x \in Holding \cap {d}}
             D == {<<"lent", k>> : k \in {j \in DOMAIN Lent : Lent[j] = d}}
             E == {<<"back", k>> : k \in {j \in DOMAIN Back : Back[j] = d}}
             places == A \cup B \cup C \cup D \cup E
  <2>1. /\ d \in free => A = {<<"free", 0>>}
        /\ d \notin free => A = {}
    OBVIOUS
  <2>2. /\ d \in Putting => B = {<<"put", 0>>}
        /\ d \notin Putting => B = {}
    OBVIOUS
  <2>3. /\ d \in Holding => C = {<<"held", 0>>}
        /\ d \notin Holding => C = {}
    OBVIOUS
  <2>4. /\ d \in Members(Lent) => \E k : D = {<<"lent", k>>}
        /\ d \notin Members(Lent) => D = {}
    <3>1. ASSUME d \in Members(Lent) PROVE \E k : D = {<<"lent", k>>}
      <4>1. PICK k \in DOMAIN Lent : Lent[k] = d
        BY <3>1 DEF Members
      <4>2. {j \in DOMAIN Lent : Lent[j] = d} = {k}
        BY <1>1, <4>1 DEF Inv, Owned, Apart, Once
      <4>. QED BY <4>2
    <3>2. ASSUME d \notin Members(Lent) PROVE D = {}
      BY <3>2 DEF Members
    <3>. QED BY <3>1, <3>2
  <2>5. /\ d \in Members(Back) => \E k : E = {<<"back", k>>}
        /\ d \notin Members(Back) => E = {}
    <3>1. ASSUME d \in Members(Back) PROVE \E k : E = {<<"back", k>>}
      <4>1. PICK k \in DOMAIN Back : Back[k] = d
        BY <3>1 DEF Members
      <4>2. {j \in DOMAIN Back : Back[j] = d} = {k}
        BY <1>1, <4>1 DEF Inv, Owned, Apart, Once
      <4>. QED BY <4>2
    <3>2. ASSUME d \notin Members(Back) PROVE E = {}
      BY <3>2 DEF Members
    <3>. QED BY <3>1, <3>2
  <2>6. /\ d \in free \cup Putting \cup Holding \cup Members(Lent) \cup Members(Back)
        /\ d \in free => d \notin Putting \cup Holding \cup Members(Lent) \cup Members(Back)
        /\ d \in Putting => d \notin Holding \cup Members(Lent) \cup Members(Back)
        /\ d \in Holding => d \notin Members(Lent) \cup Members(Back)
        /\ d \in Members(Lent) => d \notin Members(Back)
    BY <1>1 DEF Inv, Owned, Apart, Covered
  <2> HIDE DEF A, B, C, D, E
  <2>7. \E p : places = {p}
    BY <2>1, <2>2, <2>3, <2>4, <2>5, <2>6
  <2>8. \E p \in places : places = {p}
    BY <2>7
  <2>. QED BY <2>8 DEF A, B, C, D, E
<1>. QED BY <1>1, InvHolds, PTL

(***************************************************************************)
(* The virtqueue implements the loan of buffers.  Data(b, s) is WithData(s) *)
(* with the contents b of the buffers made explicit.                        *)
(***************************************************************************)
Data(b, s) == [k \in DOMAIN s |-> [buf |-> s[k], data |-> b[s[k]]]]

LEMMA DataType ==
    ASSUME NEW b \in [Desc -> Contents], NEW s \in Seq(Desc)
    PROVE  /\ Data(b, s) \in Seq([buf : Desc, data : Contents])
           /\ Len(Data(b, s)) = Len(s)
           /\ \A k \in 1 .. Len(s) : Data(b, s)[k] = [buf |-> s[k], data |-> b[s[k]]]
<1>1. Len(s) \in Nat /\ DOMAIN s = 1 .. Len(s) /\ \A k \in 1 .. Len(s) : s[k] \in Desc
  OBVIOUS
<1>2. \A k \in 1 .. Len(s) : [buf |-> s[k], data |-> b[s[k]]] \in [buf : Desc, data : Contents]
  BY <1>1
<1>3. Data(b, s) \in [1 .. Len(s) -> [buf : Desc, data : Contents]]
  BY <1>1, <1>2 DEF Data
<1>. QED BY <1>1, <1>3 DEF Data

LEMMA DataAppend ==
    ASSUME NEW b \in [Desc -> Contents], NEW s \in Seq(Desc), NEW d \in Desc
    PROVE  Data(b, Append(s, d)) = Append(Data(b, s), [buf |-> d, data |-> b[d]])
<1> DEFINE t == Append(s, d)
           e == [buf |-> d, data |-> b[d]]
           u == Data(b, s)
           v == Data(b, t)
<1>1. /\ t \in Seq(Desc) /\ Len(s) \in Nat /\ Len(t) = Len(s) + 1
      /\ t[Len(s) + 1] = d /\ \A k \in 1 .. Len(s) : t[k] = s[k]
  OBVIOUS
<1>2. /\ u \in Seq([buf : Desc, data : Contents]) /\ Len(u) = Len(s)
      /\ \A k \in 1 .. Len(s) : u[k] = [buf |-> s[k], data |-> b[s[k]]]
  BY DataType
<1>3. /\ v \in Seq([buf : Desc, data : Contents]) /\ Len(v) = Len(t)
      /\ \A k \in 1 .. Len(t) : v[k] = [buf |-> t[k], data |-> b[t[k]]]
  BY <1>1, DataType
<1>4. e \in [buf : Desc, data : Contents] /\ v[Len(s) + 1] = e
  BY <1>1, <1>3
<1>5. \A k \in 1 .. Len(s) : v[k] = u[k]
  BY <1>1, <1>2, <1>3
<1> HIDE DEF t, e, u, v
<1>6. v = Append(u, e)
  BY <1>1, <1>2, <1>3, <1>4, <1>5
<1>. QED BY <1>6 DEF t, e, u, v

LEMMA DataTail ==
    ASSUME NEW b \in [Desc -> Contents], NEW s \in Seq(Desc), s # <<>>
    PROVE  /\ Data(b, s) # <<>>
           /\ Head(Data(b, s)) = [buf |-> Head(s), data |-> b[Head(s)]]
           /\ Data(b, Tail(s)) = Tail(Data(b, s))
<1> DEFINE t == Tail(s)
           u == Data(b, s)
           v == Data(b, t)
<1>1. /\ t \in Seq(Desc) /\ Len(s) \in Nat \ {0} /\ Len(t) = Len(s) - 1 /\ Head(s) = s[1]
      /\ \A k \in 1 .. Len(t) : t[k] = s[k + 1]
  OBVIOUS
<1>2. /\ u \in Seq([buf : Desc, data : Contents]) /\ Len(u) = Len(s)
      /\ \A k \in 1 .. Len(s) : u[k] = [buf |-> s[k], data |-> b[s[k]]]
  BY DataType
<1>3. /\ v \in Seq([buf : Desc, data : Contents]) /\ Len(v) = Len(t)
      /\ \A k \in 1 .. Len(t) : v[k] = [buf |-> t[k], data |-> b[t[k]]]
  BY <1>1, DataType
<1>4. u[1] = [buf |-> Head(s), data |-> b[Head(s)]]
  BY <1>1, <1>2
<1>5. \A k \in 1 .. Len(t) : v[k] = u[k + 1]
  <2> TAKE k \in 1 .. Len(t)
  <2>1. k + 1 \in 1 .. Len(s) /\ t[k] = s[k + 1]
    BY <1>1
  <2>. QED BY <1>2, <1>3, <2>1
<1> HIDE DEF t, u, v
<1>6. u # <<>> /\ Head(u) = u[1] /\ v = Tail(u)
  BY <1>1, <1>2, <1>3, <1>5
<1>. QED BY <1>4, <1>6 DEF t, u, v

\* What is written into a buffer does not change the others.
LEMMA DataKept ==
    ASSUME NEW b \in [Desc -> Contents], NEW s \in Seq(Desc), NEW d \in Desc, NEW m \in Contents,
           d \notin Members(s)
    PROVE  Data([b EXCEPT ![d] = m], s) = Data(b, s)
<1>1. \A k \in DOMAIN s : s[k] \in Desc /\ s[k] # d
  BY DEF Members
<1>2. \A k \in DOMAIN s : [b EXCEPT ![d] = m][s[k]] = b[s[k]]
  BY <1>1
<1>. QED BY <1>2 DEF Data

\* The values that the refinement mapping gives to the variables of BufferLoan.
LEMMA Mapped ==
    /\ WithData(Sent) = Data(buf, Sent) /\ WithData(Sent)' = Data(buf', Sent')
    /\ WithData(Back) = Data(buf, Back) /\ WithData(Back)' = Data(buf', Back')
BY DEF WithData, Data

LEMMA LoanInit == Init => Loan!Init
<1> SUFFICES ASSUME Init PROVE Loan!Init
  OBVIOUS
<1>1. TypeOK /\ Dist(0, 0) = 0
  BY TypeInit, DistIs, Sizes DEF Index
<1>2. Lent \in Seq(Desc) /\ Back \in Seq(Desc) /\ Len(Lent) = 0 /\ Len(Back) = 0
  BY <1>1, Shape DEF Init
<1>3. Sent = Lent /\ Held = Nobody
  BY DEF Init, Sent, Held, Holding, LinuxIdle, BmIdle
<1>4. /\ Data(buf, Lent) \in Seq([buf : Desc, data : Contents]) /\ Len(Data(buf, Lent)) = 0
      /\ Data(buf, Back) \in Seq([buf : Desc, data : Contents]) /\ Len(Data(buf, Back)) = 0
  BY <1>1, <1>2, DataType DEF TypeOK
<1>5. Data(buf, Lent) = <<>> /\ Data(buf, Back) = <<>>
  BY <1>4
<1>. QED BY <1>3, <1>5, Mapped DEF Init, Loan!Init

LEMMA PutSlotLends ==
    ASSUME Inv, Inv', PutSlot
    PROVE  Loan!Next
<1>1. PICK d \in free, m \in Contents : /\ buf' = [buf EXCEPT ![d] = m]
                                        /\ free' = free \ {d}
                                        /\ linux' = [pc |-> "put", d |-> d]
  BY DEF PutSlot
<1>2. Lent' = Lent /\ Back' = Back
  BY PutSlotOwned DEF Inv
<1>3. d \in Desc /\ buf \in [Desc -> Contents] /\ linux.pc = "idle"
  BY DEF Inv, TypeOK, PutSlot
<1>4. Lent \in Seq(Desc) /\ Back \in Seq(Desc)
  BY Shape DEF Inv
<1>5. d \notin Members(Lent) /\ d \notin Members(Back) /\ d \notin Holding
  BY DEF Inv, Owned, Apart
<1>6. buf' \in [Desc -> Contents] /\ buf'[d] = m
  BY <1>1, <1>3
<1>7. WithData(Sent)' = Append(WithData(Sent), [buf |-> d, data |-> m])
  <2>1. Sent = Lent /\ Sent' = Append(Lent, d)
    BY <1>1, <1>2, <1>3 DEF Sent
  <2>2. Data(buf', Append(Lent, d)) = Append(Data(buf', Lent), [buf |-> d, data |-> m])
    BY <1>3, <1>4, <1>6, DataAppend
  <2>3. Data(buf', Lent) = Data(buf, Lent)
    BY <1>1, <1>3, <1>4, <1>5, DataKept
  <2>. QED BY <2>1, <2>2, <2>3, Mapped
<1>8. WithData(Back)' = WithData(Back)
  BY <1>1, <1>2, <1>3, <1>4, <1>5, DataKept, Mapped
<1>9. Held' = Held
  <2>1. Holding' = Holding /\ bm' = bm
    BY DEF PutSlot, Holding
  <2>2. Holding # {} => bm.d \in Holding /\ bm.d \in Desc
    BY DEF Inv, TypeOK, Holding
  <2>3. Holding # {} => buf'[bm.d] = buf[bm.d]
    BY <1>1, <1>3, <1>5, <2>2
  <2>. QED BY <2>1, <2>3 DEF Held, Record
<1>10. Loan!LendWith(m)
  BY <1>1, <1>7, <1>8, <1>9 DEF Loan!LendWith
<1>. QED BY <1>10 DEF Loan!Next, Loan!Lend

LEMMA PutIdxStutters ==
    ASSUME Inv, Inv', PutIdx
    PROVE  UNCHANGED Loan!loanVars
<1>1. Lent' = Append(Lent, linux.d)
  BY PutIdxOwned DEF Inv
<1>2. Sent' = Sent /\ Back' = Back
  BY <1>1 DEF PutIdx, LinuxIdle, Sent, Back, Between, Dist
<1>3. Held' = Held /\ buf' = buf /\ free' = free
  BY DEF PutIdx, Held, Holding, Record
<1>. QED BY <1>2, <1>3, Mapped DEF Loan!loanVars

LEMMA CollectCollects ==
    ASSUME Inv, Inv', Collect
    PROVE  Loan!Next
<1>1. Back # <<>> /\ Back' = Tail(Back) /\ free' = free \cup {Head(Back)}
  BY CollectOwned DEF Inv
<1>2. buf \in [Desc -> Contents] /\ Back \in Seq(Desc)
  BY Shape DEF Inv, TypeOK
<1>3. Sent' = Sent /\ Held' = Held /\ buf' = buf
  BY DEF Collect, Sent, Lent, Between, Dist, Held, Holding, Record
<1>4. /\ Data(buf, Back) # <<>> /\ Head(Data(buf, Back)).buf = Head(Back)
      /\ Data(buf, Back') = Tail(Data(buf, Back))
  BY <1>1, <1>2, DataTail
<1>5. Loan!Collect
  BY <1>1, <1>3, <1>4, Mapped DEF Loan!Collect
<1>. QED BY <1>5 DEF Loan!Next

LEMMA GetSlotTakes ==
    ASSUME Inv, Inv', GetSlot
    PROVE  Loan!Next
<1>1. /\ Lent # <<>> /\ Lent' = Tail(Lent)
      /\ Holding' = {Head(Lent)} /\ bm' = [pc |-> "held", d |-> Head(Lent)]
  BY GetSlotOwned DEF Inv
<1>2. /\ buf \in [Desc -> Contents] /\ Lent \in Seq(Desc)
      /\ linux.pc = "put" => linux.d \in Desc
  BY Shape DEF Inv, TypeOK
<1>3. Back' = Back /\ linux' = linux /\ buf' = buf /\ free' = free
  BY DEF GetSlot, Back, Between, Dist
<1>4. Sent \in Seq(Desc) /\ Sent # <<>> /\ Head(Sent) = Head(Lent) /\ Sent' = Tail(Sent)
  <2>1. CASE linux.pc = "put"
    <3>1. Sent = Append(Lent, linux.d) /\ Sent' = Append(Tail(Lent), linux.d)
      BY <1>1, <1>3, <2>1 DEF Sent
    <3>. QED BY <1>1, <1>2, <2>1, <3>1, HeadTailAppend, AppendProperties
  <2>2. CASE linux.pc # "put"
    BY <1>1, <1>2, <1>3, <2>2 DEF Sent
  <2>. QED BY <2>1, <2>2
<1>5. /\ Data(buf, Sent) # <<>> /\ Head(Data(buf, Sent)) = [buf |-> Head(Sent), data |-> buf[Head(Sent)]]
      /\ Data(buf, Sent') = Tail(Data(buf, Sent))
  BY <1>2, <1>4, DataTail
<1>6. Held = Nobody /\ Held' = [buf |-> Head(Lent), data |-> buf[Head(Lent)]]
  BY <1>1, <1>3 DEF GetSlot, Held, Holding, Record
<1>7. Loan!Take
  BY <1>3, <1>4, <1>5, <1>6, Mapped DEF Loan!Take
<1>. QED BY <1>7 DEF Loan!Next

\* A record of a buffer is not Nobody.
LEMMA HeldIs ==
    ASSUME TypeOK, Holding # {}
    PROVE  Held = [buf |-> bm.d, data |-> buf[bm.d]] /\ Held # Nobody /\ Holding = {bm.d}
<1>1. Held = [buf |-> bm.d, data |-> buf[bm.d]] /\ Holding = {bm.d}
  BY DEF Held, Record, Holding
<1>2. bm.d # -1
  BY Sizes DEF TypeOK, Desc
<1>3. Held.buf = bm.d /\ Nobody.buf = -1
  BY <1>1 DEF Nobody
<1>. QED BY <1>1, <1>2, <1>3

LEMMA FillUses ==
    ASSUME Inv, Inv', Fill
    PROVE  Loan!Next
<1>1. PICK m \in Contents : buf' = [buf EXCEPT ![bm.d] = m]
  BY DEF Fill
<1>2. /\ buf \in [Desc -> Contents] /\ bm.d \in Desc
      /\ Lent \in Seq(Desc) /\ Back \in Seq(Desc)
      /\ linux.pc = "put" => linux.d \in Desc
  BY Shape DEF Inv, TypeOK
<1>3. Holding = {bm.d} /\ Holding' = Holding /\ bm' = bm
  BY DEF Fill, Holding
<1>4. Lent' = Lent /\ Back' = Back /\ Sent' = Sent /\ free' = free
  BY DEF Fill, Lent, Back, Sent, Between, Dist
<1>5. bm.d \notin Members(Back) /\ Sent \in Seq(Desc) /\ bm.d \notin Members(Sent)
  <2>1. bm.d \notin Members(Back) /\ bm.d \notin Members(Lent) /\ bm.d \notin Putting
    BY <1>3 DEF Inv, Owned, Apart
  <2>2. CASE linux.pc = "put"
    BY <1>2, <2>1, <2>2, AppendMembers DEF Sent, Putting
  <2>3. CASE linux.pc # "put"
    BY <1>2, <2>1, <2>3 DEF Sent
  <2>. QED BY <2>1, <2>2, <2>3
<1>6. WithData(Sent)' = WithData(Sent) /\ WithData(Back)' = WithData(Back)
  BY <1>1, <1>2, <1>4, <1>5, DataKept, Mapped
<1>7. Held = [buf |-> bm.d, data |-> buf[bm.d]] /\ Held # Nobody
  BY <1>3, HeldIs DEF Inv
<1>8. Held' = [buf |-> bm.d, data |-> m]
  BY <1>1, <1>2, <1>3 DEF Held, Record
<1>9. Loan!UseWith(m)
  BY <1>4, <1>6, <1>7, <1>8 DEF Loan!UseWith
<1>. QED BY <1>9 DEF Loan!Next, Loan!Use

LEMMA PubIdxGivesBack ==
    ASSUME Inv, Inv', PubIdx
    PROVE  Loan!Next
<1>1. Back' = Append(Back, bm.d) /\ Holding = {bm.d} /\ Holding' = {}
  BY PubIdxOwned DEF Inv
<1>2. buf \in [Desc -> Contents] /\ bm.d \in Desc /\ Back \in Seq(Desc)
  BY Shape DEF Inv, TypeOK
<1>3. Sent' = Sent /\ buf' = buf /\ free' = free
  BY DEF PubIdx, Sent, Lent, Between, Dist
<1>4. Held = [buf |-> bm.d, data |-> buf[bm.d]] /\ Held # Nobody /\ Held' = Nobody
  BY <1>1, HeldIs DEF Inv, Held
<1>5. Data(buf, Back') = Append(Data(buf, Back), Held)
  BY <1>1, <1>2, <1>4, DataAppend
<1>6. Loan!GiveBack
  BY <1>3, <1>4, <1>5, Mapped DEF Loan!GiveBack
<1>. QED BY <1>6 DEF Loan!Next

LEMMA OtherStepsStutter ==
    ASSUME Inv, Rest \/ Interrupt \/ GetIdx \/ Notify \/ UNCHANGED vars
    PROVE  UNCHANGED Loan!loanVars
<1>1. Quiet
  BY OtherStepsQuiet
<1>2. Lent' = Lent /\ Back' = Back /\ Holding' = Holding
  BY <1>1, QuietKeeps
<1>3. buf' = buf /\ free' = free
  BY DEF Rest, Interrupt, GetIdx, Notify, vars
<1>4. Sent' = Sent
  BY <1>1, <1>2 DEF Quiet, Sent
<1>5. Held' = Held
  BY <1>1, <1>2, <1>3 DEF Quiet, Held, Record, Holding
<1>. QED BY <1>2, <1>3, <1>4, <1>5, Mapped DEF Loan!loanVars

LEMMA LoanStep == Inv /\ Inv' /\ [Next]_vars => [Loan!Next]_(Loan!loanVars)
<1> SUFFICES ASSUME Inv, Inv', [Next]_vars PROVE Loan!Next \/ UNCHANGED Loan!loanVars
  OBVIOUS
<1>1. CASE PubSlot
  <2>1. Back' = Back /\ Holding' = Holding
    BY <1>1, PubSlotOwned DEF Inv
  <2>2. bm'.d = bm.d
    BY <1>1 DEF PubSlot, Inv, TypeOK
  <2>3. Sent' = Sent /\ Held' = Held /\ buf' = buf /\ free' = free
    BY <1>1, <2>1, <2>2 DEF PubSlot, Sent, Lent, Between, Dist, Held, Record
  <2>. QED BY <2>1, <2>3, Mapped DEF Loan!loanVars
<1>. QED BY <1>1, PutSlotLends, PutIdxStutters, CollectCollects, GetSlotTakes, FillUses,
            PubIdxGivesBack, OtherStepsStutter
         DEF Next, Linux, Firmware

\* The virtqueue of virtio_ring.c hands over buffers: each side gets them in the
\* order in which the other announced them, none twice, none lost, and with the
\* contents that were written before the index moved.
THEOREM VringImplementsLoan == Spec => ImplementsLoan
<1>1. Spec => []Inv
  BY InvHolds
<1>. QED BY <1>1, LoanInit, LoanStep, PTL DEF Spec, ImplementsLoan, Loan!Spec

=============================================================================
