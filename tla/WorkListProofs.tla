--------------------------- MODULE WorkListProofs ---------------------------
(***************************************************************************)
(* Proofs about WorkList, for any number of warps, tasks and slots.  The   *)
(* invariant IInv follows a position of the list: a push claims it, is to  *)
(* write it, has written it, a get claims it, copies it and clears its     *)
(* slot.  A step keeps it unless the ring turns past a call.               *)
(***************************************************************************)
EXTENDS WorkList, TLAPS

\* What a warp knows of front and rear, read at different times.
KnownOK ==
  \A w \in Warps :
    /\ warp[w].at = "gotFront" => warp[w].old <= front
    /\ warp[w].at = "claim" =>
         warp[w].old <= front /\ warp[w].old < rear /\ warp[w].num = 1
    /\ warp[w].at = "pushRear" => warp[w].old <= rear
    /\ warp[w].at = "pushClaim" =>
         /\ warp[w].num > 0 /\ warp[w].old <= rear
         /\ warp[w].old = rear => rear + warp[w].num < front + size

CountsInv == TypeOK /\ Backed /\ KnownOK

Reading(w) == warp[w].at \in {"read", "copied"}

\* The gets that have claimed a position are at different ones, of the last turn.
ReadersOK ==
  /\ \A w \in Warps :
       Reading(w) => warp[w].old < front /\ front <= warp[w].old + size
  /\ \A w, u \in Warps :
       Reading(w) /\ Reading(u) /\ warp[w].old = warp[u].old => w = u

ToWrite(p) == \E w \in Warps : p \in warp[w].todo

\* A task that is to be written is still to be read.
ToRead(p) ==
  \/ front <= p
  \/ \E w \in Warps : warp[w].at = "read" /\ warp[w].old = p

WritersOK ==
  /\ \A w \in Warps : \A p \in warp[w].todo :
       warp[w].at = "write" /\ p < rear /\ rear <= p + size /\ ToRead(p)
  /\ \A w, u \in Warps : \A p \in warp[w].todo \cap warp[u].todo : w = u
  /\ \A w \in Warps : \A p \in warp[w].clear :
       p \in warp[w].todo /\ list_ptr[Idx(p)] = NoTask

\* What a slot holds was pushed to it and is not cleared yet.
SlotsOK ==
  \A s \in Slots : list_ptr[s] # NoTask =>
    /\ Idx(list_ptr[s]) = s /\ list_ptr[s] < rear /\ ~ ToWrite(list_ptr[s])
    /\ \/ front <= list_ptr[s]
       \/ \E w \in Warps : Reading(w) /\ warp[w].old = list_ptr[s]

\* What is to be read is to be written or in its slot.
PositionsOK ==
  \A p \in 0 .. rear - 1 : ToRead(p) => ToWrite(p) \/ list_ptr[Idx(p)] = p

RingInv == ReadersOK /\ WritersOK /\ SlotsOK /\ PositionsOK /\ GetsOwn

IInv == CountsInv /\ RingInv

----------------------------------------------------------------------------
(* Positions and slots.                                                    *)

\* What ListAssumption says, one fact at a time.
LEMMA SizeType ==
  size \in Nat /\ size > 1 /\ NoTask \notin Nat /\ MaxPush \in Nat /\ MaxPush > 0
BY ListAssumption

\* A position has a slot, the remainder of its division by size.
LEMMA IdxType ==
  ASSUME NEW n \in Int
  PROVE  /\ Idx(n) \in Slots /\ Idx(n) \in Nat /\ Idx(n) < size
         /\ n = size * (n \div size) + Idx(n) /\ n \div size \in Int
BY SizeType DEF Idx, Slots

\* A task has a slot and is not NoTask.
LEMMA TaskSlot == ASSUME NEW x \in Nat PROVE Idx(x) \in Slots /\ x # NoTask
<1>1. Idx(x) \in Slots
  BY IdxType
<1>2. x # NoTask
  BY SizeType
<1> QED BY <1>1, <1>2

\* The only multiple of size between -size and size is 0.
LEMMA OnlyZero ==
  ASSUME NEW e \in Int, NEW x \in Int, x = size * e, -size < x, x < size
  PROVE  x = 0
<1>1. CASE e >= 1
  BY <1>1, SizeType
<1>2. CASE e <= -1
  BY <1>2, SizeType
<1>3. CASE e = 0
  BY <1>3, SizeType
<1> QED BY <1>1, <1>2, <1>3

\* Two positions at most size - 1 apart have different slots.
LEMMA IdxInjective ==
  ASSUME NEW p \in Nat, NEW q \in Nat, Idx(p) = Idx(q),
         p < q + size, q < p + size
  PROVE  p = q
<1> DEFINE a == p \div size
           b == q \div size
<1>1. /\ p = size * a + Idx(p) /\ a \in Int /\ Idx(p) \in Nat
      /\ q = size * b + Idx(q) /\ b \in Int
  BY IdxType
<1> HIDE DEF a, b
<1>2. p - q = size * (a - b) /\ a - b \in Int
  BY <1>1, SizeType
<1>3. p - q = 0
  BY <1>2, SizeType, OnlyZero
<1> QED BY <1>3

\* How far a position is ahead of another is computed from their slots.
LEMMA IdxDistance ==
  ASSUME NEW p \in Nat, NEW q \in Nat, q <= p, p < q + size
  PROVE  Idx(Idx(p) - Idx(q) + size) = p - q
<1> DEFINE d == Idx(Idx(p) - Idx(q) + size)
           a == p \div size
           b == q \div size
           c == (Idx(p) - Idx(q) + size) \div size
<1>1. /\ p = size * a + Idx(p) /\ a \in Int /\ Idx(p) \in Nat
      /\ q = size * b + Idx(q) /\ b \in Int /\ Idx(q) \in Nat
  BY IdxType
<1>2. Idx(p) - Idx(q) + size \in Int
  BY <1>1, SizeType
<1>3. /\ Idx(p) - Idx(q) + size = size * c + d
      /\ c \in Int /\ d \in Nat /\ d < size
  BY <1>2, IdxType
<1> HIDE DEF a, b, c, d
<1>4. (p - q) - d = size * (a - b + c - 1)
  BY <1>1, <1>3, SizeType
<1>5. (p - q) - d = 0
  BY <1>1, <1>3, <1>4, SizeType, OnlyZero
<1> QED BY <1>3, <1>5 DEF d
----------------------------------------------------------------------------
(* The types.                                                              *)

\* Outside push_works and get a warp has no positions.
LEMMA IdleType == Idle \in Positions /\ Idle.at = "idle"
BY SizeType DEF Idle, Positions

\* Least is the smaller one.
LEMMA LeastType ==
  ASSUME NEW a \in Nat, NEW b \in Nat
  PROVE  Least(a, b) \in Nat /\ Least(a, b) <= a /\ Least(a, b) <= b
BY DEF Least

\* A step in which the warp w moves and the rest keeps its type.
LEMMA TypeMoves ==
  ASSUME TypeOK, NEW w \in Warps, NEW s \in Positions, Become(w, s),
         front' \in Nat, rear' \in Nat,
         list_ptr' \in [Slots -> Nat \cup {NoTask}],
         taken' \in SUBSET Nat, overtaken' \in BOOLEAN
  PROVE  TypeOK'
BY DEF TypeOK, Become

\* The steps of get keep the types.
LEMMA GetTypes ==
  ASSUME TypeOK, NEW w \in Warps, Get(w)
  PROVE  TypeOK'
<1>0. /\ front \in Nat /\ rear \in Nat /\ warp[w] \in Positions
      /\ warp[w].old \in Nat /\ warp[w].num \in Nat
      /\ list_ptr \in [Slots -> Nat \cup {NoTask}]
      /\ taken \in SUBSET Nat /\ overtaken \in BOOLEAN
  BY SizeType DEF TypeOK, Positions
<1>1. CASE ReadFront(w)
  <2> DEFINE s == [Idle EXCEPT !.at = "gotFront", !.old = front]
  <2>1. s \in Positions
    BY <1>0, IdleType DEF Idle, Positions
  <2>2. Become(w, s) /\ UNCHANGED <<front, rear, list_ptr, taken, overtaken>>
    BY <1>1 DEF ReadFront
  <2> HIDE DEF s
  <2> QED BY <1>0, <2>1, <2>2, TypeMoves
<1>2. CASE ReadRear(w)
  <2> DEFINE n == Idx(Idx(rear) + size - Idx(warp[w].old))
             k == Least(n, 1)
             t == [warp[w] EXCEPT !.at = "claim", !.num = k]
             s == IF k = 0 THEN Idle ELSE t
  <2>1. Idx(rear) + size - Idx(warp[w].old) \in Int
    <3>1. Idx(rear) \in Nat /\ Idx(warp[w].old) \in Nat
      BY <1>0, IdxType
    <3> QED BY <3>1, SizeType
  <2>2. n \in Nat
    BY <2>1, IdxType
  <2>3. Become(w, s) /\ UNCHANGED <<front, rear, list_ptr, taken, overtaken>>
    BY <1>2 DEF ReadRear
  <2> HIDE DEF n
  <2>4. k \in 0 .. MaxPush
    <3>1. k \in Nat /\ k <= 1
      BY <2>2, LeastType
    <3> QED BY <3>1, SizeType
  <2> HIDE DEF k
  <2>5. t \in Positions
    BY <1>0, <2>4 DEF Positions
  <2> HIDE DEF t
  <2>6. s \in Positions
    BY <2>5, IdleType
  <2> HIDE DEF s
  <2> QED BY <1>0, <2>3, <2>6, TypeMoves
<1>3. CASE ClaimWork(w)
  <2> DEFINE s == [warp[w] EXCEPT !.at = "read", !.old = front]
  <2>1. s \in Positions
    BY <1>0 DEF Positions
  <2>2. /\ Become(w, s) /\ front' = front + warp[w].num
        /\ UNCHANGED <<rear, list_ptr, taken>> /\ overtaken' \in BOOLEAN
    BY <1>0, <1>3 DEF ClaimWork
  <2> HIDE DEF s
  <2> QED BY <1>0, <2>1, <2>2, TypeMoves
<1>4. CASE MissWork(w)
  <2> DEFINE s == [Idle EXCEPT !.at = "get"]
  <2>1. s \in Positions
    BY IdleType DEF Idle, Positions
  <2>2. Become(w, s) /\ UNCHANGED <<front, rear, list_ptr, taken, overtaken>>
    BY <1>4 DEF MissWork
  <2> HIDE DEF s
  <2> QED BY <1>0, <2>1, <2>2, TypeMoves
<1>5. CASE CopyTask(w)
  <2> DEFINE s == [warp[w] EXCEPT !.at = "copied"]
             x == list_ptr[Idx(warp[w].old)]
  <2>1. s \in Positions
    BY <1>0 DEF Positions
  <2>2. x \in Nat
    BY <1>0, <1>5, IdxType DEF CopyTask
  <2>3. /\ Become(w, s) /\ UNCHANGED <<front, rear, list_ptr, overtaken>>
        /\ taken' = taken \cup {x}
    BY <1>5 DEF CopyTask
  <2> HIDE DEF s, x
  <2> QED BY <1>0, <2>1, <2>2, <2>3, TypeMoves
<1>6. CASE Invalidate(w)
  <2>1. list_ptr' \in [Slots -> Nat \cup {NoTask}]
    BY <1>0, <1>6 DEF Invalidate
  <2>2. Become(w, Idle) /\ UNCHANGED <<front, rear, taken, overtaken>>
    BY <1>6 DEF Invalidate
  <2> QED BY <1>0, <2>1, <2>2, IdleType, TypeMoves
<1> QED BY <1>1, <1>2, <1>3, <1>4, <1>5, <1>6 DEF Get

\* The steps of push_works keep the types.
LEMMA PushTypes ==
  ASSUME TypeOK, NEW w \in Warps, Push(w)
  PROVE  TypeOK'
<1>0. /\ front \in Nat /\ rear \in Nat /\ warp[w] \in Positions
      /\ warp[w].old \in Nat /\ warp[w].num \in Nat
      /\ warp[w].want \in Nat /\ warp[w].want <= MaxPush
      /\ warp[w].todo \in SUBSET Nat /\ warp[w].clear \in SUBSET Nat
      /\ list_ptr \in [Slots -> Nat \cup {NoTask}]
      /\ taken \in SUBSET Nat /\ overtaken \in BOOLEAN
  BY SizeType DEF TypeOK, Positions
<1>1. CASE \E n \in 1 .. MaxPush : PushReadRear(w, n)
  <2>1. PICK n \in 1 .. MaxPush : PushReadRear(w, n)
    BY <1>1
  <2> DEFINE s == [Idle EXCEPT !.at = "pushRear", !.old = rear, !.want = n]
  <2>2. n \in 0 .. MaxPush
    BY <2>1, SizeType
  <2>3. s \in Positions
    BY <1>0, <2>2, IdleType DEF Idle, Positions
  <2>4. Become(w, s) /\ UNCHANGED <<front, rear, list_ptr, taken, overtaken>>
    BY <2>1 DEF PushReadRear
  <2> HIDE DEF s
  <2> QED BY <1>0, <2>3, <2>4, TypeMoves
<1>2. CASE PushReadFront(w)
  <2> DEFINE d == Idx(Idx(warp[w].old) - Idx(front) + size)
             f == size - 1 - d
             k == Least(f, warp[w].want)
             t == [warp[w] EXCEPT !.at = "pushClaim", !.num = k]
             s == IF k = 0 THEN Idle ELSE t
  <2>1. Idx(warp[w].old) - Idx(front) + size \in Int
    <3>1. Idx(front) \in Nat /\ Idx(warp[w].old) \in Nat
      BY <1>0, IdxType
    <3> QED BY <3>1, SizeType
  <2>2. d \in Nat /\ d < size
    BY <2>1, IdxType
  <2>3. Become(w, s) /\ UNCHANGED <<front, rear, list_ptr, taken, overtaken>>
    BY <1>2 DEF PushReadFront
  <2> HIDE DEF d
  <2>4. f \in Nat
    BY <2>2, SizeType
  <2> HIDE DEF f
  <2>5. k \in 0 .. MaxPush
    <3>1. k \in Nat /\ k <= warp[w].want
      BY <1>0, <2>4, LeastType
    <3> QED BY <1>0, <3>1, SizeType
  <2> HIDE DEF k
  <2>6. t \in Positions
    BY <1>0, <2>5 DEF Positions
  <2> HIDE DEF t
  <2>7. s \in Positions
    BY <2>6, IdleType
  <2> HIDE DEF s
  <2> QED BY <1>0, <2>3, <2>7, TypeMoves
<1>3. CASE ClaimRoom(w)
  <2> DEFINE c == Claim(warp[w].num)
             s == [warp[w] EXCEPT !.at = "write", !.todo = c]
  <2>1. c \in SUBSET Nat
    BY <1>0 DEF Claim
  <2>2. /\ Become(w, s) /\ rear' = rear + warp[w].num
        /\ UNCHANGED <<front, list_ptr, taken>> /\ overtaken' \in BOOLEAN
    BY <1>0, <1>3 DEF ClaimRoom
  <2> HIDE DEF c
  <2>3. s \in Positions
    BY <1>0, <2>1 DEF Positions
  <2> HIDE DEF s
  <2> QED BY <1>0, <2>2, <2>3, TypeMoves
<1>4. CASE MissRoom(w)
  <2> DEFINE s == [warp[w] EXCEPT !.at = "push"]
  <2>1. s \in Positions
    BY <1>0 DEF Positions
  <2>2. Become(w, s) /\ UNCHANGED <<front, rear, list_ptr, taken, overtaken>>
    BY <1>4 DEF MissRoom
  <2> HIDE DEF s
  <2> QED BY <1>0, <2>1, <2>2, TypeMoves
<1>5. ASSUME NEW p \in warp[w].todo, SeeClear(w, p)
      PROVE  TypeOK'
  <2> DEFINE c == warp[w].clear \cup {p}
             s == [warp[w] EXCEPT !.clear = c]
  <2>1. c \in SUBSET Nat
    BY <1>0
  <2>2. Become(w, s) /\ UNCHANGED <<front, rear, list_ptr, taken, overtaken>>
    BY <1>5 DEF SeeClear
  <2> HIDE DEF c
  <2>3. s \in Positions
    BY <1>0, <2>1 DEF Positions
  <2> HIDE DEF s
  <2> QED BY <1>0, <2>2, <2>3, TypeMoves
<1>6. ASSUME NEW p \in warp[w].todo, WriteTask(w, p)
      PROVE  TypeOK'
  <2> DEFINE d == warp[w].todo \ {p}
             c == warp[w].clear \ {p}
             t == [warp[w] EXCEPT !.todo = d, !.clear = c]
             s == IF warp[w].todo = {p} THEN Idle ELSE t
  <2>1. c \in SUBSET Nat /\ d \in SUBSET Nat /\ p \in Nat
    BY <1>0
  <2>2. /\ Become(w, s) /\ UNCHANGED <<front, rear, taken, overtaken>>
        /\ list_ptr' \in [Slots -> Nat \cup {NoTask}]
    BY <1>0, <1>6, <2>1 DEF WriteTask
  <2> HIDE DEF c, d
  <2>3. t \in Positions
    BY <1>0, <2>1 DEF Positions
  <2> HIDE DEF t
  <2>4. s \in Positions
    BY <2>3, IdleType
  <2> HIDE DEF s
  <2> QED BY <1>0, <2>2, <2>4, TypeMoves
<1> QED BY <1>1, <1>2, <1>3, <1>4, <1>5, <1>6 DEF Push

\* So do all steps.
LEMMA NextTypes == TypeOK /\ [Next]_vars => TypeOK'
<1>1. TypeOK /\ Next => TypeOK'
  BY GetTypes, PushTypes DEF Next
<1>2. TypeOK /\ UNCHANGED vars => TypeOK'
  BY DEF TypeOK, vars
<1> QED BY <1>1, <1>2

\* No warp computes a position or a slot that is none, whatever has been
\* overtaken.
THEOREM TypeCorrect == Spec => []TypeOK
<1>1. Init => TypeOK
  <2> SUFFICES ASSUME Init PROVE TypeOK
    OBVIOUS
  <2>1. warp \in [Warps -> Positions]
    BY IdleType DEF Init
  <2> QED BY <2>1 DEF Init, TypeOK
<1> QED BY <1>1, NextTypes, PTL DEF Spec

----------------------------------------------------------------------------
(* The counts: what front and rear can be.                                 *)

\* A step in which only the warp w moves.
LEMMA CountsMoves ==
  ASSUME CountsInv, TypeOK', NEW w \in Warps, NEW s, Become(w, s),
         UNCHANGED <<front, rear>>,
         s.at = "gotFront" => s.old <= front,
         s.at = "claim" => s.old <= front /\ s.old < rear /\ s.num = 1,
         s.at = "pushRear" => s.old <= rear,
         s.at = "pushClaim" => /\ s.num > 0 /\ s.old <= rear
                               /\ s.old = rear => rear + s.num < front + size
  PROVE  CountsInv'
<1> USE DEF CountsInv
<1>1. Backed'
  BY DEF Backed, WorkBacked
<1>2. warp'[w] = s /\ \A u \in Warps \ {w} : warp'[u] = warp[u]
  BY DEF TypeOK, Become
<1>3. KnownOK'
  BY <1>2 DEF KnownOK
<1> QED BY <1>1, <1>3

\* What is read of the other end, old as the reader's own end may be.
LEMMA WorkNum ==
  ASSUME NEW r \in Nat, NEW o \in Nat, o <= r, Idx(Idx(r) + size - Idx(o)) # 0
  PROVE  o < r
<1>1. CASE o = r
  <2>1. Idx(r) + size - Idx(o) = size
    BY <1>1, IdxType, SizeType
  <2>2. Idx(size) = 0
    BY SizeType, IdxType, OnlyZero DEF Idx
  <2> QED BY <2>1, <2>2
<1> QED BY <1>1

\* A get that claims and is not overtaken finds front where it read it, and
\* nobody reads the slot for the turn before.
LEMMA ClaimsFront ==
  ASSUME ~overtaken', NEW w \in Warps, ClaimWork(w)
  PROVE  /\ warp[w].old = front
         /\ \A u \in Warps : Reading(u) => warp[u].old # front - size
BY DEF ClaimWork, StillRead, Reading

\* So does a push, and nobody is to write the slots for the turn before.
LEMMA ClaimsRear ==
  ASSUME ~overtaken', NEW w \in Warps, ClaimRoom(w)
  PROVE  /\ warp[w].old = rear
         /\ \A u \in Warps : \A p \in Claim(warp[w].num) :
              p - size \notin warp[u].todo
BY DEF ClaimRoom, StillWritten

\* The steps of get that are not overtaken keep the counts.
LEMMA GetCounts ==
  ASSUME ~overtaken', CountsInv, NEW w \in Warps, Get(w)
  PROVE  CountsInv'
<1> USE DEF CountsInv
<1>0. /\ front \in Nat /\ rear \in Nat /\ front <= rear /\ rear < front + size
      /\ warp[w] \in Positions /\ warp[w].old \in Nat /\ TypeOK'
  BY SizeType, GetTypes DEF TypeOK, Backed, WorkBacked, Positions
<1>1. Idle.at = "idle"
  BY IdleType
<1>2. CASE ReadFront(w)
  <2> DEFINE s == [Idle EXCEPT !.at = "gotFront", !.old = front]
  <2>1. s.at = "gotFront" /\ s.old = front
    BY DEF Idle
  <2>2. Become(w, s) /\ UNCHANGED <<front, rear>>
    BY <1>2 DEF ReadFront
  <2> HIDE DEF s
  <2> QED BY <1>0, <2>1, <2>2, CountsMoves
<1>3. CASE ReadRear(w)
  <2> DEFINE o == warp[w].old
             n == Idx(Idx(rear) + size - Idx(o))
             k == Least(n, 1)
             t == [warp[w] EXCEPT !.at = "claim", !.num = k]
             s == IF k = 0 THEN Idle ELSE t
  <2>1. o \in Nat /\ o <= front /\ o <= rear
    BY <1>0, <1>3 DEF ReadRear, KnownOK
  <2>2. Idx(rear) + size - Idx(o) \in Int
    <3>1. Idx(rear) \in Nat /\ Idx(o) \in Nat
      BY <1>0, <2>1, IdxType
    <3> QED BY <3>1, SizeType
  <2>3. n \in Nat
    BY <2>2, IdxType
  <2>4. k # 0 => k = 1 /\ o < rear
    BY <1>0, <2>1, <2>3, WorkNum DEF Least
  <2>5. Become(w, s) /\ UNCHANGED <<front, rear>>
    BY <1>3 DEF ReadRear
  <2> HIDE DEF n
  <2>6. CASE k = 0
    BY <1>0, <1>1, <2>5, <2>6, CountsMoves
  <2>7. CASE k # 0
    <3>0. k = 1
      BY <2>4, <2>7
    <3> HIDE DEF k
    <3>1. t.at = "claim" /\ t.old = o /\ t.num = 1
      BY <1>0, <3>0 DEF Positions
    <3>2. Become(w, t)
      BY <2>5, <2>7
    <3> HIDE DEF t
    <3> QED BY <1>0, <2>1, <2>4, <2>5, <2>7, <3>1, <3>2, CountsMoves
  <2> QED BY <2>6, <2>7
<1>4. CASE ClaimWork(w)
  <2> DEFINE s == [warp[w] EXCEPT !.at = "read", !.old = front]
  <2>1. warp[w].old = front /\ warp[w].num = 1 /\ front < rear
    BY <1>4, ClaimsFront DEF ClaimWork, KnownOK
  <2>2. s.at = "read" /\ front' = front + 1 /\ rear' = rear /\ Become(w, s)
    BY <1>0, <1>4, <2>1 DEF ClaimWork, Positions
  <2> HIDE DEF s
  <2>3. Backed'
    BY <1>0, <2>1, <2>2, SizeType DEF Backed, WorkBacked
  <2>4. warp'[w] = s /\ \A u \in Warps \ {w} : warp'[u] = warp[u]
    BY <2>2 DEF TypeOK, Become
  <2>5. \A u \in Warps : warp[u].old \in Nat /\ warp[u].num \in Nat
    BY SizeType DEF TypeOK, Positions
  <2>6. KnownOK'
    BY <1>0, <2>2, <2>4, <2>5, SizeType DEF KnownOK
  <2> QED BY <1>0, <2>3, <2>6
<1>5. CASE MissWork(w)
  <2> DEFINE s == [Idle EXCEPT !.at = "get"]
  <2>1. s.at = "get"
    BY DEF Idle
  <2>2. Become(w, s) /\ UNCHANGED <<front, rear>>
    BY <1>5 DEF MissWork
  <2> HIDE DEF s
  <2> QED BY <1>0, <2>1, <2>2, CountsMoves
<1>6. CASE CopyTask(w)
  <2> DEFINE s == [warp[w] EXCEPT !.at = "copied"]
  <2>1. s.at = "copied"
    BY <1>0 DEF Positions
  <2>2. Become(w, s) /\ UNCHANGED <<front, rear>>
    BY <1>6 DEF CopyTask
  <2> HIDE DEF s
  <2> QED BY <1>0, <2>1, <2>2, CountsMoves
<1>7. CASE Invalidate(w)
  <2>1. Become(w, Idle) /\ UNCHANGED <<front, rear>>
    BY <1>7 DEF Invalidate
  <2> QED BY <1>0, <1>1, <2>1, CountsMoves
<1> QED BY <1>2, <1>3, <1>4, <1>5, <1>6, <1>7 DEF Get

\* The steps of push_works that are not overtaken keep the counts.
LEMMA PushCounts ==
  ASSUME ~overtaken', CountsInv, NEW w \in Warps, Push(w)
  PROVE  CountsInv'
<1> USE DEF CountsInv
<1>0. /\ front \in Nat /\ rear \in Nat /\ front <= rear /\ rear < front + size
      /\ warp[w] \in Positions /\ warp[w].old \in Nat /\ warp[w].num \in Nat
      /\ warp[w].want \in Nat /\ TypeOK'
  BY SizeType, PushTypes DEF TypeOK, Backed, WorkBacked, Positions
<1>1. Idle.at = "idle"
  BY IdleType
<1>2. CASE \E n \in 1 .. MaxPush : PushReadRear(w, n)
  <2>1. PICK n \in 1 .. MaxPush : PushReadRear(w, n)
    BY <1>2
  <2> DEFINE s == [Idle EXCEPT !.at = "pushRear", !.old = rear, !.want = n]
  <2>2. s.at = "pushRear" /\ s.old = rear
    BY DEF Idle
  <2>3. Become(w, s) /\ UNCHANGED <<front, rear>>
    BY <2>1 DEF PushReadRear
  <2> HIDE DEF s
  <2> QED BY <1>0, <2>2, <2>3, CountsMoves
<1>3. CASE PushReadFront(w)
  <2> DEFINE o == warp[w].old
             d == Idx(Idx(o) - Idx(front) + size)
             f == size - 1 - d
             k == Least(f, warp[w].want)
             t == [warp[w] EXCEPT !.at = "pushClaim", !.num = k]
             s == IF k = 0 THEN Idle ELSE t
  <2>1. o \in Nat /\ o <= rear
    BY <1>0, <1>3 DEF PushReadFront, KnownOK
  <2>2. Idx(o) - Idx(front) + size \in Int
    <3>1. Idx(front) \in Nat /\ Idx(o) \in Nat
      BY <1>0, <2>1, IdxType
    <3> QED BY <3>1, SizeType
  <2>3. d \in Nat /\ d < size
    BY <2>2, IdxType
  <2>4. o = rear => d = rear - front
    BY <1>0, <2>1, IdxDistance
  <2>5. Become(w, s) /\ UNCHANGED <<front, rear>>
    BY <1>3 DEF PushReadFront
  <2> HIDE DEF d
  <2>6. f \in Nat /\ (o = rear => f = size - 1 - (rear - front))
    BY <2>3, <2>4, SizeType
  <2> HIDE DEF f
  <2>7. k \in Nat /\ k <= f
    BY <1>0, <2>6, LeastType
  <2> HIDE DEF k
  <2>8. CASE k = 0
    BY <1>0, <1>1, <2>5, <2>8, CountsMoves
  <2>9. CASE k # 0
    <3>1. t.at = "pushClaim" /\ t.old = o /\ t.num = k
      BY <1>0 DEF Positions
    <3>2. Become(w, t)
      BY <2>5, <2>9
    <3>3. k > 0 /\ o = rear => rear + k < front + size
      BY <1>0, <2>6, <2>7, SizeType
    <3> HIDE DEF t
    <3> QED BY <1>0, <2>1, <2>5, <2>7, <2>9, <3>1, <3>2, <3>3, CountsMoves
  <2> QED BY <2>8, <2>9
<1>4. CASE ClaimRoom(w)
  <2> DEFINE n == warp[w].num
             s == [warp[w] EXCEPT !.at = "write", !.todo = Claim(n)]
  <2>1. /\ warp[w].old = rear /\ n > 0 /\ rear + n < front + size
        /\ front' = front /\ rear' = rear + n /\ Become(w, s)
    BY <1>0, <1>4, ClaimsRear DEF ClaimRoom, KnownOK
  <2>2. s.at = "write"
    BY <1>0 DEF Positions
  <2> HIDE DEF s
  <2>3. Backed'
    BY <1>0, <2>1, SizeType DEF Backed, WorkBacked
  <2>4. warp'[w] = s /\ \A u \in Warps \ {w} : warp'[u] = warp[u]
    BY <2>1 DEF TypeOK, Become
  <2>5. \A u \in Warps : warp[u].old \in Nat /\ warp[u].num \in Nat
    BY SizeType DEF TypeOK, Positions
  <2>6. KnownOK'
    BY <1>0, <2>1, <2>2, <2>4, <2>5, SizeType DEF KnownOK
  <2> QED BY <1>0, <2>3, <2>6
<1>5. CASE MissRoom(w)
  <2> DEFINE s == [warp[w] EXCEPT !.at = "push"]
  <2>1. s.at = "push"
    BY <1>0 DEF Positions
  <2>2. Become(w, s) /\ UNCHANGED <<front, rear>>
    BY <1>5 DEF MissRoom
  <2> HIDE DEF s
  <2> QED BY <1>0, <2>1, <2>2, CountsMoves
<1>6. ASSUME NEW p \in warp[w].todo, SeeClear(w, p)
      PROVE  CountsInv'
  <2> DEFINE s == [warp[w] EXCEPT !.clear = warp[w].clear \cup {p}]
  <2>1. Become(w, s) /\ UNCHANGED <<front, rear>> /\ warp[w].at = "write"
    BY <1>6 DEF SeeClear
  <2>2. s.at = "write"
    BY <1>0, <2>1 DEF Positions
  <2> HIDE DEF s
  <2> QED BY <1>0, <2>1, <2>2, CountsMoves
<1>7. ASSUME NEW p \in warp[w].todo, WriteTask(w, p)
      PROVE  CountsInv'
  <2> DEFINE t == [warp[w] EXCEPT !.todo = warp[w].todo \ {p},
                                  !.clear = warp[w].clear \ {p}]
             s == IF warp[w].todo = {p} THEN Idle ELSE t
  <2>1. Become(w, s) /\ UNCHANGED <<front, rear>> /\ warp[w].at = "write"
    BY <1>7 DEF WriteTask
  <2>2. t.at = "write"
    BY <1>0, <2>1 DEF Positions
  <2> HIDE DEF t
  <2>3. s.at \in {"idle", "write"}
    BY <1>1, <2>2
  <2> HIDE DEF s
  <2> QED BY <1>0, <2>1, <2>3, CountsMoves
<1> QED BY <1>2, <1>3, <1>4, <1>5, <1>6, <1>7 DEF Push
----------------------------------------------------------------------------
(* The ring: where the tasks are.                                          *)

\* What TypeOK says of what the ring is made of.
LEMMA Typing ==
  ASSUME TypeOK
  PROVE  /\ front \in Nat /\ rear \in Nat
         /\ \A s \in Slots : list_ptr[s] \in Nat \cup {NoTask}
         /\ \A u \in Warps : /\ warp[u].old \in Nat
                             /\ warp[u].todo \in SUBSET Nat
                             /\ warp[u].clear \in SUBSET Nat
BY DEF TypeOK, Positions

\* A warp outside get and push_works has nothing to write.
LEMMA IdleTodo == Idle.at = "idle" /\ Idle.todo = {} /\ Idle.clear = {}
BY DEF Idle

\* Outside "write" a warp has nothing to write.
LEMMA NothingTodo ==
  ASSUME WritersOK, NEW w \in Warps, warp[w].at # "write"
  PROVE  warp[w].todo = {} /\ warp[w].clear = {}
BY DEF WritersOK

\* The steps of a warp that has no position before and after.
LEMMA Quiet ==
  ASSUME IInv, NEW w \in Warps, NEW s, Become(w, s),
         UNCHANGED <<front, rear, list_ptr>>,
         warp[w].at \notin {"read", "copied", "write"},
         s.at \notin {"read", "copied", "write"}, s.todo = {}, s.clear = {}
  PROVE  RingInv'
<1> USE DEF IInv, RingInv, CountsInv
<1>1. warp'[w] = s /\ \A u \in Warps \ {w} : warp'[u] = warp[u]
  BY DEF TypeOK, Become
<1>2. warp[w].todo = {} /\ warp[w].clear = {}
  BY NothingTodo
<1>3. ReadersOK'
  BY <1>1 DEF ReadersOK, Reading
<1>4. \A p : ToWrite(p)' <=> ToWrite(p)
  BY <1>1, <1>2 DEF ToWrite
<1>5. \A p : ToRead(p)' <=> ToRead(p)
  BY <1>1 DEF ToRead
<1>6. WritersOK'
  BY <1>1, <1>5 DEF WritersOK
<1>7. SlotsOK'
  BY <1>1, <1>4 DEF SlotsOK, Reading
<1>8. PositionsOK'
  BY <1>4, <1>5 DEF PositionsOK
<1>9. GetsOwn'
  BY <1>1 DEF GetsOwn
<1> QED BY <1>3, <1>6, <1>7, <1>8, <1>9

\* A get claims the first position.
LEMMA ClaimWorkRing ==
  ASSUME ~overtaken', IInv, NEW w \in Warps, ClaimWork(w)
  PROVE  RingInv'
<1> USE DEF IInv, RingInv, CountsInv
<1> DEFINE s == [warp[w] EXCEPT !.at = "read", !.old = front]
<1>1. /\ Become(w, s) /\ warp[w].at = "claim" /\ warp[w].old = front
      /\ front < rear /\ front' = front + 1 /\ rear' = rear
      /\ list_ptr' = list_ptr
  BY ClaimsFront DEF ClaimWork, KnownOK
<1>2. \A u \in Warps : Reading(u) => warp[u].old # front - size
  BY ClaimsFront
<1>3. /\ s.at = "read" /\ s.old = front /\ s.todo = warp[w].todo
      /\ s.clear = warp[w].clear
  BY DEF TypeOK, Positions
<1> HIDE DEF s
<1>4. warp'[w] = s /\ \A u \in Warps \ {w} : warp'[u] = warp[u]
  BY <1>1 DEF TypeOK, Become
<1>5. ReadersOK'
  BY <1>1, <1>2, <1>3, <1>4, Typing, SizeType DEF ReadersOK, Reading
<1>6. \A p : ToWrite(p)' <=> ToWrite(p)
  BY <1>3, <1>4 DEF ToWrite
<1>7. \A p \in Nat : ToRead(p)' <=> ToRead(p)
  BY <1>1, <1>3, <1>4, Typing DEF ToRead
<1>8. WritersOK'
  <2>1. \A u \in Warps : warp'[u].todo = warp[u].todo
                         /\ warp'[u].clear = warp[u].clear
    BY <1>3, <1>4
  <2>2. \A u \in Warps \ {w} : warp'[u].at = warp[u].at
    BY <1>4
  <2>3. warp[w].todo = {}
    BY <1>1, NothingTodo
  <2> QED BY <1>1, <1>7, <2>1, <2>2, <2>3, Typing DEF WritersOK
<1>9. SlotsOK'
  <2>1. \A u \in Warps : Reading(u) => Reading(u)' /\ warp'[u].old = warp[u].old
    BY <1>1, <1>4 DEF Reading
  <2>2. Reading(w)' /\ warp'[w].old = front
    BY <1>3, <1>4 DEF Reading
  <2> QED BY <1>1, <1>6, <2>1, <2>2, Typing DEF SlotsOK
<1>10. PositionsOK'
  <2>1. \A p \in 0 .. rear - 1 : p \in Nat
    BY Typing
  <2> QED BY <1>1, <1>6, <1>7, <2>1 DEF PositionsOK
<1>11. GetsOwn'
  BY <1>1, <1>3, <1>4 DEF GetsOwn
<1> QED BY <1>5, <1>8, <1>9, <1>10, <1>11

\* What a get finds in its slot is what was pushed to its position.
LEMMA Found ==
  ASSUME IInv, NEW w \in Warps, warp[w].at = "read",
         list_ptr[Idx(warp[w].old)] # NoTask
  PROVE  list_ptr[Idx(warp[w].old)] = warp[w].old
<1> USE DEF IInv, RingInv, CountsInv
<1> DEFINE o == warp[w].old
           x == list_ptr[Idx(o)]
<1>1. o \in Nat /\ o < front /\ front <= rear /\ o \in 0 .. rear - 1
  BY Typing DEF ReadersOK, Reading, Backed, WorkBacked
<1>2. ToRead(o)
  BY DEF ToRead
<1>3. CASE x # o
  <2>1. Idx(o) \in Slots
    BY <1>1, IdxType
  <2>2. x \in Nat /\ Idx(x) = Idx(o) /\ x < rear
    BY <2>1, Typing DEF SlotsOK
  <2>3. ToWrite(o)
    BY <1>1, <1>2, <1>3 DEF PositionsOK
  <2>4. rear <= o + size
    BY <2>3 DEF ToWrite, WritersOK
  <2>5. front <= x \/ \E u \in Warps : Reading(u) /\ warp[u].old = x
    BY <2>1 DEF SlotsOK
  <2>6. o < x + size
    BY <1>1, <2>2, <2>5, Typing, SizeType DEF ReadersOK
  <2>7. x < o + size
    BY <1>1, <2>2, <2>4, Typing, SizeType
  <2>8. x = o
    BY <1>1, <2>2, <2>6, <2>7, IdxInjective
  <2> QED BY <1>3, <2>8
<1> QED BY <1>3

\* It copies the task.
LEMMA CopyTaskRing ==
  ASSUME IInv, NEW w \in Warps, CopyTask(w)
  PROVE  RingInv'
<1> USE DEF IInv, RingInv, CountsInv
<1> DEFINE s == [warp[w] EXCEPT !.at = "copied"]
           o == warp[w].old
<1>1. /\ Become(w, s) /\ warp[w].at = "read" /\ list_ptr[Idx(o)] # NoTask
      /\ front' = front /\ rear' = rear /\ list_ptr' = list_ptr
  BY DEF CopyTask
<1>2. list_ptr[Idx(o)] = o
  BY <1>1, Found
<1>3. /\ s.at = "copied" /\ s.old = o /\ s.todo = warp[w].todo
      /\ s.clear = warp[w].clear
  BY DEF TypeOK, Positions
<1> HIDE DEF s
<1>4. warp'[w] = s /\ \A u \in Warps \ {w} : warp'[u] = warp[u]
  BY <1>1 DEF TypeOK, Become
<1>5. \A u \in Warps : /\ Reading(u)' <=> Reading(u)
                       /\ warp'[u].old = warp[u].old
                       /\ warp'[u].todo = warp[u].todo
                       /\ warp'[u].clear = warp[u].clear
  BY <1>1, <1>3, <1>4 DEF Reading
<1>6. ReadersOK'
  BY <1>1, <1>5 DEF ReadersOK
<1>7. \A p : ToWrite(p)' <=> ToWrite(p)
  BY <1>5 DEF ToWrite
<1>8. o \in Nat /\ Idx(o) \in Slots
  BY Typing, IdxType
<1>9. ~ ToWrite(o)
  BY <1>1, <1>2, <1>8 DEF SlotsOK
<1>10. \A p : p # o => (ToRead(p)' <=> ToRead(p))
  BY <1>1, <1>3, <1>4 DEF ToRead
<1>11. WritersOK'
  <2>1. warp[w].todo = {}
    BY <1>1, NothingTodo
  <2>2. \A u \in Warps : \A p \in warp[u].todo :
          p # o /\ u # w /\ warp'[u].at = warp[u].at
    BY <1>4, <1>9, <2>1 DEF ToWrite
  <2> QED BY <1>1, <1>5, <1>10, <2>2 DEF WritersOK
<1>12. SlotsOK'
  BY <1>1, <1>5, <1>7 DEF SlotsOK
<1>13. PositionsOK'
  BY <1>1, <1>2, <1>7, <1>10 DEF PositionsOK
<1>14. GetsOwn'
  BY <1>1, <1>2, <1>3, <1>4 DEF GetsOwn
<1> QED BY <1>6, <1>11, <1>12, <1>13, <1>14

\* It clears its slot.
LEMMA InvalidateRing ==
  ASSUME IInv, NEW w \in Warps, Invalidate(w)
  PROVE  RingInv'
<1> USE DEF IInv, RingInv, CountsInv
<1> DEFINE o == warp[w].old
<1>1. /\ Become(w, Idle) /\ warp[w].at = "copied"
      /\ front' = front /\ rear' = rear
      /\ list_ptr' = [list_ptr EXCEPT ![Idx(o)] = NoTask]
  BY DEF Invalidate
<1>2. o \in Nat /\ Idx(o) \in Slots /\ list_ptr[Idx(o)] = o /\ o < front
  BY <1>1, Typing, IdxType DEF GetsOwn, ReadersOK, Reading
<1>3. /\ list_ptr'[Idx(o)] = NoTask
      /\ \A t \in Slots : t # Idx(o) => list_ptr'[t] = list_ptr[t]
  BY <1>1, <1>2 DEF TypeOK
<1>4. warp'[w] = Idle /\ \A u \in Warps \ {w} : warp'[u] = warp[u]
  BY <1>1 DEF TypeOK, Become
<1>5. warp[w].todo = {} /\ warp[w].clear = {}
  BY <1>1, NothingTodo
<1>6. \A u \in Warps : /\ Reading(u)' <=> Reading(u) /\ u # w
                       /\ u # w => warp'[u].old = warp[u].old
                       /\ warp'[u].todo = warp[u].todo
                       /\ warp'[u].clear = warp[u].clear
  BY <1>4, <1>5, IdleTodo DEF Reading
<1>7. ReadersOK'
  BY <1>1, <1>6 DEF ReadersOK
<1>8. \A p : ToWrite(p)' <=> ToWrite(p)
  BY <1>6 DEF ToWrite
<1>9. \A p : ToRead(p)' <=> ToRead(p)
  BY <1>1, <1>4, IdleTodo DEF ToRead
<1>10. WritersOK'
  <2>1. \A u \in Warps : \A p \in warp[u].todo : u # w /\ warp'[u] = warp[u]
    BY <1>4, <1>5
  <2>2. \A u \in Warps : \A p \in warp[u].clear :
          p \in Nat /\ Idx(p) \in Slots /\ list_ptr'[Idx(p)] = NoTask
    BY <1>3, Typing, IdxType DEF WritersOK
  <2> QED BY <1>1, <1>6, <1>9, <2>1, <2>2 DEF WritersOK
<1>11. SlotsOK'
  <2> SUFFICES ASSUME NEW t \in Slots, list_ptr'[t] # NoTask
               PROVE  /\ Idx(list_ptr'[t]) = t /\ list_ptr'[t] < rear'
                      /\ \A u \in Warps : list_ptr'[t] \notin warp'[u].todo
                      /\ \/ front' <= list_ptr'[t]
                         \/ \E u \in Warps : Reading(u)' /\ warp'[u].old = list_ptr'[t]
    BY DEF SlotsOK, ToWrite
  <2>1. t # Idx(o) /\ list_ptr'[t] = list_ptr[t] /\ Idx(list_ptr[t]) = t
    BY <1>3 DEF SlotsOK
  <2>2. list_ptr[t] # o
    BY <2>1
  <2>3. \A u \in Warps : list_ptr[t] \notin warp[u].todo
    BY <2>1 DEF SlotsOK, ToWrite
  <2>4. \/ front <= list_ptr[t]
        \/ \E u \in Warps : Reading(u) /\ u # w /\ warp[u].old = list_ptr[t]
    BY <2>1, <2>2 DEF SlotsOK
  <2>5. list_ptr[t] < rear
    BY <2>1 DEF SlotsOK
  <2> QED BY <1>1, <1>6, <2>1, <2>3, <2>4, <2>5
<1>12. PositionsOK'
  <2> SUFFICES ASSUME NEW p \in 0 .. rear - 1, ToRead(p), ~ ToWrite(p)
               PROVE  list_ptr'[Idx(p)] = p
    BY <1>1, <1>8, <1>9 DEF PositionsOK
  <2>1. list_ptr[Idx(p)] = p /\ p \in Nat /\ Idx(p) \in Slots
    BY Typing, IdxType DEF PositionsOK
  <2>2. CASE Idx(p) = Idx(o)
    <3>1. p = o
      BY <1>2, <2>1, <2>2
    <3>2. PICK u \in Warps : warp[u].at = "read" /\ warp[u].old = o
      BY <1>2, <3>1, Typing DEF ToRead
    <3> QED BY <1>1, <3>2 DEF ReadersOK, Reading
  <2>3. CASE Idx(p) # Idx(o)
    BY <1>3, <2>1, <2>3
  <2> QED BY <2>2, <2>3
<1>13. GetsOwn'
  <2> SUFFICES ASSUME NEW u \in Warps, u # w, warp[u].at = "copied"
               PROVE  list_ptr'[Idx(warp[u].old)] = warp[u].old
    BY <1>4, <1>6, IdleTodo DEF GetsOwn
  <2>1. /\ list_ptr[Idx(warp[u].old)] = warp[u].old
        /\ Idx(warp[u].old) \in Slots
    BY Typing, IdxType DEF GetsOwn
  <2>2. warp[u].old # o
    BY <1>1 DEF ReadersOK, Reading
  <2> QED BY <1>2, <1>3, <2>1, <2>2
<1> QED BY <1>7, <1>10, <1>11, <1>12, <1>13

\* A push claims positions.
LEMMA ClaimRoomRing ==
  ASSUME ~overtaken', IInv, CountsInv', NEW w \in Warps, ClaimRoom(w)
  PROVE  RingInv'
<1> USE DEF IInv, RingInv, CountsInv
<1> DEFINE n == warp[w].num
           c == Claim(n)
           s == [warp[w] EXCEPT !.at = "write", !.todo = c]
<1>1. /\ warp[w].at = "pushClaim" /\ n \in Nat /\ n > 0
      /\ rear + n < front + size
      /\ front' = front /\ rear' = rear + n /\ Become(w, s)
      /\ list_ptr' = list_ptr
  <2>1. warp[w].at = "pushClaim" /\ warp[w].old = rear
    BY ClaimsRear DEF ClaimRoom
  <2>2. n \in Nat
    BY SizeType DEF TypeOK, Positions
  <2> QED BY <2>1, <2>2 DEF ClaimRoom, KnownOK
<1>2. \A u \in Warps : \A p \in c : p - size \notin warp[u].todo
  BY ClaimsRear
<1>3. \A p : p \in c <=> p \in Nat /\ rear <= p /\ p < rear + n
  BY <1>1, Typing DEF Claim
<1>4. warp[w].todo = {} /\ warp[w].clear = {}
  BY <1>1, NothingTodo
<1>5. s.at = "write" /\ s.todo = c /\ s.clear = {}
  BY <1>4 DEF TypeOK, Positions
<1> HIDE DEF s, c
<1>6. warp'[w] = s /\ \A u \in Warps \ {w} : warp'[u] = warp[u]
  BY <1>1 DEF TypeOK, Become
<1>7. \A u \in Warps : Reading(u)' <=> Reading(u) /\ u # w
  BY <1>1, <1>5, <1>6 DEF Reading
<1>8. ReadersOK'
  BY <1>1, <1>6, <1>7 DEF ReadersOK
<1>9. \A p : ToWrite(p)' <=> ToWrite(p) \/ p \in c
  BY <1>4, <1>5, <1>6 DEF ToWrite
<1>10. \A p : ToRead(p)' <=> ToRead(p)
  BY <1>1, <1>5, <1>6 DEF ToRead
<1>11. WritersOK'
  <2>1. \A u \in Warps : \A p \in warp'[u].todo :
          /\ warp'[u].at = "write" /\ p < rear'
          /\ rear' <= p + size /\ ToRead(p)'
    <3> SUFFICES ASSUME NEW u \in Warps, NEW p \in warp'[u].todo
                 PROVE  /\ warp'[u].at = "write" /\ p < rear'
                        /\ rear' <= p + size /\ ToRead(p)'
      OBVIOUS
    <3>1. CASE u = w
      <4>1. p \in Nat /\ rear <= p /\ p < rear + n
        BY <1>3, <1>5, <1>6, <3>1
      <4>2. front <= p /\ rear + n <= p + size
        BY <1>1, <4>1, Typing, SizeType DEF Backed, WorkBacked
      <4> QED BY <1>1, <1>5, <1>6, <1>10, <3>1, <4>1, <4>2 DEF ToRead
    <3>2. CASE u # w
      <4>1. p \in warp[u].todo /\ p \in Nat /\ warp'[u] = warp[u]
        BY <1>6, <3>2, Typing
      <4>2. p < rear /\ rear <= p + size /\ warp[u].at = "write" /\ ToRead(p)
        BY <4>1 DEF WritersOK
      <4>3. p + size \notin c
        <5>1. (p + size) - size = p
          BY <4>1, SizeType
        <5> QED BY <1>2, <4>1, <5>1
      <4>4. rear + n <= p + size
        BY <1>1, <1>3, <4>1, <4>2, <4>3, Typing, SizeType
      <4> QED BY <1>1, <1>10, <4>1, <4>2, <4>4, Typing
    <3> QED BY <3>1, <3>2
  <2>2. \A u \in Warps \ {w} : warp[u].todo \cap c = {}
    <3>1. \A u \in Warps \ {w} : \A p \in warp[u].todo : p < rear /\ p \in Nat
      BY Typing DEF WritersOK
    <3> QED BY <1>3, <3>1, Typing
  <2>3. \A u, v \in Warps : \A p \in warp'[u].todo \cap warp'[v].todo : u = v
    BY <1>5, <1>6, <2>2 DEF WritersOK
  <2>4. \A u \in Warps : \A p \in warp'[u].clear :
          p \in warp'[u].todo /\ list_ptr'[Idx(p)] = NoTask
    BY <1>1, <1>5, <1>6 DEF WritersOK
  <2> QED BY <2>1, <2>3, <2>4 DEF WritersOK
<1>12. SlotsOK'
  <2> SUFFICES ASSUME NEW t \in Slots, list_ptr[t] # NoTask
               PROVE  /\ Idx(list_ptr[t]) = t /\ list_ptr[t] < rear'
                      /\ ~ ToWrite(list_ptr[t])'
                      /\ \/ front' <= list_ptr[t]
                         \/ \E u \in Warps : Reading(u)' /\ warp'[u].old = list_ptr[t]
    BY <1>1 DEF SlotsOK
  <2>1. list_ptr[t] \in Nat /\ list_ptr[t] < rear /\ ~ ToWrite(list_ptr[t])
    BY Typing DEF SlotsOK
  <2>2. list_ptr[t] < rear' /\ list_ptr[t] \notin c
    BY <1>1, <1>3, <2>1, Typing
  <2>3. ~ Reading(w)
    BY <1>1 DEF Reading
  <2> QED BY <1>1, <1>6, <1>7, <1>9, <2>1, <2>2, <2>3 DEF SlotsOK
<1>13. PositionsOK'
  <2> SUFFICES ASSUME NEW p \in 0 .. (rear + n) - 1, ToRead(p), ~ ToWrite(p), p \notin c
               PROVE  list_ptr[Idx(p)] = p
    BY <1>1, <1>9, <1>10 DEF PositionsOK
  <2>1. p \in 0 .. rear - 1
    BY <1>1, <1>3, Typing
  <2> QED BY <2>1 DEF PositionsOK
<1>14. GetsOwn'
  BY <1>1, <1>5, <1>6 DEF GetsOwn
<1> QED BY <1>8, <1>11, <1>12, <1>13, <1>14

\* A lane sees its slot clear.
LEMMA SeeClearRing ==
  ASSUME IInv, NEW w \in Warps, NEW p \in warp[w].todo, SeeClear(w, p)
  PROVE  RingInv'
<1> USE DEF IInv, RingInv, CountsInv
<1> DEFINE c == warp[w].clear \cup {p}
           s == [warp[w] EXCEPT !.clear = c]
<1>1. /\ Become(w, s) /\ list_ptr[Idx(p)] = NoTask
      /\ front' = front /\ rear' = rear /\ list_ptr' = list_ptr
  BY DEF SeeClear
<1>2. /\ s.at = warp[w].at /\ s.old = warp[w].old /\ s.todo = warp[w].todo
      /\ s.clear = c
  BY DEF TypeOK, Positions
<1> HIDE DEF s
<1>3. warp'[w] = s /\ \A u \in Warps \ {w} : warp'[u] = warp[u]
  BY <1>1 DEF TypeOK, Become
<1>4. \A u \in Warps : /\ warp'[u].at = warp[u].at
                       /\ warp'[u].old = warp[u].old
                       /\ warp'[u].todo = warp[u].todo
  BY <1>2, <1>3
<1>5. ReadersOK'
  BY <1>1, <1>4 DEF ReadersOK, Reading
<1>6. \A x : (ToWrite(x)' <=> ToWrite(x)) /\ (ToRead(x)' <=> ToRead(x))
  BY <1>1, <1>4 DEF ToWrite, ToRead
<1>7. WritersOK'
  <2>1. \A u \in Warps : \A x \in warp'[u].clear :
          x \in warp[u].todo /\ list_ptr[Idx(x)] = NoTask
    BY <1>1, <1>2, <1>3 DEF WritersOK
  <2> QED BY <1>1, <1>4, <1>6, <2>1 DEF WritersOK
<1>8. SlotsOK'
  BY <1>1, <1>4, <1>6 DEF SlotsOK, Reading
<1>9. PositionsOK'
  BY <1>1, <1>6 DEF PositionsOK
<1>10. GetsOwn'
  BY <1>1, <1>4 DEF GetsOwn
<1> QED BY <1>5, <1>7, <1>8, <1>9, <1>10

\* What a lane's write changes: the position p is no longer to be written, its
\* slot, which was empty, holds it.
LEMMA Written ==
  ASSUME IInv, NEW w \in Warps, NEW p \in warp[w].todo, WriteTask(w, p)
  PROVE  /\ p \in Nat /\ Idx(p) \in Slots /\ p < rear /\ rear <= p + size
         /\ ToRead(p) /\ list_ptr[Idx(p)] = NoTask /\ warp[w].at = "write"
         /\ front' = front /\ rear' = rear /\ list_ptr'[Idx(p)] = p
         /\ \A t \in Slots : t # Idx(p) => list_ptr'[t] = list_ptr[t]
         /\ \A u \in Warps \ {w} : warp'[u] = warp[u] /\ p \notin warp[u].todo
         /\ warp'[w].todo = warp[w].todo \ {p}
         /\ warp'[w].clear = warp[w].clear \ {p}
         /\ warp'[w].at \in {"idle", "write"}
         /\ warp'[w].todo # {} => warp'[w].at = "write"
<1> USE DEF IInv, RingInv, CountsInv
<1> DEFINE d == warp[w].todo \ {p}
           c == warp[w].clear \ {p}
           t == [warp[w] EXCEPT !.todo = d, !.clear = c]
           s == IF warp[w].todo = {p} THEN Idle ELSE t
<1>1. /\ Become(w, s) /\ p \in warp[w].clear
      /\ front' = front /\ rear' = rear /\ warp[w].at = "write"
      /\ list_ptr' = [list_ptr EXCEPT ![Idx(p)] = p]
  BY DEF WriteTask
<1>2. p \in Nat /\ Idx(p) \in Slots /\ warp[w].clear \subseteq warp[w].todo
  BY Typing, IdxType DEF WritersOK
<1>3. /\ p < rear /\ rear <= p + size /\ ToRead(p) /\ list_ptr[Idx(p)] = NoTask
      /\ \A u \in Warps \ {w} : p \notin warp[u].todo
  BY <1>1 DEF WritersOK
<1>4. /\ list_ptr'[Idx(p)] = p
      /\ \A x \in Slots : x # Idx(p) => list_ptr'[x] = list_ptr[x]
  BY <1>1, <1>2 DEF TypeOK
<1>5. t.at = "write" /\ t.todo = d /\ t.clear = c
  BY <1>1 DEF TypeOK, Positions
<1> HIDE DEF t
<1>6. s.todo = d /\ s.clear = c /\ s.at \in {"idle", "write"}
      /\ (d # {} => s.at = "write")
  BY <1>2, <1>5, IdleTodo
<1> HIDE DEF s
<1>7. warp'[w] = s /\ \A u \in Warps \ {w} : warp'[u] = warp[u]
  BY <1>1 DEF TypeOK, Become
<1> QED BY <1>1, <1>2, <1>3, <1>4, <1>6, <1>7

\* A lane writes its task.
LEMMA WriteTaskRing ==
  ASSUME IInv, NEW w \in Warps, NEW p \in warp[w].todo, WriteTask(w, p)
  PROVE  RingInv'
<1> USE DEF IInv, RingInv, CountsInv
<1>1. \A u \in Warps : /\ Reading(u)' <=> Reading(u) /\ u # w
                       /\ u # w => warp'[u].old = warp[u].old
                       /\ warp'[u].todo = warp[u].todo \ {p}
  BY Written DEF Reading
<1>2. ~ Reading(w)
  BY Written DEF Reading
<1>3. ReadersOK'
  BY Written, <1>1 DEF ReadersOK
<1>4. \A x : ToWrite(x)' <=> ToWrite(x) /\ x # p
  BY <1>1 DEF ToWrite
<1>5. \A x : ToRead(x)' <=> ToRead(x)
  BY Written DEF ToRead
<1>6. WritersOK'
  <2>1. \A u \in Warps : \A x \in warp'[u].todo :
          warp'[u].at = "write" /\ x < rear /\ rear <= x + size /\ ToRead(x)
    BY Written, <1>1 DEF WritersOK
  <2>2. \A u \in Warps : \A x \in warp'[u].clear :
          x \in warp[u].clear /\ x # p
    BY Written DEF WritersOK
  <2>3. \A u \in Warps : \A x \in warp'[u].clear :
          x \in warp'[u].todo /\ list_ptr'[Idx(x)] = NoTask
    <3> SUFFICES ASSUME NEW u \in Warps, NEW x \in warp'[u].clear
                 PROVE  x \in warp'[u].todo /\ list_ptr'[Idx(x)] = NoTask
      OBVIOUS
    <3>1. x \in warp[u].todo /\ x # p /\ list_ptr[Idx(x)] = NoTask
      BY <2>2 DEF WritersOK
    <3>2. x \in Nat /\ Idx(x) \in Slots /\ x < rear /\ rear <= x + size
      BY <3>1, Typing, IdxType DEF WritersOK
    <3>3. Idx(x) # Idx(p)
      BY <3>1, <3>2, Written, Typing, SizeType, IdxInjective
    <3> QED BY <1>1, <3>1, <3>2, <3>3, Written
  <2> QED BY Written, <1>1, <1>5, <2>1, <2>3 DEF WritersOK
<1>7. SlotsOK'
  <2> SUFFICES ASSUME NEW t \in Slots, NEW x, x = list_ptr'[t], x # NoTask
               PROVE  /\ Idx(x) = t /\ x < rear /\ ~ ToWrite(x)'
                      /\ \/ front <= x
                         \/ \E u \in Warps : Reading(u)' /\ warp'[u].old = x
    BY Written DEF SlotsOK, ToWrite
  <2>1. CASE t = Idx(p)
    BY <1>1, <1>2, <1>4, <2>1, Written DEF ToRead, Reading
  <2>2. CASE t # Idx(p)
    BY <1>1, <1>2, <1>4, <2>2, Written DEF SlotsOK
  <2> QED BY <2>1, <2>2
<1>8. PositionsOK'
  <2> SUFFICES ASSUME NEW x \in 0 .. rear - 1, ToRead(x), ~ ToWrite(x) \/ x = p
               PROVE  list_ptr'[Idx(x)] = x
    BY Written, <1>4, <1>5 DEF PositionsOK
  <2>1. CASE x = p
    BY <2>1, Written
  <2>2. CASE x # p
    <3>1. list_ptr[Idx(x)] = x /\ x \in Nat /\ Idx(x) \in Slots
      BY <2>2, Typing, IdxType DEF PositionsOK
    <3>2. Idx(x) # Idx(p)
      BY <3>1, Written, SizeType
    <3> QED BY <3>1, <3>2, Written
  <2> QED BY <2>1, <2>2
<1>9. GetsOwn'
  <2> SUFFICES ASSUME NEW u \in Warps, u # w, warp[u].at = "copied"
               PROVE  list_ptr'[Idx(warp[u].old)] = warp[u].old
    BY Written DEF GetsOwn
  <2>1. /\ list_ptr[Idx(warp[u].old)] = warp[u].old
        /\ warp[u].old \in Nat /\ Idx(warp[u].old) \in Slots
    BY Typing, IdxType DEF GetsOwn
  <2>2. Idx(warp[u].old) # Idx(p)
    BY <2>1, Written, SizeType
  <2> QED BY <2>1, <2>2, Written
<1> QED BY <1>3, <1>6, <1>7, <1>8, <1>9

----------------------------------------------------------------------------
\* The invariant holds initially.
LEMMA InitIInv == Init => IInv
<1> SUFFICES ASSUME Init PROVE IInv
  OBVIOUS
<1> USE DEF Init
<1>1. Idle \in Positions
  BY SizeType DEF Idle, Positions
<1>2. \A w \in Warps : warp[w] = Idle
  OBVIOUS
<1>3. TypeOK
  BY <1>1 DEF TypeOK
<1>4. Backed /\ KnownOK
  BY <1>2, IdleTodo, SizeType DEF Backed, WorkBacked, KnownOK
<1>5. ReadersOK /\ WritersOK /\ GetsOwn
  BY <1>2, IdleTodo DEF ReadersOK, Reading, WritersOK, GetsOwn
<1>6. SlotsOK
  BY DEF SlotsOK
<1>7. PositionsOK
  BY DEF PositionsOK
<1> QED BY <1>3, <1>4, <1>5, <1>6, <1>7 DEF IInv, CountsInv, RingInv

\* The steps of get keep the ring.
LEMMA GetRing ==
  ASSUME ~overtaken', IInv, NEW w \in Warps, Get(w)
  PROVE  RingInv'
<1>1. CASE ReadFront(w)
  <2> DEFINE s == [Idle EXCEPT !.at = "gotFront", !.old = front]
  <2>1. s.at = "gotFront" /\ s.todo = {} /\ s.clear = {}
    BY DEF Idle
  <2>2. /\ Become(w, s) /\ UNCHANGED <<front, rear, list_ptr>>
        /\ warp[w].at \in {"idle", "get"}
    BY <1>1 DEF ReadFront
  <2> HIDE DEF s
  <2> QED BY <2>1, <2>2, Quiet
<1>2. CASE ReadRear(w)
  <2> DEFINE k == Least(Idx(Idx(rear) + size - Idx(warp[w].old)), 1)
             t == [warp[w] EXCEPT !.at = "claim", !.num = k]
             s == IF k = 0 THEN Idle ELSE t
  <2>1. /\ Become(w, s) /\ UNCHANGED <<front, rear, list_ptr>>
        /\ warp[w].at = "gotFront"
    BY <1>2 DEF ReadRear
  <2> HIDE DEF k
  <2>2. t.at = "claim" /\ t.todo = {} /\ t.clear = {}
    BY <2>1, NothingTodo DEF IInv, CountsInv, RingInv, TypeOK, Positions
  <2> HIDE DEF t
  <2>3. s.at \in {"idle", "claim"} /\ s.todo = {} /\ s.clear = {}
    BY <2>2, IdleTodo
  <2> HIDE DEF s
  <2> QED BY <2>1, <2>3, Quiet
<1>3. CASE MissWork(w)
  <2> DEFINE s == [Idle EXCEPT !.at = "get"]
  <2>1. s.at = "get" /\ s.todo = {} /\ s.clear = {}
    BY DEF Idle
  <2>2. /\ Become(w, s) /\ UNCHANGED <<front, rear, list_ptr>>
        /\ warp[w].at = "claim"
    BY <1>3 DEF MissWork
  <2> HIDE DEF s
  <2> QED BY <2>1, <2>2, Quiet
<1> QED BY <1>1, <1>2, <1>3, ClaimWorkRing, CopyTaskRing, InvalidateRing DEF Get

\* The steps of push_works keep the ring.
LEMMA PushRing ==
  ASSUME ~overtaken', IInv, CountsInv', NEW w \in Warps, Push(w)
  PROVE  RingInv'
<1>1. CASE \E n \in 1 .. MaxPush : PushReadRear(w, n)
  <2>1. PICK n \in 1 .. MaxPush : PushReadRear(w, n)
    BY <1>1
  <2> DEFINE s == [Idle EXCEPT !.at = "pushRear", !.old = rear, !.want = n]
  <2>2. s.at = "pushRear" /\ s.todo = {} /\ s.clear = {}
    BY DEF Idle
  <2>3. /\ Become(w, s) /\ UNCHANGED <<front, rear, list_ptr>>
        /\ warp[w].at \in {"idle", "push"}
    BY <2>1 DEF PushReadRear
  <2> HIDE DEF s
  <2> QED BY <2>2, <2>3, Quiet
<1>2. CASE PushReadFront(w)
  <2> DEFINE k == Least(size - 1 - Idx(Idx(warp[w].old) - Idx(front) + size),
                        warp[w].want)
             t == [warp[w] EXCEPT !.at = "pushClaim", !.num = k]
             s == IF k = 0 THEN Idle ELSE t
  <2>1. /\ Become(w, s) /\ UNCHANGED <<front, rear, list_ptr>>
        /\ warp[w].at = "pushRear"
    BY <1>2 DEF PushReadFront
  <2> HIDE DEF k
  <2>2. t.at = "pushClaim" /\ t.todo = {} /\ t.clear = {}
    BY <2>1, NothingTodo DEF IInv, CountsInv, RingInv, TypeOK, Positions
  <2> HIDE DEF t
  <2>3. s.at \in {"idle", "pushClaim"} /\ s.todo = {} /\ s.clear = {}
    BY <2>2, IdleTodo
  <2> HIDE DEF s
  <2> QED BY <2>1, <2>3, Quiet
<1>3. CASE MissRoom(w)
  <2> DEFINE s == [warp[w] EXCEPT !.at = "push"]
  <2>1. /\ Become(w, s) /\ UNCHANGED <<front, rear, list_ptr>>
        /\ warp[w].at = "pushClaim"
    BY <1>3 DEF MissRoom
  <2>2. s.at = "push" /\ s.todo = {} /\ s.clear = {}
    BY <2>1, NothingTodo DEF IInv, CountsInv, RingInv, TypeOK, Positions
  <2> HIDE DEF s
  <2> QED BY <2>1, <2>2, Quiet
<1> QED BY <1>1, <1>2, <1>3, ClaimRoomRing, SeeClearRing, WriteTaskRing DEF Push

\* The invariant is inductive.
LEMMA NextIInv == ~overtaken' /\ IInv /\ [Next]_vars => IInv'
<1> SUFFICES ASSUME ~overtaken', IInv, [Next]_vars PROVE IInv'
  OBVIOUS
<1>1. ASSUME NEW w \in Warps, Get(w) PROVE IInv'
  BY <1>1, GetCounts, GetRing DEF IInv
<1>2. ASSUME NEW w \in Warps, Push(w) PROVE IInv'
  BY <1>2, PushCounts, PushRing DEF IInv
<1>3. CASE UNCHANGED vars
  <2> USE <1>3 DEF vars
  <2>1. CountsInv'
    BY DEF IInv, CountsInv, TypeOK, Backed, WorkBacked, KnownOK
  <2>2. ReadersOK'
    BY DEF IInv, RingInv, ReadersOK, Reading
  <2>3. WritersOK'
    BY DEF IInv, RingInv, WritersOK, ToRead
  <2>4. SlotsOK'
    BY DEF IInv, RingInv, SlotsOK, ToWrite, Reading
  <2>5. PositionsOK'
    BY DEF IInv, RingInv, PositionsOK, ToRead, ToWrite
  <2>6. GetsOwn'
    BY DEF IInv, RingInv, GetsOwn
  <2> QED BY <2>1, <2>2, <2>3, <2>4, <2>5, <2>6 DEF IInv, RingInv
<1> QED BY <1>1, <1>2, <1>3 DEF Next

\* What has been overtaken stays overtaken.
LEMMA OvertakenStays == overtaken /\ [Next]_vars => overtaken'
<1> SUFFICES ASSUME overtaken, Next PROVE overtaken'
  BY DEF vars
<1>1. ASSUME NEW w \in Warps, Get(w) PROVE overtaken'
  BY <1>1 DEF Get, ReadFront, ReadRear, ClaimWork, MissWork, CopyTask, Invalidate
<1>2. ASSUME NEW w \in Warps, Push(w) PROVE overtaken'
  BY <1>2 DEF Push, PushReadRear, PushReadFront, ClaimRoom, MissRoom, SeeClear,
              WriteTask
<1> QED BY <1>1, <1>2 DEF Next

\* The inductive invariant: until the ring turns past a call, each task is where
\* its position says.
THEOREM RingExact == Spec => [](overtaken \/ IInv)
<1>1. (overtaken \/ IInv) /\ [Next]_vars => (overtaken \/ IInv)'
  BY NextIInv, OvertakenStays
<1> QED BY <1>1, InitIInv, PTL DEF Spec

\* Until the ring turns past a call, a compare-and-swap that succeeds never
\* claims a position too many, whatever the warp read of the other end before:
\* neither a get, nor a push.
THEOREM ClaimsExact == Spec => []ClaimsBacked
<1>1. overtaken \/ IInv => ClaimsBacked
  BY DEF IInv, CountsInv, ClaimsBacked
<1> QED BY <1>1, RingExact, PTL

\* Until the ring turns past a call, a get returns what was pushed to the
\* position it claimed: the list is first in, first out.
THEOREM FirstInFirstOut == Spec => []InOrder
<1>1. overtaken \/ IInv => InOrder
  BY DEF IInv, RingInv, InOrder
<1> QED BY <1>1, RingExact, PTL

----------------------------------------------------------------------------
(* WorkList implements Pool.                                               *)

\* A task accepted: it is to be written, or is in its slot and not copied.
In(x) ==
  \/ ToWrite(x)
  \/ /\ list_ptr[Idx(x)] = x
     /\ \A w \in Warps : warp[w].at = "copied" => warp[w].old # x

\* Inside is what In says.
LEMMA InsideIs == IInv => Inside = {x \in Nat : In(x)}
<1> SUFFICES ASSUME IInv PROVE Inside = {x \in Nat : In(x)}
  OBVIOUS
<1> USE DEF IInv, CountsInv, RingInv
<1>1. Copied = {warp[w].old : w \in {u \in Warps : warp[u].at = "copied"}}
  BY DEF Copied, GetsOwn
<1>2. \A x : x \in UNION {warp[w].todo : w \in Warps} <=> x \in Nat /\ ToWrite(x)
  BY Typing DEF ToWrite
<1>3. \A x : x \in {list_ptr[s] : s \in Slots} \ {NoTask}
             <=> x \in Nat /\ list_ptr[Idx(x)] = x
  <2>1. ASSUME NEW s \in Slots, list_ptr[s] # NoTask
        PROVE  list_ptr[s] \in Nat /\ list_ptr[Idx(list_ptr[s])] = list_ptr[s]
    BY <2>1, Typing DEF SlotsOK
  <2>2. ASSUME NEW x \in Nat, list_ptr[Idx(x)] = x
        PROVE  x # NoTask /\ Idx(x) \in Slots
    BY <2>2, TaskSlot
  <2> QED BY <2>1, <2>2
<1> QED BY <1>1, <1>2, <1>3 DEF Inside, In

\* What is inside is of the past, and has not been taken.
TakenOK == \A x \in taken : x < rear /\ ~ In(x)

\* What is inside was pushed before.
LEMMA InPast ==
  ASSUME IInv, NEW x \in Nat, In(x)
  PROVE  x < rear
<1> USE DEF IInv, CountsInv, RingInv
<1>1. CASE ToWrite(x)
  BY <1>1 DEF ToWrite, WritersOK
<1>2. CASE list_ptr[Idx(x)] = x
  <2>1. Idx(x) \in Slots /\ list_ptr[Idx(x)] # NoTask
    BY <1>2, TaskSlot
  <2>2. list_ptr[Idx(x)] < rear
    BY <2>1 DEF SlotsOK
  <2> QED BY <1>2, <2>2
<1> QED BY <1>1, <1>2 DEF In

\* What each step does to the tasks inside.
GetsOne(w) ==
  LET o == warp[w].old
  IN  /\ In(o) /\ taken' = taken \cup {o} /\ rear' = rear
      /\ \A x \in Nat : In(x)' <=> In(x) /\ x # o

Accepts(c) ==
  /\ \A x \in c : rear <= x /\ x < rear'
  /\ taken' = taken /\ rear <= rear' /\ \A x \in Nat : In(x)' <=> In(x) \/ x \in c

\* A step that touches no slot and begins no write changes nothing inside.
LEMMA QuietIn ==
  ASSUME IInv, NEW w \in Warps, NEW s, Become(w, s),
         UNCHANGED <<list_ptr, taken>>, s.todo = warp[w].todo,
         warp[w].at # "copied", s.at # "copied", rear' = rear
  PROVE  Accepts({})
<1>1. warp'[w] = s /\ \A u \in Warps \ {w} : warp'[u] = warp[u]
  BY DEF IInv, CountsInv, TypeOK, Become
<1>2. \A x : ToWrite(x)' <=> ToWrite(x)
  BY <1>1 DEF ToWrite
<1>3. \A x : In(x)' <=> In(x)
  BY <1>1, <1>2 DEF In
<1>4. rear \in Nat
  BY Typing DEF IInv, CountsInv
<1> QED BY <1>3, <1>4 DEF Accepts

\* A step of get takes one task out, or none.
LEMMA GetIn ==
  ASSUME ~overtaken', IInv, NEW w \in Warps, Get(w)
  PROVE  Accepts({}) \/ GetsOne(w)
<1> USE DEF IInv, CountsInv, RingInv
<1>1. CASE ReadFront(w)
  <2> DEFINE s == [Idle EXCEPT !.at = "gotFront", !.old = front]
  <2>1. s.at = "gotFront" /\ s.todo = {}
    BY DEF Idle
  <2>2. /\ Become(w, s) /\ UNCHANGED <<rear, list_ptr, taken>>
        /\ warp[w].at \in {"idle", "get"}
    BY <1>1 DEF ReadFront
  <2> HIDE DEF s
  <2> QED BY <2>1, <2>2, QuietIn, NothingTodo
<1>2. CASE ReadRear(w)
  <2> DEFINE k == Least(Idx(Idx(rear) + size - Idx(warp[w].old)), 1)
             t == [warp[w] EXCEPT !.at = "claim", !.num = k]
             s == IF k = 0 THEN Idle ELSE t
  <2>1. /\ Become(w, s) /\ UNCHANGED <<rear, list_ptr, taken>>
        /\ warp[w].at = "gotFront"
    BY <1>2 DEF ReadRear
  <2> HIDE DEF k
  <2>2. t.at = "claim" /\ t.todo = {}
    BY <2>1, NothingTodo DEF TypeOK, Positions
  <2> HIDE DEF t
  <2>3. s.at \in {"idle", "claim"} /\ s.todo = {}
    BY <2>2, IdleTodo
  <2> HIDE DEF s
  <2> QED BY <2>1, <2>3, QuietIn, NothingTodo
<1>3. CASE ClaimWork(w)
  <2> DEFINE s == [warp[w] EXCEPT !.at = "read", !.old = front]
  <2>1. /\ Become(w, s) /\ UNCHANGED <<rear, list_ptr, taken>>
        /\ warp[w].at = "claim"
    BY <1>3 DEF ClaimWork
  <2>2. s.at = "read" /\ s.todo = warp[w].todo
    BY DEF TypeOK, Positions
  <2> HIDE DEF s
  <2> QED BY <2>1, <2>2, QuietIn
<1>4. CASE MissWork(w)
  <2> DEFINE s == [Idle EXCEPT !.at = "get"]
  <2>1. s.at = "get" /\ s.todo = {}
    BY DEF Idle
  <2>2. /\ Become(w, s) /\ UNCHANGED <<rear, list_ptr, taken>>
        /\ warp[w].at = "claim"
    BY <1>4 DEF MissWork
  <2> HIDE DEF s
  <2> QED BY <2>1, <2>2, QuietIn, NothingTodo
<1>5. CASE CopyTask(w)
  <2> DEFINE s == [warp[w] EXCEPT !.at = "copied"]
             o == warp[w].old
  <2>1. /\ Become(w, s) /\ warp[w].at = "read" /\ list_ptr[Idx(o)] # NoTask
        /\ list_ptr' = list_ptr /\ taken' = taken \cup {list_ptr[Idx(o)]}
        /\ rear' = rear
    BY <1>5 DEF CopyTask
  <2>2. list_ptr[Idx(o)] = o
    BY <2>1, Found
  <2>3. s.at = "copied" /\ s.old = o /\ s.todo = warp[w].todo
    BY DEF TypeOK, Positions
  <2> HIDE DEF s
  <2>4. warp'[w] = s /\ \A u \in Warps \ {w} : warp'[u] = warp[u]
    BY <2>1 DEF TypeOK, Become
  <2>5. \A x : ToWrite(x)' <=> ToWrite(x)
    BY <2>3, <2>4 DEF ToWrite
  <2>6. o \in Nat /\ Idx(o) \in Slots
    BY Typing, IdxType
  <2>7. ~ ToWrite(o)
    BY <2>1, <2>2, <2>6 DEF SlotsOK
  <2>8. \A u \in Warps : warp[u].at = "copied" => warp[u].old # o
    BY <2>1 DEF ReadersOK, Reading
  <2>9. In(o)
    BY <2>2, <2>8 DEF In
  <2>10. \A x : In(x)' <=> In(x) /\ x # o
    BY <2>1, <2>3, <2>4, <2>5, <2>7 DEF In
  <2> QED BY <2>1, <2>2, <2>9, <2>10 DEF GetsOne
<1>6. CASE Invalidate(w)
  <2> DEFINE o == warp[w].old
  <2>1. /\ Become(w, Idle) /\ warp[w].at = "copied"
        /\ rear' = rear /\ taken' = taken
        /\ list_ptr' = [list_ptr EXCEPT ![Idx(o)] = NoTask]
    BY <1>6 DEF Invalidate
  <2>2. o \in Nat /\ Idx(o) \in Slots /\ list_ptr[Idx(o)] = o
    BY <2>1, Typing, IdxType DEF GetsOwn
  <2>3. /\ list_ptr'[Idx(o)] = NoTask
        /\ \A t \in Slots : t # Idx(o) => list_ptr'[t] = list_ptr[t]
    BY <2>1, <2>2 DEF TypeOK
  <2>4. warp'[w] = Idle /\ \A u \in Warps \ {w} : warp'[u] = warp[u]
    BY <2>1 DEF TypeOK, Become
  <2>5. \A x : ToWrite(x)' <=> ToWrite(x)
    BY <2>1, <2>4, NothingTodo, IdleTodo DEF ToWrite
  <2>6. ASSUME NEW x \in Nat PROVE In(x)' <=> In(x)
    <3>1. Idx(x) \in Slots /\ x # NoTask
      BY TaskSlot
    <3>2. CASE x = o
      BY <2>1, <2>2, <2>3, <2>5, <3>1, <3>2 DEF In
    <3>3. CASE x # o
      <4>1. list_ptr'[Idx(x)] = x <=> list_ptr[Idx(x)] = x
        BY <2>2, <2>3, <3>1, <3>3
      <4>2. (\A u \in Warps : warp'[u].at = "copied" => warp'[u].old # x)
              <=> \A u \in Warps : warp[u].at = "copied" => warp[u].old # x
        BY <2>4, <3>3, IdleTodo
      <4> QED BY <2>5, <4>1, <4>2 DEF In
    <3> QED BY <3>2, <3>3
  <2>7. rear \in Nat
    BY Typing
  <2> QED BY <2>1, <2>6, <2>7 DEF Accepts
<1> QED BY <1>1, <1>2, <1>3, <1>4, <1>5, <1>6 DEF Get

\* A step of push_works puts in what it claims, or nothing.
LEMMA PushIn ==
  ASSUME ~overtaken', IInv, NEW w \in Warps, Push(w)
  PROVE  Accepts({}) \/ Accepts(Claim(warp[w].num))
<1> USE DEF IInv, CountsInv, RingInv
<1>0. rear \in Nat
  BY Typing
<1>1. CASE \E n \in 1 .. MaxPush : PushReadRear(w, n)
  <2>1. PICK n \in 1 .. MaxPush : PushReadRear(w, n)
    BY <1>1
  <2> DEFINE s == [Idle EXCEPT !.at = "pushRear", !.old = rear, !.want = n]
  <2>2. s.at = "pushRear" /\ s.todo = {}
    BY DEF Idle
  <2>3. /\ Become(w, s) /\ UNCHANGED <<rear, list_ptr, taken>>
        /\ warp[w].at \in {"idle", "push"}
    BY <2>1 DEF PushReadRear
  <2> HIDE DEF s
  <2> QED BY <2>2, <2>3, QuietIn, NothingTodo
<1>2. CASE PushReadFront(w)
  <2> DEFINE k == Least(size - 1 - Idx(Idx(warp[w].old) - Idx(front) + size),
                        warp[w].want)
             t == [warp[w] EXCEPT !.at = "pushClaim", !.num = k]
             s == IF k = 0 THEN Idle ELSE t
  <2>1. /\ Become(w, s) /\ UNCHANGED <<rear, list_ptr, taken>>
        /\ warp[w].at = "pushRear"
    BY <1>2 DEF PushReadFront
  <2> HIDE DEF k
  <2>2. t.at = "pushClaim" /\ t.todo = {}
    BY <2>1, NothingTodo DEF TypeOK, Positions
  <2> HIDE DEF t
  <2>3. s.at \in {"idle", "pushClaim"} /\ s.todo = {}
    BY <2>2, IdleTodo
  <2> HIDE DEF s
  <2> QED BY <2>1, <2>3, QuietIn, NothingTodo
<1>3. CASE ClaimRoom(w)
  <2> DEFINE n == warp[w].num
             c == Claim(n)
             s == [warp[w] EXCEPT !.at = "write", !.todo = c]
  <2>1. /\ Become(w, s) /\ warp[w].at = "pushClaim" /\ n \in Nat
        /\ rear' = rear + n /\ list_ptr' = list_ptr /\ taken' = taken
    BY <1>3, SizeType DEF ClaimRoom, TypeOK, Positions
  <2>2. \A x \in c : rear <= x /\ x < rear'
    BY <1>0, <2>1 DEF Claim
  <2> HIDE DEF c
  <2>3. s.at = "write" /\ s.todo = c
    BY DEF TypeOK, Positions
  <2> HIDE DEF s
  <2>4. warp'[w] = s /\ \A u \in Warps \ {w} : warp'[u] = warp[u]
    BY <2>1 DEF TypeOK, Become
  <2>5. \A x : ToWrite(x)' <=> ToWrite(x) \/ x \in c
    BY <2>1, <2>3, <2>4, NothingTodo DEF ToWrite
  <2>6. \A x : In(x)' <=> In(x) \/ x \in c
    BY <2>1, <2>3, <2>4, <2>5 DEF In
  <2>7. Accepts(c)
    BY <1>0, <2>1, <2>2, <2>6 DEF Accepts
  <2> QED BY <2>7 DEF c
<1>4. CASE MissRoom(w)
  <2> DEFINE s == [warp[w] EXCEPT !.at = "push"]
  <2>1. /\ Become(w, s) /\ UNCHANGED <<rear, list_ptr, taken>>
        /\ warp[w].at = "pushClaim"
    BY <1>4 DEF MissRoom
  <2>2. s.at = "push" /\ s.todo = warp[w].todo
    BY DEF TypeOK, Positions
  <2> HIDE DEF s
  <2> QED BY <2>1, <2>2, QuietIn
<1>5. ASSUME NEW p \in warp[w].todo, SeeClear(w, p)
      PROVE  Accepts({})
  <2> DEFINE c == warp[w].clear \cup {p}
             s == [warp[w] EXCEPT !.clear = c]
  <2>1. /\ Become(w, s) /\ UNCHANGED <<rear, list_ptr, taken>>
        /\ warp[w].at = "write"
    BY <1>5 DEF SeeClear
  <2> HIDE DEF c
  <2>2. s.at = warp[w].at /\ s.todo = warp[w].todo
    BY DEF TypeOK, Positions
  <2> HIDE DEF s
  <2> QED BY <2>1, <2>2, QuietIn
<1>6. ASSUME NEW p \in warp[w].todo, WriteTask(w, p)
      PROVE  Accepts({})
  <2>1. taken' = taken
    BY <1>6 DEF WriteTask
  <2>2. \A u \in Warps : /\ warp'[u].at = "copied" <=> warp[u].at = "copied"
                         /\ warp[u].at = "copied" => warp'[u].old = warp[u].old
                         /\ warp'[u].todo = warp[u].todo \ {p}
    BY <1>6, Written
  <2>3. \A x : ToWrite(x)' <=> ToWrite(x) /\ x # p
    BY <2>2 DEF ToWrite
  <2>4. ~ \E u \in Warps : warp[u].at = "copied" /\ warp[u].old = p
    BY <1>6, Written, SizeType DEF GetsOwn
  <2>5. ASSUME NEW x \in Nat PROVE In(x)' <=> In(x)
    <3>1. CASE x = p
      <4>1. In(p)
        BY <1>6 DEF In, ToWrite
      <4>2. In(p)'
        BY <1>6, <2>2, <2>4, Written DEF In
      <4> QED BY <3>1, <4>1, <4>2
    <3>2. CASE x # p
      <4>1. Idx(x) \in Slots /\ x # NoTask
        BY TaskSlot
      <4>2. list_ptr'[Idx(x)] = x <=> list_ptr[Idx(x)] = x
        BY <1>6, <3>2, <4>1, Written
      <4> QED BY <2>2, <2>3, <3>2, <4>2 DEF In
    <3> QED BY <3>1, <3>2
  <2> QED BY <1>0, <1>6, <2>1, <2>5, Written DEF Accepts
<1> QED BY <1>1, <1>2, <1>3, <1>4, <1>5, <1>6 DEF Push

\* So does every step.
LEMMA StepIn ==
  ASSUME ~overtaken', IInv, Next
  PROVE  (\E c : Accepts(c)) \/ \E w \in Warps : GetsOne(w)
BY GetIn, PushIn DEF Next

\* TakenOK is inductive.
LEMMA NextTakenOK ==
  ASSUME ~overtaken', IInv, IInv', TakenOK, [Next]_vars
  PROVE  TakenOK'
<1>0. /\ rear \in Nat /\ rear' \in Nat
      /\ taken \in SUBSET Nat /\ taken' \in SUBSET Nat
  BY DEF IInv, CountsInv, TypeOK
<1>1. CASE UNCHANGED vars
  BY <1>1 DEF vars, TakenOK, In, ToWrite
<1>2. ASSUME NEW c, Accepts(c) PROVE TakenOK'
  BY <1>0, <1>2 DEF Accepts, TakenOK
<1>3. ASSUME NEW w \in Warps, GetsOne(w) PROVE TakenOK'
  <2> DEFINE o == warp[w].old
  <2>1. o \in Nat /\ o < rear
    BY <1>3, Typing, InPast DEF GetsOne, IInv, CountsInv
  <2> QED BY <1>0, <1>3, <2>1 DEF GetsOne, TakenOK
<1> QED BY <1>1, <1>2, <1>3, StepIn

\* A step is a step of Pool or stutters.
LEMMA StepImplements ==
  ASSUME ~overtaken', IInv, IInv', TakenOK, Next,
         Inside = {x \in Nat : In(x)}, Inside' = {x \in Nat : In(x)'}
  PROVE  Tasks!PoolNext \/ UNCHANGED Tasks!poolVars
<1>0. taken \in SUBSET Nat
  BY DEF IInv, CountsInv, TypeOK
<1>1. ASSUME NEW c, Accepts(c)
      PROVE  Tasks!PoolNext \/ UNCHANGED Tasks!poolVars
  <2>1. taken' = taken /\ \A x \in Inside : x \in Inside'
    BY <1>1 DEF Accepts
  <2>2. ASSUME NEW x \in Inside' PROVE x \notin taken
    BY <1>0, <1>1, Typing DEF Accepts, TakenOK, IInv, CountsInv
  <2>3. CASE Inside' = Inside
    BY <2>1, <2>3 DEF Tasks!poolVars
  <2>4. CASE Inside' # Inside
    BY <2>1, <2>2, <2>4 DEF Tasks!PoolNext, Tasks!Put
  <2> QED BY <2>3, <2>4
<1>2. ASSUME NEW w \in Warps, GetsOne(w)
      PROVE  Tasks!PoolNext \/ UNCHANGED Tasks!poolVars
  <2>1. warp[w].old \in Inside
    BY <1>2, Typing DEF GetsOne, IInv, CountsInv
  <2>2. Inside' = Inside \ {warp[w].old} /\ taken' = taken \cup {warp[w].old}
    BY <1>2 DEF GetsOne
  <2> QED BY <2>1, <2>2 DEF Tasks!PoolNext, Tasks!TakeOut
<1> QED BY <1>1, <1>2, StepIn

\* Until the ring turns past a call, a task pushed is returned by one get: the
\* work list implements Pool.
THEOREM Implements == Spec => KeepsTasks
<1>1. Init => TakenOK /\ Tasks!PoolInit
  <2> SUFFICES ASSUME Init PROVE TakenOK /\ Tasks!PoolInit
    OBVIOUS
  <2>1. taken = {} /\ IInv
    BY InitIInv DEF Init
  <2>2. Inside = {}
    <3>1. \A w \in Warps : warp[w].todo = {}
      BY IdleTodo DEF Init
    <3>2. \A s \in Slots : list_ptr[s] = NoTask
      BY DEF Init
    <3> QED BY <3>1, <3>2 DEF Inside
  <2> QED BY <2>1, <2>2 DEF TakenOK, Tasks!PoolInit
<1>2. ASSUME IInv PROVE Inside = {x \in Nat : In(x)}
  BY <1>2, InsideIs
<1>3. (IInv => Inside = {x \in Nat : In(x)})'
  BY InsideIs, PTL
<1>4. ASSUME IInv, IInv', TakenOK, ~overtaken', [Next]_vars
      PROVE  TakenOK' /\ [Tasks!PoolNext]_(Tasks!poolVars)
  <2>1. Inside' = {x \in Nat : In(x)'}
    BY <1>3, <1>4
  <2>2. Inside = {x \in Nat : In(x)}
    BY <1>2, <1>4
  <2>3. TakenOK'
    BY <1>4, NextTakenOK
  <2>4. CASE Next
    BY <1>4, <2>1, <2>2, <2>3, <2>4, StepImplements
  <2>5. CASE UNCHANGED vars
    BY <2>3, <2>5 DEF vars, Tasks!poolVars, Inside, Copied
  <2> QED BY <1>4, <2>4, <2>5
<1>5. /\ overtaken \/ (IInv /\ TakenOK)
      /\ (overtaken \/ IInv)' /\ [Next]_vars
      => /\ (overtaken \/ (IInv /\ TakenOK))'
         /\ [overtaken' \/ Tasks!PoolNext]_(Tasks!poolVars)
  BY <1>4, OvertakenStays
<1> QED BY <1>1, <1>5, InitIInv, RingExact, PTL DEF Spec, KeepsTasks

----------------------------------------------------------------------------
(* A list that holds all tasks of a run does not turn.                     *)

FitsInv == IInv /\ ~overtaken /\ rear <= MaxTasks

\* Two positions of the first turn that have the same slot are the same.
LEMMA FirstTurn ==
  ASSUME NEW p \in Nat, NEW q \in Nat, p < size, q < size, Swaps(p, q)
  PROVE  p = q
<1>1. p < q + size /\ q < p + size
  BY SizeType
<1> QED BY <1>1, IdxInjective DEF Swaps

\* Nobody is overtaken in the first turn.
LEMMA NextFits ==
  ASSUME MaxTasks < size, FitsInv, [Next]_vars
  PROVE  FitsInv'
<1>0. /\ MaxTasks \in Nat /\ front \in Nat /\ rear \in Nat
      /\ front <= rear /\ rear < size /\ front < size
      /\ \A u \in Warps : warp[u].old \in Nat /\ warp[u].todo \in SUBSET Nat
  BY ListAssumption, Typing, SizeType
     DEF FitsInv, IInv, CountsInv, Backed, WorkBacked
<1>1. ASSUME NEW w \in Warps, Get(w) PROVE ~overtaken' /\ rear' <= MaxTasks
  <2>1. CASE ClaimWork(w)
    <3>1. warp[w].old <= front /\ warp[w].old < size
      BY <1>0, <2>1, SizeType DEF ClaimWork, KnownOK, FitsInv, IInv, CountsInv
    <3>2. warp[w].old = front
      BY <1>0, <2>1, <3>1, FirstTurn DEF ClaimWork
    <3>3. ~ StillRead(front - size)
      BY <1>0, SizeType DEF StillRead
    <3> QED BY <2>1, <3>2, <3>3 DEF ClaimWork, FitsInv
  <2>2. CASE ~ ClaimWork(w)
    BY <1>1, <2>2 DEF Get, ReadFront, ReadRear, MissWork, CopyTask, Invalidate, FitsInv
  <2> QED BY <2>1, <2>2
<1>2. ASSUME NEW w \in Warps, Push(w) PROVE ~overtaken' /\ rear' <= MaxTasks
  <2>1. CASE ClaimRoom(w)
    <3>1. warp[w].old <= rear /\ warp[w].old < size /\ warp[w].num \in Nat
      BY <1>0, <2>1, SizeType
         DEF ClaimRoom, KnownOK, FitsInv, IInv, CountsInv, TypeOK, Positions
    <3>2. warp[w].old = rear
      BY <1>0, <2>1, <3>1, FirstTurn DEF ClaimRoom
    <3>3. rear' = rear + warp[w].num /\ rear' <= MaxTasks
      BY <2>1 DEF ClaimRoom
    <3>4. \A p \in Claim(warp[w].num) : p \in Nat /\ p < size
      BY <1>0, <3>1, <3>3, SizeType DEF Claim
    <3>5. \A p \in Claim(warp[w].num) : ~ StillWritten(p - size)
      <4> SUFFICES ASSUME NEW p \in Claim(warp[w].num) PROVE ~ StillWritten(p - size)
        OBVIOUS
      <4>1. p - size \notin Nat
        BY <3>4, SizeType
      <4> QED BY <1>0, <4>1 DEF StillWritten
    <3> QED BY <2>1, <3>2, <3>3, <3>5 DEF ClaimRoom, FitsInv
  <2>2. CASE ~ ClaimRoom(w)
    <3>1. UNCHANGED <<rear, overtaken>>
      BY <1>2, <2>2 DEF Push, PushReadRear, PushReadFront, MissRoom, SeeClear,
                        WriteTask
    <3> QED BY <3>1 DEF FitsInv
  <2> QED BY <2>1, <2>2
<1>3. ASSUME UNCHANGED vars PROVE ~overtaken' /\ rear' <= MaxTasks
  BY <1>3 DEF vars, FitsInv
<1>4. ~overtaken' /\ rear' <= MaxTasks
  BY <1>1, <1>2, <1>3 DEF Next, FitsInv
<1>5. IInv'
  BY <1>4, NextIInv DEF FitsInv
<1> QED BY <1>4, <1>5 DEF FitsInv

\* If no more tasks are pushed than fit into the list, no call is overtaken,
\* however long it is held up.
THEOREM FitsNotOvertaken == ASSUME MaxTasks < size PROVE Spec => []~overtaken
<1>1. Init => FitsInv
  BY InitIInv, ListAssumption DEF Init, FitsInv
<1>2. FitsInv /\ [Next]_vars => FitsInv'
  BY NextFits
<1>3. FitsInv => ~overtaken
  BY DEF FitsInv
<1> QED BY <1>1, <1>2, <1>3, PTL DEF Spec

\* Such a list is a Pool in every interleaving.
THEOREM FitsImplements == ASSUME MaxTasks < size PROVE Spec => Tasks!PoolSpec
<1>1. ~overtaken' /\ [overtaken' \/ Tasks!PoolNext]_(Tasks!poolVars)
        => [Tasks!PoolNext]_(Tasks!poolVars)
  OBVIOUS
<1> QED BY <1>1, FitsNotOvertaken, Implements, PTL DEF KeepsTasks, Tasks!PoolSpec
=============================================================================
