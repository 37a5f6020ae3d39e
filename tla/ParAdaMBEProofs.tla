-------------------------- MODULE ParAdaMBEProofs --------------------------
(***************************************************************************)
(* ParAdaMBE finds each maximal biclique above the thresholds once and     *)
(* counts it once, for any number of threads and any interleaving, on any  *)
(* graph in Reorder's order without large twins; and its threads never     *)
(* wait for an index.                                                      *)
(*                                                                         *)
(* The first part is about the index pool.  What a thread holds follows    *)
(* from where it is in the code: Holds.  The second is about what is found:*)
(* the roots that Execute has not come to, the tasks in the group and the  *)
(* threads share out what is still to be found (SharedBy), and every step  *)
(* moves a part of it from one to another or counts it (EInv).             *)
(* AdaNodesProofs has what one step of an activation does.  The third is   *)
(* the schedule: each step is one of ParTasks.                             *)
(***************************************************************************)
EXTENDS ParAdaMBE, AdaNodesProofs, TLAPS

----------------------------------------------------------------------------
(* The index pool.                                                         *)

\* Where a thread can be, and where it has an index between AcquireFreeIdx and
\* FreeIdx.
Places == {"idle", "root", "small", "bits", "move", "set", "fork", "free"}
Holding == {"root", "small", "set", "fork", "free"}

Holds(w) == IF w.st \in Holding THEN 1 ELSE 0

Placed(w) == "st" \in DOMAIN w /\ w.st \in Places

TypedTasks == \A q \in queue : q.kind \in {"root", "set"}

IInv ==
  /\ DOMAIN work = Threads /\ DOMAIN held = Threads
  /\ \A t \in Threads : Placed(work[t]) /\ held[t] = Holds(work[t])
  /\ TypedTasks

----------------------------------------------------------------------------
\* A step of the thread t from work[t] to w that acquires or frees as w says.
LEMMA Moves ==
  ASSUME IInv, NEW t \in Threads, NEW w, Placed(w), Become(t, w), TypedTasks',
         held' = [held EXCEPT ![t] = Holds(w)]
  PROVE  IInv'
BY DEF IInv, Become

\* A step that leaves the pool alone.
LEMMA Stays ==
  ASSUME IInv, NEW t \in Threads, NEW w, Placed(w), Become(t, w), TypedTasks',
         Holds(w) = Holds(work[t]), held' = held
  PROVE  IInv'
BY DEF IInv, Become

\* Continue and Call change the activations only.
LEMMA StackOnly ==
  ASSUME IInv, NEW t \in Threads, NEW s, Become(t, [work[t] EXCEPT !.stack = s]),
         queue' = queue, held' = held
  PROVE  IInv'
<1>1. Placed([work[t] EXCEPT !.stack = s])
      /\ [work[t] EXCEPT !.stack = s].st = work[t].st
  BY DEF IInv, Placed
<1>2. TypedTasks'
  BY DEF IInv, TypedTasks
<1> QED BY <1>1, <1>2, Stays DEF Holds

\* The steps of Execute on the main thread spawn root tasks only.
LEMMA MainKeeps == IInv /\ MainStep => IInv'
BY DEF IInv, MainStep, Check, Look, CountRoot, RunRoot, LoopEnds, WaitReturns,
       TypedTasks, RootTask, Placed, Holds

\* The steps between a task's beginning and its biclique_find.
LEMMA RootKeeps ==
  ASSUME IInv, NEW t \in Threads,
         \/ \E q \in queue : Take(t, q)
         \/ SmallRoot(t) \/ ExpandBitRoot(t) \/ LargeRoot(t) \/ MoveRoot(t)
  PROVE  IInv'
<1> USE DEF Placed, Places, Holds, Holding
<1>0. Placed(work[t]) /\ held[t] = Holds(work[t]) /\ TypedTasks
  BY DEF IInv
<1>1. CASE \E q \in queue : Take(t, q)
  <2>1. PICK q \in queue : Take(t, q)
    BY <1>1
  <2> DEFINE w == [Idle EXCEPT !.st = q.kind, !.v = q.v, !.stack = q.frame]
  <2>2. q.kind \in {"root", "set"} /\ TypedTasks'
    BY <2>1 DEF IInv, TypedTasks, Take
  <2>3. Placed(w) /\ Holds(w) = 1
    BY <2>2 DEF Idle
  <2>4. Become(t, w)
    BY <2>1 DEF Take
  <2>5. held' = [held EXCEPT ![t] = @ + 1]
    BY <2>1 DEF Take
  <2>6. work[t] = Idle
    BY <2>1 DEF Take
  <2>7. Idle.st = "idle"
    BY DEF Idle
  <2>8. work[t].st = "idle"
    BY <2>6, <2>7
  <2>9. Holds(work[t]) = 0
    BY <2>8
  <2>10. held[t] = 0
    BY <1>0, <2>9
  <2> HIDE DEF w, Placed, Holds
  <2>11. held' = [held EXCEPT ![t] = Holds(w)]
    BY <2>3, <2>10, <2>5
  <2> QED BY <2>2, <2>3, <2>4, <2>11, Moves
<1>2. CASE SmallRoot(t)
  <2> DEFINE w == [work[t] EXCEPT !.st = "small"]
  <2>1. Placed(w) /\ Holds(w) = Holds(work[t]) /\ Become(t, w) /\ held' = held
    BY <1>0, <1>2 DEF SmallRoot
  <2>2. TypedTasks'
    BY <1>0, <1>2 DEF SmallRoot, TypedTasks
  <2> HIDE DEF w, Placed, Holds
  <2> QED BY <2>1, <2>2, Stays
<1>3. CASE ExpandBitRoot(t)
  <2> DEFINE w == [work[t] EXCEPT !.st = "bits",
                                  !.stack = <<BitRoot(work[t].v)>>]
  <2>1. Placed(w) /\ Holds(w) = 0 /\ Become(t, w)
    BY <1>0, <1>3 DEF ExpandBitRoot
  <2>2. held[t] = 1
    BY <1>0, <1>3 DEF ExpandBitRoot
  <2>3. held' = [held EXCEPT ![t] = Holds(w)]
    BY <1>3, <2>1, <2>2 DEF ExpandBitRoot
  <2>4. TypedTasks'
    BY <1>0, <1>3 DEF ExpandBitRoot, TypedTasks
  <2> HIDE DEF w, Placed, Holds
  <2> QED BY <2>1, <2>3, <2>4, Moves
<1>4. CASE LargeRoot(t)
  <2> DEFINE w == [work[t] EXCEPT !.st = "move",
                                  !.stack = <<SetRoot(work[t].v)>>]
  <2>1. Placed(w) /\ Holds(w) = 0 /\ Become(t, w)
    BY <1>0, <1>4 DEF LargeRoot
  <2>2. held[t] = 1
    BY <1>0, <1>4 DEF LargeRoot
  <2>3. held' = [held EXCEPT ![t] = Holds(w)]
    BY <1>4, <2>1, <2>2 DEF LargeRoot
  <2>4. TypedTasks'
    BY <1>0, <1>4 DEF LargeRoot, TypedTasks
  <2> HIDE DEF w, Placed, Holds
  <2> QED BY <2>1, <2>3, <2>4, Moves
<1>5. CASE MoveRoot(t)
  <2> DEFINE w == [work[t] EXCEPT !.st = "set"]
  <2>1. Placed(w) /\ Holds(w) = 1 /\ Become(t, w)
    BY <1>0, <1>5 DEF MoveRoot
  <2>2. held[t] = 0
    BY <1>0, <1>5 DEF MoveRoot
  <2>3. held' = [held EXCEPT ![t] = Holds(w)]
    BY <1>5, <2>1, <2>2 DEF MoveRoot
  <2>4. TypedTasks'
    BY <1>0, <1>5 DEF MoveRoot, TypedTasks
  <2> HIDE DEF w, Placed, Holds
  <2> QED BY <2>1, <2>4, <2>3, Moves
<1> QED BY <1>1, <1>2, <1>3, <1>4, <1>5

\* Expanding candidates and returning: the thread's own activations.
LEMMA SearchKeeps ==
  ASSUME IInv, NEW t \in Threads,
         \/ SkipCandidate(t) \/ NotMaximal(t) \/ SmallCandidate(t) \/ Entry(t)
         \/ SerialChild(t) \/ Return(t)
  PROVE  IInv'
<1>1. queue' = queue /\ held' = held
  BY DEF SkipCandidate, NotMaximal, SmallCandidate, Entry, SerialChild, Return,
         Private
<1>2. \E s : Become(t, [work[t] EXCEPT !.stack = s])
  BY DEF SkipCandidate, NotMaximal, SmallCandidate, Entry, SerialChild, Return,
         Continue, Call
<1> QED BY <1>1, <1>2, StackOnly

\* A child is forked or kept; the parent keeps its index.
LEMMA ForkKeeps ==
  ASSUME IInv, NEW t \in Threads, CountChild(t) \/ RunChild(t) \/ KeepChild(t)
  PROVE  IInv'
<1> USE DEF Placed, Places, Holds, Holding
<1>0. Placed(work[t]) /\ TypedTasks
  BY DEF IInv
<1>1. held' = held
  BY DEF CountChild, RunChild, KeepChild
<1>2. TypedTasks'
  BY <1>0 DEF CountChild, RunChild, KeepChild, TypedTasks, SetTask
<1>3. \E w : Placed(w) /\ Holds(w) = Holds(work[t]) /\ Become(t, w)
  <2>1. CASE CountChild(t)
    <3> DEFINE w == [work[t] EXCEPT !.st = "fork", !.child = <<SetChild(Top(t))>>,
                                    !.stack = <<Consumed(Top(t))>>]
    <3>1. Placed(w) /\ Holds(w) = Holds(work[t])
      BY <1>0, <2>1 DEF CountChild, IsLarge, On
    <3>2. Become(t, w)
      BY <2>1 DEF CountChild
    <3> QED BY <3>1, <3>2
  <2>2. CASE RunChild(t)
    <3> DEFINE w == [work[t] EXCEPT !.st = "set", !.child = <<>>]
    <3>1. Placed(w) /\ Holds(w) = Holds(work[t])
      BY <1>0, <2>2 DEF RunChild
    <3>2. Become(t, w)
      BY <2>2 DEF RunChild
    <3> QED BY <3>1, <3>2
  <2>3. CASE KeepChild(t)
    <3> DEFINE w == [work[t] EXCEPT !.st = "set", !.child = <<>>,
                                    !.stack = @ \o work[t].child]
    <3>1. Placed(w) /\ Holds(w) = Holds(work[t])
      BY <1>0, <2>3 DEF KeepChild
    <3>2. Become(t, w)
      BY <2>3 DEF KeepChild
    <3> QED BY <3>1, <3>2
  <2> QED BY <2>1, <2>2, <2>3
<1> HIDE DEF Placed, Holds
<1> QED BY <1>1, <1>2, <1>3, Stays

\* A task ends; biclique_find frees its index, a small root has done so.
LEMMA EndKeeps ==
  ASSUME IInv, NEW t \in Threads, EndSet(t) \/ FreeAtEnd(t) \/ EndBits(t)
  PROVE  IInv'
<1> USE DEF Placed, Places, Holds, Holding
<1>0. Placed(work[t]) /\ held[t] = Holds(work[t]) /\ TypedTasks
  BY DEF IInv
<1>1. TypedTasks'
  BY <1>0 DEF EndSet, FreeAtEnd, EndBits, Private, TypedTasks
<1>2. CASE EndSet(t)
  <2>1. Placed([Idle EXCEPT !.st = "free"])
        /\ Holds([Idle EXCEPT !.st = "free"]) = Holds(work[t])
    BY <1>0, <1>2 DEF EndSet, Idle
  <2>2. Become(t, [Idle EXCEPT !.st = "free"]) /\ held' = held
    BY <1>2 DEF EndSet
  <2> HIDE DEF Placed, Holds
  <2> QED BY <1>1, <2>1, <2>2, Stays
<1>3. CASE FreeAtEnd(t)
  <2>1. Placed(Idle) /\ Holds(Idle) = 0 /\ Become(t, Idle)
    BY <1>3 DEF FreeAtEnd, Idle
  <2>2. held[t] = 1
    BY <1>0, <1>3 DEF FreeAtEnd
  <2>3. held' = [held EXCEPT ![t] = @ - 1]
    BY <1>3 DEF FreeAtEnd
  <2> HIDE DEF Placed, Holds
  <2>4. held' = [held EXCEPT ![t] = Holds(Idle)]
    BY <2>1, <2>2, <2>3
  <2> QED BY <1>1, <2>1, <2>4, Moves
<1>4. CASE EndBits(t)
  <2>1. Placed(Idle) /\ Holds(Idle) = Holds(work[t])
    BY <1>0, <1>4 DEF EndBits, Idle
  <2>2. Become(t, Idle) /\ held' = held
    BY <1>4 DEF EndBits, Private
  <2> HIDE DEF Placed, Holds
  <2> QED BY <1>1, <2>1, <2>2, Stays
<1> QED BY <1>2, <1>3, <1>4

\* At any time a thread holds one index if its place is one of Holding, and
\* none otherwise.
THEOREM HeldExact == ParSpec => []IInv
<1>1. InitState => IInv
  BY DEF InitState, IInv, Placed, Places, Holds, Holding, Idle, TypedTasks
<1>2. IInv /\ [Next]_vars => IInv'
  <2> SUFFICES ASSUME IInv, [Next]_vars PROVE IInv'
    OBVIOUS
  <2>1. CASE MainStep
    BY <2>1, MainKeeps
  <2>2. CASE \E t \in Threads : TaskStep(t)
    BY <2>2, RootKeeps, SearchKeeps, ForkKeeps, EndKeeps DEF TaskStep
  <2>3. CASE UNCHANGED vars
    BY <2>3 DEF vars, IInv, TypedTasks, Placed, Holds
  <2> QED BY <2>1, <2>2, <2>3 DEF Next, Stopped
<1> QED BY <1>1, <1>2, PTL DEF ParSpec

\* No thread ever holds two indices, and one without a task holds none.
THEOREM OneEach == ParSpec => []OneIndexEach
<1>1. IInv => OneIndexEach
  BY DEF IInv, OneIndexEach, Holds, Holding, Placed
<1> QED BY <1>1, HeldExact, PTL

\* A thread that is about to ask for an index, at the beginning of a task or of
\* biclique_find, always finds one: AcquireFreeIdx never has to wait.
NeverWaits ==
  \A t \in Threads : work[t].st \in {"idle", "move"} => CanAcquire

\* NeverWaits holds always.
THEOREM IndexFree == ParSpec => []NeverWaits
<1>1. IInv => NeverWaits
  BY DEF IInv, NeverWaits, CanAcquire, Holds, Holding, Placed
<1> QED BY <1>1, HeldExact, PTL

----------------------------------------------------------------------------
(* What is to be found, and by whom.                                       *)

\* The L sides of the maximal bicliques with no vertex before r, and of those
\* that begin with r.
From(r) == TodoFrom(graph_, min_l_size_, r)
RootShare(r) == From(r) \ From(r + 1)

\* What is to be found by a task, and by a thread.
TaskShare(q) ==
  (IF q.kind = "root" THEN RootShare(q.v) ELSE {}) \cup Belows(q.frame)
Share(w) ==
  (IF w.st \in {"root", "small"} THEN RootShare(w.v) ELSE {})
    \cup Belows(w.stack) \cup Belows(w.child)

\* No biclique is to be found by two of the roots that the main loop has not come
\* to, r and those after it, the tasks K and the threads, which do W.
Separate(r, K, W) ==
  /\ \A q \in K : TaskShare(q) \cap From(r) = {}
  /\ \A t \in Threads : Share(W[t]) \cap From(r) = {}
  /\ \A p, q \in K : p # q => TaskShare(p) \cap TaskShare(q) = {}
  /\ \A t, u \in Threads : t # u => Share(W[t]) \cap Share(W[u]) = {}
  /\ \A q \in K, t \in Threads : TaskShare(q) \cap Share(W[t]) = {}

\* One of them has to find T's biclique.
IsLeft(T, r, K, W) ==
  \/ T \in From(r)
  \/ \E q \in K : T \in TaskShare(q)
  \/ \E t \in Threads : T \in Share(W[t])

\* They share out the set P.
SharedBy(P, r, K, W) == Separate(r, K, W) /\ \A T : T \in P <=> IsLeft(T, r, K, W)

\* A thread finds S, or nothing.
LEMMA ThreadFinds ==
  ASSUME NEW r, NEW K, NEW W, DOMAIN W = Threads, NEW P, SharedBy(P, r, K, W),
         NEW t \in Threads, NEW w, NEW S, S \subseteq Share(W[t]),
         Share(w) = Share(W[t]) \ S, NEW X, X = [W EXCEPT ![t] = w]
  PROVE  SharedBy(P \ S, r, K, X)
<1>1. \A u \in Threads : Share(X[u]) = IF u = t THEN Share(W[t]) \ S ELSE Share(W[u])
  OBVIOUS
<1>2. Separate(r, K, W) /\ \A T : T \in P <=> IsLeft(T, r, K, W)
  BY DEF SharedBy
<1>3. Separate(r, K, X)
  <2>1. \A u \in Threads : Share(X[u]) \subseteq Share(W[u])
    BY <1>1
  <2> HIDE <1>1
  <2> QED BY <1>2, <2>1 DEF Separate
<1>4. /\ S \cap From(r) = {}
      /\ \A q \in K : S \cap TaskShare(q) = {}
      /\ \A u \in Threads : u # t => S \cap Share(W[u]) = {}
  BY <1>2 DEF Separate
<1>5. ASSUME NEW T PROVE T \in P \ S <=> IsLeft(T, r, K, X)
  <2>1. T \in S => T \in Share(W[t])
    OBVIOUS
  <2>2. (\E u \in Threads : T \in Share(X[u]))
          <=> (\E u \in Threads : T \in Share(W[u])) /\ T \notin S
    BY <1>1, <1>4
  <2>3. T \in P <=> IsLeft(T, r, K, W)
    BY <1>2
  <2> QED BY <1>4, <2>2, <2>3 DEF IsLeft
<1> QED BY <1>3, <1>5 DEF SharedBy

\* A thread with nothing to find takes a task.
LEMMA ThreadTakes ==
  ASSUME NEW r, NEW K, NEW W, DOMAIN W = Threads, NEW P, SharedBy(P, r, K, W),
         NEW t \in Threads, NEW q \in K, NEW w, Share(W[t]) = {},
         Share(w) = TaskShare(q), NEW X, X = [W EXCEPT ![t] = w], NEW L, L = K \ {q}
  PROVE  SharedBy(P, r, L, X)
<1>1. \A u \in Threads : Share(X[u]) = IF u = t THEN TaskShare(q) ELSE Share(W[u])
  OBVIOUS
<1>2. Separate(r, K, W) /\ \A T : T \in P <=> IsLeft(T, r, K, W)
  BY DEF SharedBy
<1>3. Separate(r, L, X)
  <2>1. \A p \in L : p \in K /\ p # q
    OBVIOUS
  <2>2. \A p \in L : TaskShare(p) \cap From(r) = {}
    BY <1>2 DEF Separate
  <2>3. \A u \in Threads : Share(X[u]) \cap From(r) = {}
    BY <1>1, <1>2 DEF Separate
  <2>4. \A p, o \in L : p # o => TaskShare(p) \cap TaskShare(o) = {}
    BY <1>2 DEF Separate
  <2>5. \A u, x \in Threads : u # x => Share(X[u]) \cap Share(X[x]) = {}
    BY <1>1, <1>2 DEF Separate
  <2>6. \A p \in L, u \in Threads : TaskShare(p) \cap Share(X[u]) = {}
    BY <1>1, <1>2, <2>1 DEF Separate
  <2> QED BY <2>2, <2>3, <2>4, <2>5, <2>6 DEF Separate
<1>4. ASSUME NEW T PROVE T \in P <=> IsLeft(T, r, L, X)
  <2>1. (\E p \in K : T \in TaskShare(p))
          <=> T \in TaskShare(q) \/ \E p \in L : T \in TaskShare(p)
    OBVIOUS
  <2>2. (\E u \in Threads : T \in Share(X[u]))
          <=> T \in TaskShare(q) \/ \E u \in Threads : T \in Share(W[u])
    BY <1>1
  <2>3. T \in P <=> IsLeft(T, r, K, W)
    BY <1>2
  <2> QED BY <2>1, <2>2, <2>3 DEF IsLeft
<1> QED BY <1>3, <1>4 DEF SharedBy

\* A thread gives a part of what it has to find to a task.
LEMMA ThreadGives ==
  ASSUME NEW r, NEW K, NEW W, DOMAIN W = Threads, NEW P, SharedBy(P, r, K, W),
         NEW t \in Threads, NEW q, NEW w,
         Share(W[t]) = Share(w) \cup TaskShare(q), Share(w) \cap TaskShare(q) = {},
         NEW X, X = [W EXCEPT ![t] = w], NEW L, L = K \cup {q}
  PROVE  SharedBy(P, r, L, X)
<1>1. \A u \in Threads : Share(X[u]) = IF u = t THEN Share(w) ELSE Share(W[u])
  OBVIOUS
<1>2. Separate(r, K, W) /\ \A T : T \in P <=> IsLeft(T, r, K, W)
  BY DEF SharedBy
<1>3. Separate(r, L, X)
  <2>0. /\ TaskShare(q) \subseteq Share(W[t])
        /\ \A u \in Threads : Share(X[u]) \subseteq Share(W[u])
    BY <1>1
  <2>1. \A p \in L : TaskShare(p) \cap From(r) = {}
    BY <1>2, <2>0 DEF Separate
  <2>2. \A u \in Threads : Share(X[u]) \cap From(r) = {}
    BY <1>2, <2>0 DEF Separate
  <2>3. \A p \in K : TaskShare(p) \cap TaskShare(q) = {}
    BY <1>2, <2>0 DEF Separate
  <2>4. \A p, o \in L : p # o => TaskShare(p) \cap TaskShare(o) = {}
    BY <1>2, <2>3 DEF Separate
  <2>5. \A u, x \in Threads : u # x => Share(X[u]) \cap Share(X[x]) = {}
    BY <1>2, <2>0 DEF Separate
  <2>6. \A u \in Threads : TaskShare(q) \cap Share(X[u]) = {}
    BY <1>1, <1>2, <2>0 DEF Separate
  <2>7. \A p \in L, u \in Threads : TaskShare(p) \cap Share(X[u]) = {}
    BY <1>2, <2>0, <2>6 DEF Separate
  <2> QED BY <2>1, <2>2, <2>4, <2>5, <2>7 DEF Separate
<1>4. ASSUME NEW T PROVE T \in P <=> IsLeft(T, r, L, X)
  <2>1. (\E p \in L : T \in TaskShare(p))
          <=> T \in TaskShare(q) \/ \E p \in K : T \in TaskShare(p)
    OBVIOUS
  <2>2. T \in TaskShare(q) \/ (\E u \in Threads : T \in Share(X[u]))
          <=> \E u \in Threads : T \in Share(W[u])
    BY <1>1
  <2>3. T \in P <=> IsLeft(T, r, K, W)
    BY <1>2
  <2> QED BY <2>1, <2>2, <2>3 DEF IsLeft
<1> QED BY <1>3, <1>4 DEF SharedBy

\* What begins with a later vertex does not begin with an earlier one.
LEMMA FromLater ==
  ASSUME InputOK, NEW r \in Nat, NEW n, n = r + 1
  PROVE  From(n) \subseteq From(r)
<1>1. \A x \in Nat : n <= x => r <= x
  OBVIOUS
<1>2. PICK m \in Nat : DOMAIN graph_ = 0 .. m - 1
  BY DEF InputOK, IsGraph
<1>3. \A T : \A x \in CommonR(graph_, T) : x \in Nat
  BY <1>2, InCommonR
<1> QED BY <1>1, <1>3 DEF From, TodoFrom

\* The main loop gives what begins with r to a task.
LEMMA RootGiven ==
  ASSUME InputOK, NEW r \in Nat, NEW K, NEW W, NEW P, SharedBy(P, r, K, W),
         NEW q, TaskShare(q) = RootShare(r), NEW L, L = K \cup {q},
         NEW n, n = r + 1
  PROVE  SharedBy(P, n, L, W)
<1>1. From(n) \subseteq From(r)
  BY FromLater
<1>2. From(r) = From(n) \cup TaskShare(q) /\ From(n) \cap TaskShare(q) = {}
  BY <1>1 DEF RootShare
<1>3. Separate(r, K, W) /\ \A T : T \in P <=> IsLeft(T, r, K, W)
  BY DEF SharedBy
<1>4. Separate(n, L, W)
  <2> DEFINE a == From(r)
             b == From(n)
  <2>1. \A p \in L : TaskShare(p) \cap b = {}
    BY <1>2, <1>3 DEF Separate
  <2>2. \A u \in Threads : Share(W[u]) \cap b = {} /\ Share(W[u]) \cap TaskShare(q) = {}
    BY <1>2, <1>3 DEF Separate
  <2>3. \A p \in K : TaskShare(p) \cap TaskShare(q) = {}
    BY <1>2, <1>3 DEF Separate
  <2>4. \A p, o \in L : p # o => TaskShare(p) \cap TaskShare(o) = {}
    BY <1>3, <2>3 DEF Separate
  <2>5. \A p \in L, u \in Threads : TaskShare(p) \cap Share(W[u]) = {}
    BY <1>3, <2>2 DEF Separate
  <2>6. \A t, u \in Threads : t # u => Share(W[t]) \cap Share(W[u]) = {}
    BY <1>3 DEF Separate
  <2> QED BY <2>1, <2>2, <2>4, <2>5, <2>6 DEF Separate
<1>5. ASSUME NEW T PROVE T \in P <=> IsLeft(T, n, L, W)
  <2>1. (\E p \in L : T \in TaskShare(p))
          <=> T \in TaskShare(q) \/ \E p \in K : T \in TaskShare(p)
    OBVIOUS
  <2>2. T \in P <=> IsLeft(T, r, K, W)
    BY <1>3
  <2>3. T \in From(r) <=> T \in From(n) \/ T \in TaskShare(q)
    BY <1>2
  <2> QED BY <2>1, <2>2, <2>3 DEF IsLeft
<1> QED BY <1>4, <1>5 DEF SharedBy

----------------------------------------------------------------------------
(* What is counted.                                                        *)

\* The bicliques of S that are counted.
Known(S) == {Biclique(T) : T \in Counted(S)}

\* The bicliques f, n in number, are those known when P is still to be found.
Settled(P, f, n) ==
  /\ f = Known(All \ P)
  /\ IsFiniteSet(f) /\ n = Cardinality(f)

\* One wanted biclique more is found and counted, or none.
Counts(f0, n0, f1, n1) ==
  \/ f1 = f0 /\ n1 = n0
  \/ (\E b \in wanted \ f0 : f1 = f0 \cup {b}) /\ n1 = n0 + 1

\* The biclique with the L side T is counted: one more if R is large enough.
LEMMA Counting ==
  ASSUME wanted = Known(All),
         NEW P, NEW P2, NEW T, T \in P, T \in All, P2 = P \ {T},
         NEW f0, NEW n0, Settled(P, f0, n0),
         NEW R, R = CommonR(graph_, T),
         NEW f1, f1 = f0 \cup Result(T, R),
         NEW n1, n1 = n0 + Cardinality(Result(T, R))
  PROVE  Settled(P2, f1, n1) /\ Counts(f0, n0, f1, n1)
<1>0. f0 = Known(All \ P) /\ IsFiniteSet(f0) /\ n0 = Cardinality(f0)
  BY DEF Settled
<1>1. All \ P2 = (All \ P) \cup {T}
  OBVIOUS
<1>2. CASE T \in Counted({T})
  <2> DEFINE b == Biclique(T)
  <2>1. Result(T, R) = {b}
    BY <1>2 DEF Counted, Result, Biclique
  <2>2. Counted(All \ P2) = Counted(All \ P) \cup {T}
    BY <1>1, <1>2 DEF Counted
  <2>3. f1 = Known(All \ P2)
    BY <1>0, <2>1, <2>2 DEF Known
  <2>4. b \notin f0
    BY <1>0 DEF Known, Counted, Biclique
  <2>5. b \in wanted
    BY <1>2 DEF Known, Counted
  <2>6. n1 = n0 + 1
    BY <2>1, FS_Singleton
  <2>7. IsFiniteSet(f1) /\ Cardinality(f1) = Cardinality(f0) + 1
    BY <1>0, <2>1, <2>4, FS_AddElement
  <2> HIDE DEF b
  <2> QED BY <1>0, <2>1, <2>3, <2>4, <2>5, <2>6, <2>7 DEF Counts, Settled
<1>3. CASE T \notin Counted({T})
  <2>1. Result(T, R) = {}
    BY <1>3 DEF Counted, Result
  <2>2. Counted(All \ P2) = Counted(All \ P)
    BY <1>1, <1>3 DEF Counted
  <2>3. n0 \in Nat
    BY <1>0, FS_CardinalityType
  <2>4. n1 = n0
    BY <2>1, <2>3, FS_EmptySet
  <2> QED BY <1>0, <2>1, <2>2, <2>4 DEF Known, Counts, Settled
<1> QED BY <1>2, <1>3

----------------------------------------------------------------------------
(* The account that the threads keep together.                             *)

\* A vertex that the main loop makes a task of.
Expanded(u) == u \in DOMAIN graph_ /\ ~Passed(graph_, min_l_size_, u)

\* A task is at a vertex before r, or at an activation.
TaskOK(q, r) ==
  \/ \E u \in 0 .. r - 1 : q = RootTask(u) /\ Expanded(u)
  \/ \E f : q = SetTask(f) /\ Frame(f)

\* What a thread works on: nothing, a vertex before r, or its activations.
WorkOK(w, r) ==
  /\ w = [st |-> w.st, v |-> w.v, stack |-> w.stack, child |-> w.child]
  /\ w.st \in {"idle", "root", "small", "bits", "move", "set", "fork", "free"}
  /\ w.st \in {"idle", "free"} => w.stack = <<>>
  /\ w.st = "idle" => w = Idle
  /\ w.st \in {"root", "small", "move"} => w.v \in 0 .. r - 1 /\ Expanded(w.v)
  /\ w.st \in {"root", "small"} => w.stack = <<>>
  /\ w.st = "small" => Cardinality(graph_[w.v]) <= NN
  /\ w.st = "move" => Cardinality(graph_[w.v]) > NN
  /\ w.st \in {"bits", "move", "set", "fork"} =>
       Activations(w.stack) /\ Apart(w.stack) /\ w.stack # <<>>
  /\ w.st # "fork" => w.child = <<>>
  /\ w.st = "fork" =>
       \E f, g : /\ w.stack = <<f>> /\ w.child = <<g>>
                 /\ Frame(g) /\ Below(f) \cap Below(g) = {}

\* The vertices whose lists are moved away, or are about to be.
Leaving(W, M) == M \cup {W[t].v : t \in {t \in Threads : W[t].st = "move"}}

\* A large root is counted before its list is moved away.
MovedOK(r, W, M, P) ==
  \A u \in Leaving(W, M) : /\ u \in 0 .. r - 1
                           /\ Cardinality(graph_[u]) > NN
                           /\ graph_[u] \notin P

\* The main loop, at m, is at the vertex r.
LoopOK(m, r, K, W) ==
  /\ m \in {"check", "look", "count", "run", "wait", "done"}
  /\ r \in Nat
  /\ m \in {"look", "count", "run"} => r < RSize
  /\ m \in {"count", "run"} => Expanded(r)
  /\ m \in {"wait", "done"} => r = RSize
  /\ m = "done" => K = {} /\ \A t \in Threads : W[t] = Idle

\* Each biclique is counted, or is to be found by one root, task or thread.
Account(m, r, K, W, M, f, n) ==
  /\ LoopOK(m, r, K, W)
  /\ DOMAIN W = Threads /\ \A t \in Threads : WorkOK(W[t], r)
  /\ \A q \in K : TaskOK(q, r)
  /\ \E P : SharedBy(P, r, K, W) /\ MovedOK(r, W, M, P) /\ Settled(P, f, n)

\* The graph is one that BiGraph and Reorder have made, without two vertices of R
\* that share a list of more than NN.
InputsOK ==
  /\ InputOK /\ Ordered(graph_)
  /\ RSize = Cardinality(DOMAIN graph_)
  /\ \A r \in DOMAIN graph_ :
       r > 0 /\ graph_[r] = graph_[r - 1] => Cardinality(graph_[r]) <= NN
  /\ wanted = Known(All)

EInv ==
  /\ InputsOK
  /\ Account(main, v, queue, work, moved, found, maximal_nodes_)

----------------------------------------------------------------------------
(* What a step of a thread does to the account.                            *)

\* A thread finds S, or nothing.
LEMMA Finds ==
  ASSUME NEW m, m # "done", NEW r, NEW K, NEW W, NEW M, NEW f, NEW n,
         LoopOK(m, r, K, W), DOMAIN W = Threads,
         \A t \in Threads : WorkOK(W[t], r), \A q \in K : TaskOK(q, r),
         NEW P, SharedBy(P, r, K, W), MovedOK(r, W, M, P),
         NEW t \in Threads, NEW w, WorkOK(w, r),
         NEW S, S \subseteq Share(W[t]), Share(w) = Share(W[t]) \ S,
         NEW X, X = [W EXCEPT ![t] = w],
         NEW N, N \subseteq Leaving(W, M),
         w.st = "move" => graph_[w.v] \in S,
         NEW f1, NEW n1, Settled(P \ S, f1, n1)
  PROVE  Account(m, r, K, X, N, f1, n1)
<1>1. SharedBy(P \ S, r, K, X)
  BY ThreadFinds
<1>2. \A u \in Threads : X[u] = IF u = t THEN w ELSE W[u]
  OBVIOUS
<1>3. \A u \in Threads : WorkOK(X[u], r)
  BY <1>2
<1>4. LoopOK(m, r, K, X)
  BY DEF LoopOK
<1>5. MovedOK(r, X, N, P \ S)
  <2> SUFFICES ASSUME NEW u \in Leaving(X, N)
               PROVE  /\ u \in 0 .. r - 1
                      /\ Cardinality(graph_[u]) > NN
                      /\ graph_[u] \notin P \ S
    BY DEF MovedOK
  <2>1. CASE u \in Leaving(W, M)
    BY <2>1 DEF MovedOK
  <2>2. CASE u \notin Leaving(W, M)
    <3>1. PICK x \in Threads : X[x].st = "move" /\ u = X[x].v
      BY <2>2 DEF Leaving
    <3>2. x = t
      BY <1>2, <2>2, <3>1 DEF Leaving
    <3>3. w.st = "move" /\ u = w.v
      BY <1>2, <3>1, <3>2
    <3> QED BY <3>3 DEF WorkOK
  <2> QED BY <2>1, <2>2
<1> QED BY <1>1, <1>3, <1>4, <1>5 DEF Account

\* A thread without work takes a task.
LEMMA Takes ==
  ASSUME NEW m, m # "done", NEW r, NEW K, NEW W, NEW M, NEW f, NEW n,
         Account(m, r, K, W, M, f, n),
         NEW t \in Threads, W[t] = Idle, NEW q \in K,
         NEW w, WorkOK(w, r), Share(w) = TaskShare(q), w.st # "move",
         NEW X, X = [W EXCEPT ![t] = w], NEW L, L = K \ {q}
  PROVE  Account(m, r, L, X, M, f, n)
<1>0. DOMAIN W = Threads /\ \A u \in Threads : WorkOK(W[u], r)
  BY DEF Account
<1>1. PICK P : SharedBy(P, r, K, W) /\ MovedOK(r, W, M, P) /\ Settled(P, f, n)
  BY DEF Account
<1>2. Share(W[t]) = {}
  BY EmptyStack DEF Share, Idle
<1>3. SharedBy(P, r, L, X)
  BY <1>0, <1>1, <1>2, ThreadTakes
<1>4. \A u \in Threads : X[u] = IF u = t THEN w ELSE W[u]
  BY <1>0
<1>5. \A u \in Threads : WorkOK(X[u], r)
  BY <1>0, <1>4
<1>6. LoopOK(m, r, L, X)
  BY DEF LoopOK, Account
<1>7. MovedOK(r, X, M, P)
  <2>1. Leaving(X, M) \subseteq Leaving(W, M)
    BY <1>4 DEF Leaving
  <2> QED BY <1>1, <2>1 DEF MovedOK
<1>8. DOMAIN X = Threads /\ \A p \in L : TaskOK(p, r)
  BY <1>0 DEF Account
<1> QED BY <1>1, <1>3, <1>5, <1>6, <1>7, <1>8 DEF Account

\* A thread gives a child to a task.
LEMMA Gives ==
  ASSUME NEW m, m # "done", NEW r, NEW K, NEW W, NEW M, NEW f, NEW n,
         Account(m, r, K, W, M, f, n),
         NEW t \in Threads, NEW q, TaskOK(q, r),
         NEW w, WorkOK(w, r), w.st # "move",
         Share(W[t]) = Share(w) \cup TaskShare(q), Share(w) \cap TaskShare(q) = {},
         NEW X, X = [W EXCEPT ![t] = w], NEW L, L = K \cup {q}
  PROVE  Account(m, r, L, X, M, f, n)
<1>0. DOMAIN W = Threads /\ \A u \in Threads : WorkOK(W[u], r)
  BY DEF Account
<1>1. PICK P : SharedBy(P, r, K, W) /\ MovedOK(r, W, M, P) /\ Settled(P, f, n)
  BY DEF Account
<1>3. SharedBy(P, r, L, X)
  BY <1>0, <1>1, ThreadGives
<1>4. \A u \in Threads : X[u] = IF u = t THEN w ELSE W[u]
  BY <1>0
<1>5. \A u \in Threads : WorkOK(X[u], r)
  BY <1>0, <1>4
<1>6. LoopOK(m, r, L, X)
  BY DEF LoopOK, Account
<1>7. MovedOK(r, X, M, P)
  <2>1. Leaving(X, M) \subseteq Leaving(W, M)
    BY <1>4 DEF Leaving
  <2> QED BY <1>1, <2>1 DEF MovedOK
<1>8. DOMAIN X = Threads /\ \A p \in L : TaskOK(p, r)
  BY <1>0 DEF Account
<1> QED BY <1>1, <1>3, <1>5, <1>6, <1>7, <1>8 DEF Account

\* What is said of the vertices before r is said of those before r + 1.
LEMMA Later ==
  ASSUME NEW r \in Nat, NEW n, n = r + 1
  PROVE  /\ \A w : WorkOK(w, r) => WorkOK(w, n)
         /\ \A q : TaskOK(q, r) => TaskOK(q, n)
         /\ \A W, M, P : MovedOK(r, W, M, P) => MovedOK(n, W, M, P)
<1>1. \A u : u \in 0 .. r - 1 => u \in 0 .. n - 1
  OBVIOUS
<1> QED BY <1>1 DEF WorkOK, TaskOK, MovedOK

\* The shares do not depend on anything but the input.
LEMMA SharesKept ==
  ASSUME UNCHANGED inputVars
  PROVE  /\ \A r : From(r)' = From(r)
         /\ \A q : TaskShare(q)' = TaskShare(q)
         /\ \A w : Share(w)' = Share(w)
<1>1. \A s : Belows(s)' = Belows(s)
  BY ActivationsKept
<1>2. \A r : From(r)' = From(r)
  BY DEF From, inputVars
<1>3. \A r : RootShare(r)' = RootShare(r)
  BY <1>2 DEF RootShare
<1>4. \A q : TaskShare(q)' = TaskShare(q)
  BY <1>1, <1>3 DEF TaskShare
<1>5. \A w : Share(w)' = Share(w)
  BY <1>1, <1>3 DEF Share
<1> QED BY <1>2, <1>4, <1>5

\* The account does not depend on anything but its parameters and the input.
LEMMA AccountKept ==
  ASSUME UNCHANGED inputVars
  PROVE  \A m, r, K, W, M, f, n :
           Account(m, r, K, W, M, f, n)' <=> Account(m, r, K, W, M, f, n)
<1>1. \A f : (Frame(f)' <=> Frame(f)) /\ Below(f)' = Below(f)
  BY FrameKept
<1>2. \A s : (Activations(s)' <=> Activations(s)) /\ (Apart(s)' <=> Apart(s))
  BY ActivationsKept
<1>3. \A r : From(r)' = From(r)
  BY SharesKept
<1>5. \A q : TaskShare(q)' = TaskShare(q)
  BY SharesKept
<1>6. \A w : Share(w)' = Share(w)
  BY SharesKept
<1>7. \A u : Expanded(u)' <=> Expanded(u)
  BY DEF Expanded, inputVars, Passed
<1>8. \A w, r : WorkOK(w, r)' <=> WorkOK(w, r)
  <2>1. graph_' = graph_ /\ NN' = NN
    BY DEF inputVars
  <2> QED BY <1>1, <1>2, <1>7, <2>1 DEF WorkOK
<1>9. \A q, r : TaskOK(q, r)' <=> TaskOK(q, r)
  BY <1>1, <1>7 DEF TaskOK
<1>10. \A m, r, K, W : LoopOK(m, r, K, W)' <=> LoopOK(m, r, K, W)
  BY <1>7 DEF LoopOK
<1>11. \A P, r, K, W : SharedBy(P, r, K, W)' <=> SharedBy(P, r, K, W)
  <2>1. \A r, K, W : Separate(r, K, W)' <=> Separate(r, K, W)
    BY <1>3, <1>5, <1>6 DEF Separate
  <2>2. \A T, r, K, W : IsLeft(T, r, K, W)' <=> IsLeft(T, r, K, W)
    BY <1>3, <1>5, <1>6 DEF IsLeft
  <2> QED BY <2>1, <2>2 DEF SharedBy
<1>12. \A r, W, M, P : MovedOK(r, W, M, P)' <=> MovedOK(r, W, M, P)
  BY DEF MovedOK, Leaving, inputVars
<1>13. \A P, f, n : Settled(P, f, n)' <=> Settled(P, f, n)
  BY DEF Settled, Known, Counted, Biclique, All, inputVars
<1> QED BY <1>8, <1>9, <1>10, <1>11, <1>12, <1>13 DEF Account

\* The input stays as it is required to be.
LEMMA InputsKept ==
  ASSUME InputsOK, UNCHANGED <<inputVars, wanted>>
  PROVE  InputsOK'
<1>1. Known(All)' = Known(All)
  BY DEF inputVars, Known, Counted, Biclique, All
<1> QED BY <1>1 DEF InputsOK, InputOK, inputVars

\* What is still to be found, by whomever.
Open(r, K, W) == {T \in All : IsLeft(T, r, K, W)}

\* What has been found is not to be found again.
LEMMA NoneReopened ==
  ASSUME NEW r, NEW K, NEW W, NEW s, NEW L, NEW X,
         From(s) \subseteq From(r),
         \A q \in L : q \in K \/ \A T \in TaskShare(q) : IsLeft(T, r, K, W),
         \A t \in Threads : X[t] = W[t] \/ \A T \in Share(X[t]) : IsLeft(T, r, K, W)
  PROVE  Open(s, L, X) \subseteq Open(r, K, W)
<1>1. ASSUME NEW T, IsLeft(T, s, L, X) PROVE IsLeft(T, r, K, W)
  <2>1. CASE T \in From(s)
    BY <2>1 DEF IsLeft
  <2>2. CASE \E q \in L : T \in TaskShare(q)
    BY <2>2 DEF IsLeft
  <2>3. CASE \E t \in Threads : T \in Share(X[t])
    BY <2>3 DEF IsLeft
  <2> QED BY <1>1, <2>1, <2>2, <2>3 DEF IsLeft
<1> QED BY <1>1 DEF Open

\* What a step before the end does: it may count one biclique more, and leaves no
\* more to be found than before.
Goes ==
  /\ EInv' /\ UNCHANGED <<inputVars, wanted>>
  /\ main # "done" /\ main' # "done"
  /\ Counts(found, maximal_nodes_, found', maximal_nodes_')
  /\ Open(v', queue', work') \subseteq Open(v, queue, work)

\* A step of a thread that finds a part of its share, or nothing.
LEMMA ThreadReopensNone ==
  ASSUME EInv, NEW t \in Threads, NEW w, Become(t, w), UNCHANGED <<v, queue>>,
         Share(w) \subseteq Share(work[t])
  PROVE  Open(v', queue', work') \subseteq Open(v, queue, work)
<1>1. \A u \in Threads : work'[u] = IF u = t THEN w ELSE work[u]
  BY DEF Become, EInv, Account
<1>2. \A T \in Share(w) : IsLeft(T, v, queue, work)
  BY DEF IsLeft
<1> QED BY <1>1, <1>2, NoneReopened

\* A step is taken if the account is right after it.
LEMMA Accounted ==
  ASSUME EInv, UNCHANGED <<inputVars, wanted>>,
         Account(main', v', queue', work', moved', found', maximal_nodes_')
  PROVE  EInv'
<1>1. InputsOK'
  BY InputsKept DEF EInv
<1>2. \A m, r, K, W, M, f, n :
        Account(m, r, K, W, M, f, n)' <=> Account(m, r, K, W, M, f, n)
  BY AccountKept
<1>3. Account(main, v, queue, work, moved, found, maximal_nodes_)'
  BY <1>2
<1> QED BY <1>1, <1>3 DEF EInv

\* What an activation has to find are maximal bicliques.
LEMMA ShareAll ==
  ASSUME InputOK, NEW r \in Nat, NEW w, WorkOK(w, r)
  PROVE  Share(w) \subseteq All
<1>1. PICK n \in Nat : DOMAIN graph_ = 0 .. n - 1
  BY DEF InputOK, IsGraph
<1>2. \A f : Below(f) \subseteq All
  <2>1. \A f, T : T \in Below(f) => Closed(graph_, T) /\ Cardinality(T) >= min_l_size_
    BY DEF Below, Todo
  <2> QED BY <1>1, <2>1, TodoEnds DEF All
<1>3. \A s : Belows(s) \subseteq All
  BY <1>2 DEF Belows
<1>4. w.st \in {"root", "small"} => RootShare(w.v) \subseteq All
  <2> SUFFICES ASSUME w.st \in {"root", "small"} PROVE RootShare(w.v) \subseteq All
    OBVIOUS
  <2>1. w.v \in Nat
    BY DEF WorkOK
  <2>2. From(w.v) \subseteq All
    BY <2>1, FromAll DEF From
  <2> QED BY <2>2 DEF RootShare
<1> QED BY <1>3, <1>4 DEF Share

\* A thread that does something is not at the end.
LEMMA NotDone ==
  ASSUME EInv, NEW t \in Threads, work[t].st # "idle"
  PROVE  main # "done"
BY DEF EInv, Account, LoopOK, Idle

\* A step of a thread that counts nothing.
LEMMA GoesUncounted ==
  ASSUME EInv, NEW t \in Threads, work[t].st # "idle",
         NEW w, Become(t, w), WorkOK(w, v), Share(w) = Share(work[t]),
         w.st # "move", moved' \subseteq Leaving(work, moved),
         UNCHANGED <<inputVars, wanted, main, v, queue, found, maximal_nodes_>>
  PROVE  Goes
<1> DEFINE m == main
           r == v
           K == queue
           W == work
           M == moved
           f == found
           n == maximal_nodes_
           X == work'
           N == moved'
<1>1. m # "done"
  BY NotDone
<1>2. /\ LoopOK(m, r, K, W) /\ DOMAIN W = Threads
      /\ \A u \in Threads : WorkOK(W[u], r)
      /\ \A q \in K : TaskOK(q, r)
  BY DEF EInv, Account
<1>3. PICK P : SharedBy(P, r, K, W) /\ MovedOK(r, W, M, P) /\ Settled(P, f, n)
  BY DEF EInv, Account
<1>4. WorkOK(w, r) /\ N \subseteq Leaving(W, M) /\ Share(w) = Share(W[t]) \ {}
      /\ X = [W EXCEPT ![t] = w]
  BY DEF Become
<1> DEFINE S == {}
<1>5. /\ Settled(P \ S, f, n) /\ Share(w) = Share(W[t]) \ S /\ S \subseteq Share(W[t])
      /\ (w.st = "move" => graph_[w.v] \in S)
  <2>1. P \ S = P
    OBVIOUS
  <2> QED BY <1>3, <1>4, <2>1
<1> HIDE DEF m, r, K, W, M, f, n, X, N, S
<1>6. Account(m, r, K, X, N, f, n)
  BY <1>1, <1>2, <1>3, <1>4, <1>5, Finds
<1>7. Account(main', v', queue', work', moved', found', maximal_nodes_')
  BY <1>6 DEF m, r, K, X, N, f, n
<1>8. EInv'
  BY <1>7, Accounted
<1>9. Open(v', queue', work') \subseteq Open(v, queue, work)
  BY ThreadReopensNone
<1> QED BY <1>1, <1>8, <1>9 DEF Goes, Counts, m

\* A step of a thread that counts the biclique with the L side T.
LEMMA GoesCounted ==
  ASSUME EInv, NEW t \in Threads, work[t].st # "idle",
         NEW T, T \in Share(work[t]), NEW R, R = CommonR(graph_, T), Count(T, R),
         NEW w, Become(t, w), WorkOK(w, v), Share(w) = Share(work[t]) \ {T},
         w.st = "move" => graph_[w.v] = T,
         UNCHANGED <<inputVars, wanted, main, v, queue, moved>>
  PROVE  /\ Goes
         /\ T \in Open(v, queue, work) /\ T \notin Open(v', queue', work')
<1> DEFINE m == main
           r == v
           K == queue
           W == work
           M == moved
           f == found
           n == maximal_nodes_
           X == work'
           f1 == found'
           n1 == maximal_nodes_'
           S == {T}
<1>1. m # "done"
  BY NotDone
<1>2. /\ LoopOK(m, r, K, W) /\ DOMAIN W = Threads
      /\ \A u \in Threads : WorkOK(W[u], r)
      /\ \A q \in K : TaskOK(q, r)
      /\ r \in Nat /\ InputOK /\ wanted = Known(All)
  BY DEF EInv, Account, LoopOK, InputsOK
<1>3. PICK P : SharedBy(P, r, K, W) /\ MovedOK(r, W, M, P) /\ Settled(P, f, n)
  BY DEF EInv, Account
<1>4. WorkOK(w, r) /\ Share(w) = Share(W[t]) \ S /\ S \subseteq Share(W[t])
      /\ X = [W EXCEPT ![t] = w] /\ (w.st = "move" => graph_[w.v] \in S)
  BY DEF Become
<1>5. f1 = f \cup Result(T, R) /\ n1 = n + Cardinality(Result(T, R))
  BY DEF Count
<1>6. M \subseteq Leaving(W, M)
  BY DEF Leaving
<1> HIDE DEF m, r, K, W, M, f, n, X, f1, n1
<1>7. T \in All
  BY <1>2, <1>4, ShareAll
<1>8. T \in P
  BY <1>3, <1>4 DEF SharedBy, IsLeft
<1> DEFINE P2 == P \ S
<1>9. P2 = P \ {T}
  OBVIOUS
<1> HIDE DEF S, P2
<1>10. Settled(P2, f1, n1) /\ Counts(f, n, f1, n1)
  BY <1>2, <1>3, <1>5, <1>7, <1>8, <1>9, Counting
<1>11. Settled(P \ S, f1, n1)
  BY <1>10 DEF P2
<1>12. Account(m, r, K, X, M, f1, n1)
  BY <1>1, <1>2, <1>3, <1>4, <1>6, <1>11, Finds
<1>13. Account(main', v', queue', work', moved', found', maximal_nodes_')
  BY <1>12 DEF m, r, K, X, M, f1, n1
<1>14. EInv'
  BY <1>13, Accounted
<1>15. Open(v', queue', work') \subseteq Open(v, queue, work)
  BY ThreadReopensNone
<1>16. Goes
  BY <1>1, <1>10, <1>14, <1>15 DEF Goes, m, f, n, f1, n1
<1>17. T \in Open(r, K, W)
  BY <1>4, <1>7 DEF IsLeft, Open, S
<1>18. T \notin Open(r, K, X)
  <2>1. \A u \in Threads : X[u] = IF u = t THEN w ELSE W[u]
    BY <1>2, <1>4
  <2>2. T \in Share(W[t]) /\ T \notin Share(w) /\ Separate(r, K, W)
    BY <1>3, <1>4 DEF S, SharedBy
  <2>3. /\ T \notin From(r)
        /\ \A q \in K : T \notin TaskShare(q)
        /\ \A u \in Threads : u # t => T \notin Share(W[u])
    BY <2>2 DEF Separate
  <2> QED BY <2>1, <2>2, <2>3 DEF IsLeft, Open
<1>19. T \in Open(v, queue, work) /\ T \notin Open(v', queue', work')
  BY <1>17, <1>18 DEF r, K, W, X
<1> QED BY <1>16, <1>19

----------------------------------------------------------------------------
(* The root tasks.                                                         *)

\* The thread t is at the vertex u, whose biclique and those below the
\* activation h are its share.
LEMMA RootShares ==
  ASSUME InputOK, NEW u \in Nat, NEW h, Opens(u, h)
  PROVE  /\ Frame(h) /\ h.R = CommonR(graph_, graph_[u])
         /\ graph_[u] \in RootShare(u)
         /\ Below(h) = RootShare(u) \ {graph_[u]}
<1> DEFINE here == From(u)
           after == From(u + 1)
           T == graph_[u]
<1>1. /\ Frame(h) /\ h.R = CommonR(graph_, T)
      /\ here = after \cup Below(h) \cup {T}
      /\ after \cap Below(h) = {}
      /\ T \notin after /\ T \notin Below(h)
  BY DEF Opens, From
<1>2. RootShare(u) = here \ after
  BY DEF RootShare
<1> HIDE DEF here, after, T
<1>3. T \in RootShare(u) /\ Below(h) = RootShare(u) \ {T}
  BY <1>1, <1>2
<1> QED BY <1>1, <1>3 DEF T

\* The activations that the code makes for the vertex u.
LEMMA Roots ==
  ASSUME EInv, NEW u \in Nat, Expanded(u)
  PROVE  /\ Opens(u, SetRoot(u))
         /\ Cardinality(graph_[u]) <= NN => Opens(u, BitRoot(u))
BY RootsOpen DEF EInv, InputsOK, Expanded

\* What a task is given, whatever its kind.
LEMMA TaskShares ==
  /\ \A u : TaskShare(RootTask(u)) = RootShare(u)
  /\ \A f : TaskShare(SetTask(f)) = Below(f)
<1>1. \A u : TaskShare(RootTask(u)) = RootShare(u)
  BY EmptyStack DEF TaskShare, RootTask
<1>2. \A f : TaskShare(SetTask(f)) = Below(f)
  BY OneActivation DEF TaskShare, SetTask
<1> QED BY <1>1, <1>2

\* The share of a thread, by where it is.
LEMMA Shares ==
  ASSUME NEW w, NEW r, WorkOK(w, r)
  PROVE  /\ w.st \in {"root", "small"} => Share(w) = RootShare(w.v)
         /\ w.st \in {"bits", "move", "set"} => Share(w) = Belows(w.stack)
         /\ w.st \in {"idle", "free"} => Share(w) = {}
         /\ w.st = "fork" => Share(w) = Belows(w.stack) \cup Belows(w.child)
BY EmptyStack DEF WorkOK, Share

\* The list of a vertex that a root task begins with has not been moved away.
LEMMA ListThere ==
  ASSUME EInv, NEW t \in Threads, work[t].st = "root"
  PROVE  ListOf(work[t].v) = graph_[work[t].v]
<1> DEFINE u == work[t].v
           w == work[t]
<1>1. /\ WorkOK(w, v) /\ v \in Nat
  BY DEF EInv, Account, LoopOK
<1>2. u \in Nat /\ Expanded(u)
  BY <1>1 DEF WorkOK
<1>3. graph_[u] \in RootShare(u)
  BY <1>2, Roots, RootShares DEF EInv, InputsOK
<1>4. graph_[u] \in Share(w)
  BY <1>1, <1>3, Shares
<1>5. PICK P : SharedBy(P, v, queue, work) /\ MovedOK(v, work, moved, P)
  BY DEF EInv, Account
<1>6. graph_[u] \in P
  BY <1>4, <1>5 DEF SharedBy, IsLeft
<1>7. u \notin moved
  BY <1>5, <1>6 DEF MovedOK, Leaving
<1> QED BY <1>7 DEF ListOf

\* A thread does k, at x and on the stack s, with the children c in hand.
IsWork(w, k, x, s, c) == w = [st |-> k, v |-> x, stack |-> s, child |-> c]

\* A thread begins a task.
LEMMA Begins ==
  ASSUME NEW k, NEW x, NEW s
  PROVE  IsWork([Idle EXCEPT !.st = k, !.v = x, !.stack = s], k, x, s, <<>>)
<1> DEFINE a == [Idle EXCEPT !.st = k]
           b == [a EXCEPT !.v = x]
           c == [b EXCEPT !.stack = s]
<1>1. IsWork(a, k, -1, <<>>, <<>>)
  BY DEF Idle, IsWork
<1> HIDE DEF a
<1>2. IsWork(b, k, x, <<>>, <<>>)
  BY <1>1 DEF IsWork
<1> HIDE DEF b
<1>3. IsWork(c, k, x, s, <<>>)
  BY <1>2 DEF IsWork
<1> QED BY <1>3 DEF a, b, c

\* A thread goes on with another part of its task.
LEMMA Turns ==
  ASSUME NEW w, NEW j, NEW x, NEW s, NEW c, IsWork(w, j, x, s, c),
         NEW k, NEW u, NEW d
  PROVE  /\ IsWork([w EXCEPT !.st = k, !.stack = u], k, x, u, c)
         /\ IsWork([w EXCEPT !.st = k, !.child = d], k, x, s, d)
         /\ IsWork([w EXCEPT !.st = k, !.child = d, !.stack = u], k, x, u, d)
<1> DEFINE a == [w EXCEPT !.st = k]
           b == [a EXCEPT !.child = d]
<1>1. IsWork(a, k, x, s, c)
  BY DEF IsWork
<1> HIDE DEF a
<1>2. IsWork([a EXCEPT !.stack = u], k, x, u, c)
  BY <1>1 DEF IsWork
<1>3. IsWork(b, k, x, s, d)
  BY <1>1 DEF IsWork
<1> HIDE DEF b
<1>4. IsWork([b EXCEPT !.stack = u], k, x, u, d)
  BY <1>3 DEF IsWork
<1> QED BY <1>2, <1>3, <1>4 DEF a, b

\* A task begins.
LEMMA TakeGoes ==
  ASSUME EInv, NEW t \in Threads, NEW q \in queue, Take(t, q)
  PROVE  Goes
<1> DEFINE w == [Idle EXCEPT !.st = q.kind, !.v = q.v, !.stack = q.frame]
           m == main
           r == v
           K == queue
           W == work
           M == moved
           f == found
           n == maximal_nodes_
           X == work'
           L == queue'
<1>1. /\ W[t] = Idle /\ X = [W EXCEPT ![t] = w] /\ L = K \ {q}
      /\ UNCHANGED <<inputVars, wanted, main, v, moved, found, maximal_nodes_>>
  BY DEF Take, Become, mainVars, resultVars
<1>2. Account(m, r, K, W, M, f, n) /\ TaskOK(q, r) /\ r \in Nat
  BY DEF EInv, Account, LoopOK
<1>3. m # "done"
  BY <1>2 DEF Account, LoopOK
<1>4. WorkOK(w, r) /\ Share(w) = TaskShare(q) /\ w.st # "move"
  <2>1. CASE \E u \in 0 .. r - 1 : q = RootTask(u) /\ Expanded(u)
    <3>1. PICK u \in 0 .. r - 1 : q = RootTask(u) /\ Expanded(u)
      BY <2>1
    <3>2. q.kind = "root" /\ q.v = u /\ q.frame = <<>>
      BY <3>1 DEF RootTask
    <3>3. IsWork(w, "root", u, <<>>, <<>>)
      BY <3>2, Begins
    <3> HIDE DEF w
    <3>4. WorkOK(w, r)
      BY <3>1, <3>3 DEF IsWork, WorkOK
    <3> QED BY <3>1, <3>3, <3>4, Shares, TaskShares DEF IsWork
  <2>2. CASE \E g : q = SetTask(g) /\ Frame(g)
    <3>1. PICK g : q = SetTask(g) /\ Frame(g)
      BY <2>2
    <3>2. q.kind = "set" /\ q.v = -1 /\ q.frame = <<g>>
      BY <3>1 DEF SetTask
    <3>3. IsWork(w, "set", -1, <<g>>, <<>>)
      BY <3>2, Begins
    <3>4. Activations(<<g>>) /\ Apart(<<g>>) /\ Belows(<<g>>) = Below(g)
      BY <3>1, OneActivation
    <3> HIDE DEF w
    <3>5. WorkOK(w, r)
      <4>1. <<g>> # <<>>
        OBVIOUS
      <4> QED BY <3>3, <3>4, <4>1 DEF IsWork, WorkOK
    <3> QED BY <3>1, <3>3, <3>4, <3>5, Shares, TaskShares DEF IsWork
  <2> QED BY <1>2, <2>1, <2>2 DEF TaskOK
<1> HIDE DEF w, m, r, K, W, M, f, n, X, L
<1>5. q \in K
  BY DEF K
<1>6. Account(m, r, L, X, M, f, n)
  BY <1>1, <1>2, <1>3, <1>4, <1>5, Takes
<1>7. Account(main', v', queue', work', moved', found', maximal_nodes_')
  BY <1>1, <1>6 DEF m, r, L, X, M, f, n
<1>8. EInv'
  BY <1>1, <1>7, Accounted
<1>9. Open(v', queue', work') \subseteq Open(v, queue, work)
  <2>1. \A u \in Threads : X[u] = IF u = t THEN w ELSE W[u]
    BY <1>1, <1>2 DEF Account
  <2>2. \A T \in Share(w) : IsLeft(T, r, K, W)
    BY <1>4, <1>5 DEF IsLeft
  <2>3. Open(r, L, X) \subseteq Open(r, K, W)
    BY <1>1, <2>1, <2>2, NoneReopened
  <2> QED BY <1>1, <2>3 DEF r, L, X, K, W
<1> QED BY <1>1, <1>3, <1>8, <1>9 DEF Goes, Counts, m

\* A small root stays as it is.
LEMMA SmallRootGoes ==
  ASSUME EInv, NEW t \in Threads, SmallRoot(t)
  PROVE  Goes
<1> DEFINE w == [work[t] EXCEPT !.st = "small"]
<1>1. /\ work[t].st = "root" /\ Become(t, w) /\ WorkOK(work[t], v)
      /\ Cardinality(graph_[work[t].v]) <= NN
      /\ UNCHANGED <<inputVars, wanted, main, v, queue, moved, found, maximal_nodes_>>
  BY ListThere DEF SmallRoot, mainVars, resultVars, EInv, Account
<1>2. WorkOK(w, v) /\ w.st = "small" /\ w.v = work[t].v
  BY <1>1 DEF WorkOK
<1>3. Share(w) = Share(work[t])
  BY <1>1, <1>2, Shares
<1> HIDE DEF w
<1>4. moved' \subseteq Leaving(work, moved)
  BY <1>1 DEF Leaving
<1> QED BY <1>1, <1>2, <1>3, <1>4, GoesUncounted

\* Its biclique is counted.
LEMMA ExpandBitRootGoes ==
  ASSUME EInv, NEW t \in Threads, ExpandBitRoot(t)
  PROVE  Goes
<1> DEFINE u == work[t].v
           h == BitRoot(u)
           w == [work[t] EXCEPT !.st = "bits", !.stack = <<h>>]
           T == graph_[u]
           R == h.R
<1>1. /\ work[t].st = "small" /\ Become(t, w) /\ Count(T, R) /\ WorkOK(work[t], v)
      /\ v \in Nat
      /\ UNCHANGED <<inputVars, wanted, main, v, queue, moved>>
  BY DEF ExpandBitRoot, mainVars, EInv, Account, LoopOK
<1>2. u \in Nat /\ Expanded(u) /\ Cardinality(T) <= NN
  BY <1>1 DEF WorkOK
<1>3. Opens(u, h) /\ InputOK
  BY <1>2, Roots DEF EInv, InputsOK
<1> HIDE DEF h
<1>4. /\ Frame(h) /\ R = CommonR(graph_, T)
      /\ T \in RootShare(u) /\ Below(h) = RootShare(u) \ {T}
  BY <1>2, <1>3, RootShares
<1>5. Activations(<<h>>) /\ Apart(<<h>>) /\ Belows(<<h>>) = Below(h)
  BY <1>4, OneActivation
<1>6. WorkOK(w, v) /\ w.st = "bits" /\ w.stack = <<h>>
  <2>1. IsWork(work[t], "small", u, <<>>, <<>>)
    BY <1>1 DEF WorkOK, IsWork
  <2>2. IsWork(w, "bits", u, <<h>>, <<>>) /\ <<h>> # <<>>
    BY <2>1, Turns
  <2> HIDE DEF w
  <2> QED BY <1>5, <2>2 DEF WorkOK, IsWork
<1>7. Share(w) = Share(work[t]) \ {T} /\ T \in Share(work[t])
  BY <1>1, <1>4, <1>5, <1>6, Shares
<1> HIDE DEF w, T, R
<1> QED BY <1>1, <1>4, <1>6, <1>7, GoesCounted

\* So is a large root's, which then will move the list away.
LEMMA LargeRootGoes ==
  ASSUME EInv, NEW t \in Threads, LargeRoot(t)
  PROVE  Goes
<1> DEFINE u == work[t].v
           h == SetRoot(u)
           w == [work[t] EXCEPT !.st = "move", !.stack = <<h>>]
           T == graph_[u]
           R == h.R
<1>1. /\ work[t].st = "root" /\ Become(t, w) /\ Count(h.L, R) /\ WorkOK(work[t], v)
      /\ v \in Nat /\ Cardinality(T) > NN
      /\ UNCHANGED <<inputVars, wanted, main, v, queue, moved>>
  BY ListThere DEF LargeRoot, mainVars, EInv, Account, LoopOK
<1>2. u \in Nat /\ Expanded(u)
  BY <1>1 DEF WorkOK
<1>3. Opens(u, h) /\ InputOK /\ h.L = T
  BY <1>2, Roots DEF EInv, InputsOK, SetRoot
<1> HIDE DEF h
<1>4. /\ Frame(h) /\ R = CommonR(graph_, T)
      /\ T \in RootShare(u) /\ Below(h) = RootShare(u) \ {T}
  BY <1>2, <1>3, RootShares
<1>5. Activations(<<h>>) /\ Apart(<<h>>) /\ Belows(<<h>>) = Below(h)
  BY <1>4, OneActivation
<1>6. WorkOK(w, v) /\ w.st = "move" /\ w.stack = <<h>> /\ w.v = u
  <2>1. IsWork(work[t], "root", u, <<>>, <<>>) /\ u \in 0 .. v - 1
    BY <1>1 DEF WorkOK, IsWork
  <2>2. IsWork(w, "move", u, <<h>>, <<>>) /\ <<h>> # <<>>
    BY <2>1, Turns
  <2> HIDE DEF w, u
  <2>3. Cardinality(graph_[u]) > NN /\ Expanded(u)
    BY <1>1, <1>2 DEF T
  <2> QED BY <1>5, <2>1, <2>2, <2>3 DEF WorkOK, IsWork
<1>7. Share(w) = Share(work[t]) \ {T} /\ T \in Share(work[t])
  BY <1>1, <1>4, <1>5, <1>6, Shares
<1>8. Count(T, R) /\ (w.st = "move" => graph_[w.v] = T)
  BY <1>1, <1>3, <1>6
<1> HIDE DEF w, T, R
<1> QED BY <1>1, <1>4, <1>6, <1>7, <1>8, GoesCounted

\* The list is moved away.
LEMMA MoveRootGoes ==
  ASSUME EInv, NEW t \in Threads, MoveRoot(t)
  PROVE  Goes
<1> DEFINE w == [work[t] EXCEPT !.st = "set"]
<1>1. /\ work[t].st = "move" /\ Become(t, w) /\ WorkOK(work[t], v)
      /\ moved' = moved \cup {work[t].v}
      /\ UNCHANGED <<inputVars, wanted, main, v, queue, found, maximal_nodes_>>
  BY DEF MoveRoot, mainVars, resultVars, EInv, Account
<1>2. WorkOK(w, v) /\ w.st = "set" /\ w.stack = work[t].stack
  BY <1>1 DEF WorkOK
<1>3. Share(w) = Share(work[t])
  BY <1>1, <1>2, Shares
<1> HIDE DEF w
<1>4. moved' \subseteq Leaving(work, moved)
  BY <1>1 DEF Leaving
<1> QED BY <1>1, <1>2, <1>3, <1>4, GoesUncounted

----------------------------------------------------------------------------
(* biclique_find.                                                          *)

\* The activation on top, by its kind.
LEMMA TopIs ==
  ASSUME EInv, NEW t \in Threads, work[t].st \in {"set", "bits"}
  PROVE  /\ Activations(work[t].stack) /\ Apart(work[t].stack)
         /\ Len(work[t].stack) # 0
         /\ InputOK /\ Frame(Top(t))
         /\ Top(t).mode = "set" => SetFrame(Top(t))
         /\ Top(t).mode = "bit" => BitFrame(Top(t))
<1> DEFINE s == work[t].stack
<1>1. WorkOK(work[t], v) /\ InputOK
  BY DEF EInv, Account, InputsOK
<1>2. Activations(s) /\ Apart(s) /\ s # <<>>
  BY <1>1 DEF WorkOK
<1>3. Len(s) # 0 /\ Len(s) \in Nat
  BY <1>2, EmptyStack DEF Activations, IsStack
<1>4. Frame(s[Len(s)])
  BY <1>2, <1>3 DEF Activations
<1> QED BY <1>1, <1>2, <1>3, <1>4, SetSides, BitSides DEF Top, Frame

\* A thread goes on with other activations.
LEMMA Restacked ==
  ASSUME EInv, NEW t \in Threads, work[t].st \in {"set", "bits"},
         NEW s, Activations(s), Apart(s), s # <<>>,
         NEW w, w = [work[t] EXCEPT !.stack = s]
  PROVE  /\ WorkOK(w, v) /\ w.st # "move"
         /\ Share(w) = Belows(s) /\ Share(work[t]) = Belows(work[t].stack)
<1>1. WorkOK(work[t], v)
  BY DEF EInv, Account
<1>2. WorkOK(w, v) /\ w.st = work[t].st /\ w.stack = s
  BY <1>1 DEF WorkOK
<1> QED BY <1>1, <1>2, Shares

\* An activation passes over a candidate.
LEMMA PassGoes ==
  ASSUME EInv, NEW t \in Threads, work[t].st \in {"set", "bits"},
         NEW g, PassesOver(Top(t), g), Continue(t, g), Uncounted, Private
  PROVE  Goes
<1> DEFINE s == work[t].stack
           u == Append(Front(s), g)
           w == [work[t] EXCEPT !.stack = u]
<1>1. Activations(s) /\ Apart(s) /\ Len(s) # 0 /\ IsStack(s)
  BY TopIs DEF Activations
<1>2. PassesOver(s[Len(s)], g)
  BY DEF Top
<1>3. Become(t, w)
  BY DEF Continue
<1>4. TopReplaced(s, g, u)
  BY <1>1, FrontReplaced
<1> HIDE DEF u
<1>5. Activations(u) /\ Apart(u) /\ Belows(u) = Belows(s)
  BY <1>1, <1>2, <1>4, StackPasses
<1>6. u # <<>>
  BY <1>1, <1>4, EmptyStack DEF TopReplaced
<1>7. WorkOK(w, v) /\ w.st # "move" /\ Share(w) = Share(work[t])
  BY <1>5, <1>6, Restacked
<1>8. moved' \subseteq Leaving(work, moved)
      /\ UNCHANGED <<inputVars, wanted, main, v, queue, found, maximal_nodes_>>
  BY DEF Private, Uncounted, mainVars, resultVars, Leaving
<1> HIDE DEF w
<1> QED BY <1>3, <1>7, <1>8, GoesUncounted

\* An activation counts a biclique and calls the search on it.
LEMMA SplitGoes ==
  ASSUME EInv, NEW t \in Threads, work[t].st \in {"set", "bits"},
         NEW g, NEW h, NEW T, Splits(Top(t), g, h, T), Call(t, g, h),
         Count(T, h.R), Private
  PROVE  Goes
<1> DEFINE s == work[t].stack
           u == Append(Front(s), g)
           x == u \o <<h>>
           w == [work[t] EXCEPT !.stack = x]
           R == h.R
<1>1. Activations(s) /\ Apart(s) /\ Len(s) # 0 /\ IsStack(s)
  BY TopIs DEF Activations
<1>2. Splits(s[Len(s)], g, h, T)
  BY DEF Top
<1>3. Become(t, w)
  BY DEF Call
<1>4. TopReplaced(s, g, u)
  BY <1>1, FrontReplaced
<1> HIDE DEF u
<1>5. PutOn(u, h, x)
  BY <1>4, ConcatPushed DEF TopReplaced
<1> HIDE DEF x
<1>6. FindsOne(s, x, T)
  BY <1>1, <1>2, <1>4, <1>5, StackSplits
<1>7. Activations(x) /\ Apart(x) /\ T \in Belows(s) /\ Belows(x) = Belows(s) \ {T}
  BY <1>6 DEF FindsOne
<1>8. x # <<>>
  <2>1. Len(x) # 0
    BY <1>4, <1>5 DEF PutOn, TopReplaced, IsStack
  <2> QED BY <2>1, EmptyStack
<1>9. WorkOK(w, v) /\ w.st # "move" /\ Share(w) = Share(work[t]) \ {T}
      /\ T \in Share(work[t])
  BY <1>7, <1>8, Restacked
<1>10. R = CommonR(graph_, T) /\ Count(T, R)
       /\ UNCHANGED <<inputVars, wanted, main, v, queue, moved>>
  BY DEF Splits, Private, mainVars
<1> HIDE DEF w, R
<1> QED BY <1>3, <1>9, <1>10, GoesCounted

\* An activation passes over a candidate that is dropped.
LEMMA SkipCandidateGoes ==
  ASSUME EInv, NEW t \in Threads, SkipCandidate(t)
  PROVE  Goes
<1> DEFINE f == Top(t)
           g == [f EXCEPT !.i = @ + 1]
<1>1. /\ work[t].st = "set" /\ Unfinished(f) /\ f.mode = "set"
      /\ Candidate(f).first < 0
      /\ Continue(t, g) /\ Uncounted /\ Private
  BY DEF SkipCandidate, On
<1>2. InputOK /\ SetFrame(f)
  BY <1>1, TopIs
<1>3. PassesOver(f, g)
  <2>1. ~(Candidate(f).first >= 0)
    <3>1. f.C \in Seq(SetEntry) /\ f.i \in 1 .. Len(f.C)
      BY <1>1, <1>2 DEF SetFrame, Unfinished
    <3>2. Candidate(f) \in SetEntry
      BY <3>1, ElementOfSeq DEF Candidate
    <3>3. DOMAIN graph_ \subseteq Int
      BY <1>2 DEF InputOK, IsGraph
    <3> QED BY <1>1, <3>2, <3>3 DEF SetEntry
  <2> HIDE DEF f
  <2> QED BY <1>1, <1>2, <2>1, SkipPasses
<1> HIDE DEF g
<1> QED BY <1>1, <1>3, PassGoes

\* What a large candidate brings.
LEMMA LargeBrings ==
  ASSUME EInv, NEW t \in Threads, IsLarge(t)
  PROVE  LET f == Top(t)
         IN  /\ work[t].st = "set"
             /\ IsMaximal(f) =>
                  Splits(f, Consumed(f), SetChild(f), SetChild(f).L)
             /\ ~IsMaximal(f) => PassesOver(f, Consumed(f))
<1> DEFINE f == Top(t)
<1>1. /\ work[t].st = "set" /\ Unfinished(f) /\ f.mode = "set"
      /\ Candidate(f).first >= 0
  BY DEF IsLarge, On
<1>2. InputOK /\ SetFrame(f)
  BY <1>1, TopIs
<1> HIDE DEF f
<1>3. /\ IsMaximal(f) => Splits(f, Consumed(f), SetChild(f), SetChild(f).L)
      /\ ~IsMaximal(f) => PassesOver(f, Consumed(f))
  BY <1>1, <1>2, LargeSplits
<1> QED BY <1>1, <1>3 DEF f

\* It is passed over if it is not maximal.
LEMMA NotMaximalGoes ==
  ASSUME EInv, NEW t \in Threads, NotMaximal(t)
  PROVE  Goes
<1> DEFINE g == Consumed(Top(t))
<1>1. /\ work[t].st = "set" /\ PassesOver(Top(t), g)
      /\ Continue(t, g) /\ Uncounted /\ Private
  BY LargeBrings DEF NotMaximal
<1> HIDE DEF g
<1> QED BY <1>1, PassGoes

\* Above the first activation its biclique is counted and the search called on it.
LEMMA SerialChildGoes ==
  ASSUME EInv, NEW t \in Threads, SerialChild(t)
  PROVE  Goes
<1> DEFINE g == Consumed(Top(t))
           h == SetChild(Top(t))
           T == h.L
<1>1. /\ work[t].st = "set" /\ Splits(Top(t), g, h, T)
      /\ Call(t, g, h) /\ Count(T, h.R) /\ Private
  BY LargeBrings DEF SerialChild
<1> HIDE DEF g, h, T
<1> QED BY <1>1, SplitGoes

\* A candidate that fits in a bitset.
LEMMA SmallCandidateGoes ==
  ASSUME EInv, NEW t \in Threads, SmallCandidate(t)
  PROVE  Goes
<1> DEFINE f == Top(t)
           g == [f EXCEPT !.i = @ + 1]
           h == BitChild(f)
           T == Candidate(f).L
<1>1. /\ work[t].st = "set" /\ Unfinished(f) /\ f.mode = "set"
      /\ Candidate(f).first >= 0 /\ Cardinality(Candidate(f).L) <= NN
      /\ Private
      /\ IF IsMaximalSmall(f) THEN Call(t, g, h) /\ Count(T, h.R)
                              ELSE Continue(t, g) /\ Uncounted
  BY DEF SmallCandidate, On
<1>2. InputOK /\ SetFrame(f)
  BY <1>1, TopIs
<1>3. /\ IsMaximalSmall(f) => Splits(f, g, h, T)
      /\ ~IsMaximalSmall(f) => PassesOver(f, g)
  <2> HIDE DEF f
  <2> QED BY <1>1, <1>2, SmallSplits
<1> HIDE DEF g, h, T
<1>4. CASE IsMaximalSmall(f)
  BY <1>1, <1>3, <1>4, SplitGoes
<1>5. CASE ~IsMaximalSmall(f)
  BY <1>1, <1>3, <1>5, PassGoes
<1> QED BY <1>4, <1>5

\* An entry of an activation on bitsets.
LEMMA EntryGoes ==
  ASSUME EInv, NEW t \in Threads, Entry(t)
  PROVE  Goes
<1> DEFINE f == Top(t)
           g == BitConsumed(f)
           h == BitEntryChild(f)
           T == Vertices(f.ids, Witnesses(f).L_prime)
<1>1. /\ work[t].st \in {"set", "bits"} /\ Unfinished(f) /\ f.mode = "bit"
      /\ Private
      /\ IF Witnesses(f).is_maximal THEN Call(t, g, h) /\ Count(T, h.R)
                                    ELSE Continue(t, g) /\ Uncounted
  BY DEF Entry, On
<1>2. InputOK /\ BitFrame(f)
  BY <1>1, TopIs
<1>3. /\ Witnesses(f).is_maximal => Splits(f, g, h, T)
      /\ ~Witnesses(f).is_maximal => PassesOver(f, g)
  <2> HIDE DEF f
  <2> QED BY <1>1, <1>2, EntrySplits
<1> HIDE DEF g, h, T
<1>4. CASE Witnesses(f).is_maximal
  BY <1>1, <1>3, <1>4, SplitGoes
<1>5. CASE ~Witnesses(f).is_maximal
  BY <1>1, <1>3, <1>5, PassGoes
<1> QED BY <1>4, <1>5

\* An activation returns to the one below it.
LEMMA ReturnGoes ==
  ASSUME EInv, NEW t \in Threads, Return(t)
  PROVE  Goes
<1> DEFINE s == work[t].stack
           u == Front(s)
           w == [work[t] EXCEPT !.stack = u]
<1>1. /\ work[t].st \in {"set", "bits"} /\ Len(s) > 1 /\ ~Unfinished(Top(t))
      /\ Become(t, w) /\ Uncounted /\ Private
  BY DEF Return
<1>2. Activations(s) /\ Apart(s) /\ Len(s) # 0 /\ IsStack(s) /\ Frame(Top(t))
  BY <1>1, TopIs DEF Activations
<1>3. Below(s[Len(s)]) = {}
  BY <1>1, <1>2, ReturnEmpty DEF Top
<1> HIDE DEF u
<1>4. u = Front(s)
  BY DEF u
<1>5. Activations(u) /\ Apart(u) /\ Belows(u) = Belows(s)
  BY <1>2, <1>3, <1>4, StackReturns
<1>6. u # <<>>
  <2>1. Len(u) = Len(s) - 1 /\ Len(s) \in Nat
    BY <1>2, <1>4, Popped DEF IsStack
  <2> QED BY <1>1, <2>1, EmptyStack
<1>7. WorkOK(w, v) /\ w.st # "move" /\ Share(w) = Share(work[t])
  BY <1>1, <1>5, <1>6, Restacked
<1>8. moved' \subseteq Leaving(work, moved)
      /\ UNCHANGED <<inputVars, wanted, main, v, queue, found, maximal_nodes_>>
      /\ work[t].st # "idle"
  BY <1>1 DEF Private, Uncounted, mainVars, resultVars, Leaving
<1> HIDE DEF w
<1> QED BY <1>1, <1>7, <1>8, GoesUncounted

----------------------------------------------------------------------------
(* The child in hand, and the end of a task.                               *)

\* An activation that has the stack to itself.
LEMMA Alone ==
  ASSUME NEW s, IsStack(s), Len(s) = 1
  PROVE  s = <<s[1]>>
<1>1. s = [k \in 1 .. 1 |-> s[k]] /\ 1 .. 1 = {1}
  BY DEF IsStack
<1>2. <<s[1]>> = [k \in 1 .. 1 |-> s[k]]
  OBVIOUS
<1> QED BY <1>1, <1>2

\* An activation is put on one below which nothing of its own is to be found.
LEMMA TwoActivations ==
  ASSUME NEW f, NEW h, Frame(f), Frame(h), Below(f) \cap Below(h) = {},
         NEW s, s = <<f>> \o <<h>>
  PROVE  /\ Activations(s) /\ Apart(s) /\ s # <<>>
         /\ Belows(s) = Below(f) \cup Below(h)
<1>1. /\ IsStack(<<f>>) /\ Len(<<f>>) = 1 /\ <<f>>[1] = f
  BY OneActivation
<1>2. PutOn(<<f>>, h, s)
  BY <1>1, ConcatPushed
<1>3. 1 + 1 = 2 /\ 1 .. 2 = {1, 2} /\ 1 \in 1 .. 1
  OBVIOUS
<1>4. IsStack(s) /\ Len(s) = 2 /\ s[1] = f /\ s[2] = h
  BY <1>1, <1>2, <1>3 DEF PutOn
<1>5. Activations(s)
  BY <1>3, <1>4 DEF Activations
<1>6. Apart(s)
  <2>1. \A j, k \in {1, 2} : j # k => (j = 1 /\ k = 2) \/ (j = 2 /\ k = 1)
    OBVIOUS
  <2>2. \A j, k \in {1, 2} : j # k => Below(s[j]) \cap Below(s[k]) = {}
    BY <1>4, <2>1
  <2>3. 1 .. Len(s) = {1, 2}
    BY <1>3, <1>4
  <2> QED BY <2>2, <2>3 DEF Apart
<1>7. Belows(s) = Below(f) \cup Below(h)
  BY <1>3, <1>4 DEF Belows
<1>8. s # <<>>
  BY <1>4, EmptyStack
<1> QED BY <1>5, <1>6, <1>7, <1>8

\* The first activation counts a child and has it in hand.
LEMMA CountChildGoes ==
  ASSUME EInv, NEW t \in Threads, CountChild(t)
  PROVE  LET T == SetChild(Top(t)).L
         IN  /\ Goes
             /\ T \in Open(v, queue, work) /\ T \notin Open(v', queue', work')
             /\ work'[t].st = "fork" /\ work'[t].child[1].L = T
<1> DEFINE f == Top(t)
           g == Consumed(f)
           h == SetChild(f)
           T == h.L
           R == h.R
           w == [work[t] EXCEPT !.st = "fork", !.child = <<h>>, !.stack = <<g>>]
<1>1. /\ work[t].st = "set" /\ Splits(f, g, h, T) /\ Len(work[t].stack) = 1
      /\ Become(t, w) /\ Count(T, R)
      /\ UNCHANGED <<inputVars, wanted, main, v, queue, moved>>
  BY LargeBrings DEF CountChild, mainVars
<1>2. Activations(work[t].stack) /\ WorkOK(work[t], v)
  BY <1>1, TopIs DEF EInv, Account
<1>3. work[t].stack = <<f>>
  BY <1>1, <1>2, Alone DEF Activations, Top
<1>4. IsWork(work[t], "set", work[t].v, <<f>>, <<>>)
  BY <1>1, <1>2, <1>3 DEF WorkOK, IsWork
<1>5. IsWork(w, "fork", work[t].v, <<g>>, <<h>>)
  BY <1>4, Turns
<1> HIDE DEF f, g, h, T, R, w
<1>6. /\ Frame(g) /\ Frame(h) /\ Below(f) = Below(g) \cup Below(h) \cup {T}
      /\ Below(g) \cap Below(h) = {} /\ T \notin Below(g) /\ T \notin Below(h)
      /\ R = CommonR(graph_, T)
  BY <1>1 DEF Splits, R
<1>7. /\ Activations(<<g>>) /\ Apart(<<g>>) /\ Belows(<<g>>) = Below(g)
      /\ Belows(<<h>>) = Below(h) /\ Belows(<<f>>) = Below(f)
  BY <1>6, OneActivation
<1>8. WorkOK(w, v)
  <2>1. <<g>> # <<>>
    OBVIOUS
  <2> QED BY <1>5, <1>6, <1>7, <2>1 DEF WorkOK, IsWork
<1>9. Share(w) = Below(g) \cup Below(h) /\ Share(work[t]) = Below(f)
  BY <1>1, <1>2, <1>3, <1>5, <1>7, <1>8, Shares DEF IsWork
<1>10. T \in Share(work[t]) /\ Share(w) = Share(work[t]) \ {T} /\ w.st # "move"
  BY <1>5, <1>6, <1>9 DEF IsWork
<1>11. /\ Goes
       /\ T \in Open(v, queue, work) /\ T \notin Open(v', queue', work')
  BY <1>1, <1>6, <1>8, <1>10, GoesCounted
<1>12. work'[t] = w
  BY <1>1 DEF Become, EInv, Account
<1> QED BY <1>5, <1>11, <1>12 DEF IsWork, T, h, f

\* The activation and the child in hand.
LEMMA InHand ==
  ASSUME EInv, NEW t \in Threads, work[t].st = "fork"
  PROVE  \E f, h : /\ IsWork(work[t], "fork", work[t].v, <<f>>, <<h>>)
                   /\ Frame(f) /\ Frame(h) /\ Below(f) \cap Below(h) = {}
                   /\ Share(work[t]) = Below(f) \cup Below(h)
<1>1. WorkOK(work[t], v)
  BY DEF EInv, Account
<1>2. PICK f, h : /\ work[t].stack = <<f>> /\ work[t].child = <<h>>
                  /\ Frame(h) /\ Below(f) \cap Below(h) = {}
  BY <1>1 DEF WorkOK
<1>3. IsWork(work[t], "fork", work[t].v, <<f>>, <<h>>)
  BY <1>1, <1>2 DEF WorkOK, IsWork
<1>4. Frame(f)
  <2>1. Activations(<<f>>)
    BY <1>1, <1>2 DEF WorkOK
  <2> QED BY <2>1, OneActivation DEF Activations
<1>5. Share(work[t]) = Below(f) \cup Below(h)
  BY <1>1, <1>2, Shares, OneActivation
<1> QED BY <1>2, <1>3, <1>4, <1>5

\* The child becomes a task.
LEMMA RunChildGoes ==
  ASSUME EInv, NEW t \in Threads, RunChild(t)
  PROVE  Goes
<1> DEFINE w == [work[t] EXCEPT !.st = "set", !.child = <<>>]
           q == SetTask(work[t].child[1])
           m == main
           r == v
           K == queue
           W == work
           M == moved
           n == found
           o == maximal_nodes_
           X == work'
           L == queue'
<1>1. /\ work[t].st = "fork" /\ X = [W EXCEPT ![t] = w] /\ L = K \cup {q}
      /\ UNCHANGED <<inputVars, wanted, main, v, moved, found, maximal_nodes_>>
  BY DEF RunChild, Become, mainVars, resultVars
<1>2. Account(m, r, K, W, M, n, o)
  BY DEF EInv
<1>3. m # "done"
  BY <1>1, NotDone
<1>4. PICK f, h : /\ IsWork(work[t], "fork", work[t].v, <<f>>, <<h>>)
                  /\ Frame(f) /\ Frame(h) /\ Below(f) \cap Below(h) = {}
                  /\ Share(work[t]) = Below(f) \cup Below(h)
  BY <1>1, InHand
<1>5. q = SetTask(h)
  BY <1>4 DEF IsWork
<1>6. IsWork(w, "set", work[t].v, <<f>>, <<>>)
  BY <1>4, Turns
<1>7. TaskOK(q, r) /\ TaskShare(q) = Below(h)
  BY <1>4, <1>5, TaskShares DEF TaskOK
<1> HIDE DEF w, q
<1>8. Activations(<<f>>) /\ Apart(<<f>>) /\ Belows(<<f>>) = Below(f)
  BY <1>4, OneActivation
<1>9. WorkOK(w, r) /\ w.st # "move" /\ Share(w) = Below(f)
  <2>1. <<f>> # <<>>
    OBVIOUS
  <2>2. WorkOK(w, r)
    BY <1>6, <1>8, <2>1 DEF WorkOK, IsWork
  <2> QED BY <1>6, <1>8, <2>2, Shares DEF IsWork
<1>10. Share(W[t]) = Share(w) \cup TaskShare(q) /\ Share(w) \cap TaskShare(q) = {}
  BY <1>4, <1>7, <1>9
<1> HIDE DEF m, r, K, W, M, n, o, X, L
<1>11. Account(m, r, L, X, M, n, o)
  BY <1>1, <1>2, <1>3, <1>7, <1>9, <1>10, Gives
<1>12. Account(main', v', queue', work', moved', found', maximal_nodes_')
  BY <1>1, <1>11 DEF m, r, L, X, M, n, o
<1>13. EInv'
  BY <1>1, <1>12, Accounted
<1>14. Open(v', queue', work') \subseteq Open(v, queue, work)
  <2>1. \A u \in Threads : X[u] = IF u = t THEN w ELSE W[u]
    BY <1>1, <1>2 DEF Account
  <2>2. \A T \in Share(W[t]) : IsLeft(T, r, K, W)
    BY DEF IsLeft
  <2>3. /\ \A T \in Share(w) : IsLeft(T, r, K, W)
        /\ \A T \in TaskShare(q) : IsLeft(T, r, K, W)
    BY <1>10, <2>2
  <2>4. Open(r, L, X) \subseteq Open(r, K, W)
    BY <1>1, <2>1, <2>3, NoneReopened
  <2> QED BY <1>1, <2>4 DEF r, L, X, K, W
<1> QED BY <1>1, <1>3, <1>13, <1>14 DEF Goes, Counts, m

\* The child is called.
LEMMA KeepChildGoes ==
  ASSUME EInv, NEW t \in Threads, KeepChild(t)
  PROVE  Goes
<1> DEFINE s == work[t].stack \o work[t].child
           w == [work[t] EXCEPT !.st = "set", !.child = <<>>, !.stack = s]
<1>1. /\ work[t].st = "fork" /\ Become(t, w)
      /\ UNCHANGED <<inputVars, wanted, main, v, queue, moved, found, maximal_nodes_>>
  BY DEF KeepChild, mainVars, resultVars
<1>2. PICK f, h : /\ IsWork(work[t], "fork", work[t].v, <<f>>, <<h>>)
                  /\ Frame(f) /\ Frame(h) /\ Below(f) \cap Below(h) = {}
                  /\ Share(work[t]) = Below(f) \cup Below(h)
  BY <1>1, InHand
<1>3. s = <<f>> \o <<h>>
  <2>1. work[t].stack = <<f>> /\ work[t].child = <<h>>
    BY <1>2 DEF IsWork
  <2> QED BY <2>1
<1>4. IsWork(w, "set", work[t].v, s, <<>>)
  BY <1>2, Turns
<1> HIDE DEF s, w
<1>5. Activations(s) /\ Apart(s) /\ s # <<>> /\ Belows(s) = Below(f) \cup Below(h)
  BY <1>2, <1>3, TwoActivations
<1>6. WorkOK(w, v)
  BY <1>4, <1>5 DEF WorkOK, IsWork
<1>7. Share(w) = Share(work[t]) /\ w.st # "move"
  BY <1>2, <1>4, <1>5, <1>6, Shares DEF IsWork
<1>8. moved' \subseteq Leaving(work, moved)
  BY <1>1 DEF Leaving
<1> QED BY <1>1, <1>6, <1>7, <1>8, GoesUncounted

\* A task ends when nothing is left to be found in it.
LEMMA EndEmpty ==
  ASSUME EInv, NEW t \in Threads, work[t].st \in {"set", "bits"},
         Len(work[t].stack) = 1, ~Unfinished(Top(t))
  PROVE  Share(work[t]) = {}
<1>1. WorkOK(work[t], v)
  BY DEF EInv, Account
<1>2. Activations(work[t].stack) /\ Frame(Top(t))
  BY TopIs
<1>3. work[t].stack = <<Top(t)>>
  BY <1>2, Alone DEF Activations, Top
<1>4. Below(Top(t)) = {}
  BY <1>2, ReturnEmpty
<1> QED BY <1>1, <1>3, <1>4, Shares, OneActivation

\* A thread that has nothing to find goes on to the end of its task, or ends it.
LEMMA EndGoes ==
  ASSUME EInv, NEW t \in Threads, work[t].st # "idle", Share(work[t]) = {},
         NEW w, w = Idle \/ w = [Idle EXCEPT !.st = "free"], Become(t, w),
         UNCHANGED <<inputVars, wanted, main, v, queue, moved, found, maximal_nodes_>>
  PROVE  Goes
<1>1. WorkOK(w, v) /\ w.st \in {"idle", "free"}
  BY DEF WorkOK, Idle
<1>2. Share(w) = {} /\ w.st # "move"
  BY <1>1, Shares
<1>3. moved' \subseteq Leaving(work, moved)
  BY DEF Leaving
<1> QED BY <1>1, <1>2, <1>3, GoesUncounted

\* biclique_find has nothing left, and has still to free its index.
LEMMA EndSetGoes ==
  ASSUME EInv, NEW t \in Threads, EndSet(t)
  PROVE  Goes
<1> DEFINE w == [Idle EXCEPT !.st = "free"]
<1>1. /\ work[t].st = "set" /\ Share(work[t]) = {} /\ Become(t, w)
      /\ UNCHANGED <<inputVars, wanted, main, v, queue, moved, found, maximal_nodes_>>
  BY EndEmpty DEF EndSet, mainVars, resultVars
<1> QED BY <1>1, EndGoes

\* It frees the index.
LEMMA FreeAtEndGoes ==
  ASSUME EInv, NEW t \in Threads, FreeAtEnd(t)
  PROVE  Goes
<1>1. WorkOK(work[t], v)
  BY DEF EInv, Account
<1>2. /\ work[t].st = "free" /\ Share(work[t]) = {} /\ Become(t, Idle)
      /\ UNCHANGED <<inputVars, wanted, main, v, queue, moved, found, maximal_nodes_>>
  BY <1>1, Shares DEF FreeAtEnd, mainVars, resultVars
<1> QED BY <1>2, EndGoes

\* A small root's task ends.
LEMMA EndBitsGoes ==
  ASSUME EInv, NEW t \in Threads, EndBits(t)
  PROVE  Goes
<1>1. /\ work[t].st = "bits" /\ Share(work[t]) = {} /\ Become(t, Idle)
      /\ UNCHANGED <<inputVars, wanted, main, v, queue, moved, found, maximal_nodes_>>
  BY EndEmpty DEF EndBits, Private, Uncounted, mainVars, resultVars
<1> QED BY <1>1, EndGoes

----------------------------------------------------------------------------
(* Every step of a thread.                                                 *)

\* Each keeps the account.
LEMMA TaskStepGoes ==
  ASSUME EInv, NEW t \in Threads, TaskStep(t)
  PROVE  Goes
BY TakeGoes, SmallRootGoes, ExpandBitRootGoes, LargeRootGoes, MoveRootGoes,
   SkipCandidateGoes, NotMaximalGoes, SmallCandidateGoes, EntryGoes, CountChildGoes,
   RunChildGoes, KeepChildGoes, SerialChildGoes, ReturnGoes, EndSetGoes,
   FreeAtEndGoes, EndBitsGoes DEF TaskStep

----------------------------------------------------------------------------
(* Execute, on the main thread.                                            *)

\* The vertices are those before RSize.
LEMMA RowsOf ==
  ASSUME EInv
  PROVE  RSize \in Nat /\ DOMAIN graph_ = 0 .. RSize - 1 /\ v \in Nat
<1>1. PICK n \in Nat : DOMAIN graph_ = 0 .. n - 1
  BY DEF EInv, InputsOK, InputOK, IsGraph
<1>2. Cardinality(0 .. n - 1) = n
  BY <1>1, Interval
<1> QED BY <1>1, <1>2 DEF EInv, InputsOK, Account, LoopOK

\* A step of Execute that counts nothing.
LEMMA MainGoes ==
  ASSUME EInv, main # "done", main' # "done",
         UNCHANGED <<inputVars, wanted, found, maximal_nodes_, work>>,
         Account(main', v', queue', work', moved', found', maximal_nodes_'),
         v' = v \/ v' = v + 1,
         \A q \in queue' : q \in queue \/ TaskShare(q) \subseteq From(v)
  PROVE  Goes
<1>1. EInv'
  BY Accounted
<1>2. From(v') \subseteq From(v)
  BY RowsOf, FromLater DEF EInv, InputsOK
<1>3. \A q \in queue' : q \in queue \/ \A T \in TaskShare(q) : IsLeft(T, v, queue, work)
  BY DEF IsLeft
<1>4. Open(v', queue', work') \subseteq Open(v, queue, work)
  BY <1>2, <1>3, NoneReopened
<1> QED BY <1>1, <1>4 DEF Goes, Counts

\* The account with the main loop elsewhere.
LEMMA AccountAt ==
  ASSUME NEW m, NEW r, NEW K, NEW W, NEW M, NEW f, NEW n,
         Account(m, r, K, W, M, f, n), NEW o, LoopOK(o, r, K, W)
  PROVE  Account(o, r, K, W, M, f, n)
BY DEF Account

\* A turn of the loop begins, a task is about to be counted or has been, or the
\* loop ends.
LEMMA LoopGoes ==
  ASSUME EInv, Check \/ CountRoot \/ LoopEnds
  PROVE  Goes
<1> DEFINE m == main
           o == main'
           r == v
           K == queue
           W == work
           M == moved
           f == found
           n == maximal_nodes_
<1>1. /\ main # "done" /\ main' # "done"
      /\ UNCHANGED <<inputVars, wanted, v, queue, work, moved, found, maximal_nodes_>>
  BY DEF Check, CountRoot, LoopEnds, resultVars
<1>2. Account(m, r, K, W, M, f, n)
  BY DEF EInv
<1>3. LoopOK(m, r, K, W)
  BY <1>2 DEF Account
<1>4. LoopOK(o, r, K, W)
  BY <1>3 DEF LoopOK, Check, CountRoot, LoopEnds
<1> HIDE DEF m, o, r, K, W, M, f, n
<1>5. Account(o, r, K, W, M, f, n)
  BY <1>2, <1>4, AccountAt
<1>6. Account(main', v', queue', work', moved', found', maximal_nodes_')
  BY <1>1, <1>5 DEF o, r, K, W, M, f, n
<1> QED BY <1>1, <1>6, MainGoes

\* Though lists before it may have been moved away, the loop passes over a vertex
\* when it should: one whose list is short or is that of the vertex before it.
LEMMA SkippedPassed ==
  ASSUME EInv, v \in DOMAIN graph_
  PROVE  Skipped(v) <=> Passed(graph_, min_l_size_, v)
<1>1. InputOK /\ v \in Nat
  BY RowsOf DEF EInv, InputsOK
<1>2. \A u \in moved : u \in 0 .. v - 1 /\ Cardinality(graph_[u]) > NN
  BY DEF EInv, Account, MovedOK, Leaving
<1>3. ListOf(v) = graph_[v]
  BY <1>1, <1>2 DEF ListOf
<1>4. CASE v > 0 /\ v - 1 \in moved
  <2>1. ListOf(v - 1) = {} /\ Cardinality(graph_[v - 1]) > NN
    BY <1>2, <1>4 DEF ListOf
  <2>2. Cardinality(graph_[v]) \in Nat /\ NN \in Nat
    BY <1>1, RowsOf, FS_CardinalityType DEF InputOK, IsGraph
  <2>3. graph_[v - 1] # graph_[v]
    <3>1. v > 0 /\ graph_[v] = graph_[v - 1] => Cardinality(graph_[v]) <= NN
      BY DEF EInv, InputsOK
    <3> QED BY <1>4, <2>1, <2>2, <3>1
  <2>4. graph_[v] = {} => Cardinality(graph_[v]) < min_l_size_
    <3>1. min_l_size_ \in Nat \ {0}
      BY <1>1 DEF InputOK
    <3> QED BY <3>1, FS_EmptySet
  <2> QED BY <1>3, <1>4, <2>1, <2>3, <2>4 DEF Skipped, Passed
<1>5. CASE ~(v > 0 /\ v - 1 \in moved)
  BY <1>3, <1>5 DEF Skipped, Passed, ListOf
<1> QED BY <1>4, <1>5

\* The loop passes over a vertex.
LEMMA PassedOver ==
  ASSUME InputOK, NEW r \in DOMAIN graph_, r \in Nat, Passed(graph_, min_l_size_, r),
         NEW m, m \notin {"wait", "done"}, NEW K, NEW W, NEW M, NEW f, NEW n,
         Account(m, r, K, W, M, f, n),
         NEW x, x = r + 1
  PROVE  Account("check", x, K, W, M, f, n)
<1>1. IsGraph(graph_) /\ min_l_size_ \in Nat \ {0}
  BY DEF InputOK
<1>2. From(x) = From(r)
  BY <1>1, RootPassed DEF From
<1>3. PICK P : SharedBy(P, r, K, W) /\ MovedOK(r, W, M, P) /\ Settled(P, f, n)
  BY DEF Account
<1>4. SharedBy(P, x, K, W)
  BY <1>2, <1>3 DEF SharedBy, Separate, IsLeft
<1>5. /\ \A w : WorkOK(w, r) => WorkOK(w, x)
      /\ \A q : TaskOK(q, r) => TaskOK(q, x)
      /\ MovedOK(x, W, M, P)
  BY <1>3, Later
<1>6. LoopOK("check", x, K, W)
  BY DEF LoopOK
<1> QED BY <1>3, <1>4, <1>5, <1>6 DEF Account

\* The lists of v and the vertex before it are compared.
LEMMA LookGoes ==
  ASSUME EInv, Look
  PROVE  Goes
<1> DEFINE r == v
           K == queue
           W == work
           M == moved
           f == found
           n == maximal_nodes_
           x == v'
<1>1. /\ main = "look"
      /\ UNCHANGED <<inputVars, wanted, queue, work, moved, found, maximal_nodes_>>
      /\ IF Skipped(v) THEN main' = "check" /\ x = r + 1 ELSE main' = "count" /\ x = r
  BY DEF Look, resultVars
<1>2. Account("look", r, K, W, M, f, n) /\ InputOK
  BY <1>1 DEF EInv, InputsOK
<1>3. r \in Nat /\ r \in DOMAIN graph_
  <2>1. r \in Nat /\ r < RSize
    BY <1>2 DEF Account, LoopOK
  <2> QED BY <2>1, RowsOf
<1>4. Skipped(v) <=> Passed(graph_, min_l_size_, r)
  BY <1>3, SkippedPassed
<1> HIDE DEF r, K, W, M, f, n, x
<1>5. CASE Skipped(v)
  <2>1. Passed(graph_, min_l_size_, r) /\ x = r + 1 /\ main' = "check"
    BY <1>1, <1>4, <1>5
  <2>2. Account("check", x, K, W, M, f, n)
    BY <1>2, <1>3, <2>1, PassedOver
  <2>3. Account(main', v', queue', work', moved', found', maximal_nodes_')
    BY <1>1, <2>1, <2>2 DEF x, K, W, M, f, n
  <2> QED BY <1>1, <2>1, <2>3, MainGoes DEF x, r
<1>6. CASE ~Skipped(v)
  <2>1. Expanded(r) /\ x = r /\ main' = "count"
    BY <1>1, <1>3, <1>4, <1>6 DEF Expanded
  <2>2. LoopOK("count", r, K, W)
    BY <1>2, <2>1 DEF Account, LoopOK
  <2>3. Account("count", r, K, W, M, f, n)
    BY <1>2, <2>2, AccountAt
  <2>4. Account(main', v', queue', work', moved', found', maximal_nodes_')
    BY <1>1, <2>1, <2>3 DEF x, K, W, M, f, n
  <2> QED BY <1>1, <2>1, <2>4, MainGoes DEF x, r
<1> QED BY <1>5, <1>6

\* The vertex v is given to a task.
LEMMA RootTaken ==
  ASSUME InputOK, NEW r \in Nat, NEW K, NEW W, NEW M, NEW f, NEW n,
         Account("run", r, K, W, M, f, n),
         NEW q, q = RootTask(r), NEW L, L = K \cup {q}, NEW x, x = r + 1
  PROVE  Account("check", x, L, W, M, f, n)
<1>1. PICK P : SharedBy(P, r, K, W) /\ MovedOK(r, W, M, P) /\ Settled(P, f, n)
  BY DEF Account
<1>2. TaskShare(q) = RootShare(r)
  BY TaskShares
<1>3. SharedBy(P, x, L, W)
  BY <1>1, <1>2, RootGiven
<1>4. /\ \A w : WorkOK(w, r) => WorkOK(w, x)
      /\ \A p : TaskOK(p, r) => TaskOK(p, x)
      /\ MovedOK(x, W, M, P)
  BY <1>1, Later
<1>5. TaskOK(q, x)
  <2>1. r \in 0 .. x - 1
    OBVIOUS
  <2> QED BY <2>1 DEF Account, LoopOK, TaskOK
<1>6. LoopOK("check", x, L, W)
  BY DEF LoopOK
<1> QED BY <1>1, <1>3, <1>4, <1>5, <1>6 DEF Account

\* Execute runs the task of v.
LEMMA RunRootGoes ==
  ASSUME EInv, RunRoot
  PROVE  Goes
<1> DEFINE r == v
           K == queue
           W == work
           M == moved
           f == found
           n == maximal_nodes_
           x == v'
           L == queue'
           q == RootTask(v)
<1>1. /\ main = "run" /\ main' = "check"
      /\ UNCHANGED <<inputVars, wanted, work, moved, found, maximal_nodes_>>
      /\ L = K \cup {q} /\ q = RootTask(r) /\ x = r + 1
  BY DEF RunRoot, resultVars
<1>2. Account("run", r, K, W, M, f, n) /\ InputOK /\ r \in Nat
  BY <1>1, RowsOf DEF EInv, InputsOK
<1> HIDE DEF r, K, W, M, f, n, x, L, q
<1>3. Account("check", x, L, W, M, f, n)
  BY <1>1, <1>2, RootTaken
<1>4. Account(main', v', queue', work', moved', found', maximal_nodes_')
  BY <1>1, <1>3 DEF x, L, W, M, f, n
<1>5. v' = v + 1 /\ \A p \in queue' : p \in queue \/ TaskShare(p) \subseteq From(v)
  <2>1. TaskShare(q) \subseteq From(r)
    BY <1>1, TaskShares DEF RootShare
  <2> QED BY <1>1, <2>1 DEF r, x, L, K
<1> QED BY <1>1, <1>4, <1>5, MainGoes

\* When the group has nothing more to do, all is found.
LEMMA WaitFinds ==
  ASSUME EInv, WaitReturns
  PROVE  EInv' /\ found = wanted
<1> DEFINE r == v
           K == queue
           W == work
           M == moved
           f == found
           n == maximal_nodes_
<1>1. /\ main = "wait" /\ K = {} /\ \A t \in Threads : W[t] = Idle
      /\ main' = "done"
      /\ UNCHANGED <<inputVars, wanted, v, queue, work, moved, found, maximal_nodes_>>
  BY DEF WaitReturns, resultVars
<1>2. Account("wait", r, K, W, M, f, n)
  BY <1>1 DEF EInv
<1>3. LoopOK("done", r, K, W) /\ r = RSize
  BY <1>1, <1>2 DEF Account, LoopOK
<1>4. PICK P : SharedBy(P, r, K, W) /\ Settled(P, f, n)
  BY <1>2 DEF Account
<1>5. From(r) = {}
  BY <1>3, RowsOf, TodoEnds DEF From
<1>6. \A t \in Threads : Share(W[t]) = {}
  BY <1>1, EmptyStack DEF Share, Idle
<1>7. P = {}
  BY <1>1, <1>4, <1>5, <1>6 DEF SharedBy, IsLeft
<1>8. f = wanted
  <2>1. All \ P = All
    BY <1>7
  <2> QED BY <1>4, <2>1 DEF Settled, EInv, InputsOK
<1> HIDE DEF r, K, W, M, f, n
<1>9. Account("done", r, K, W, M, f, n)
  BY <1>2, <1>3, AccountAt
<1>10. Account(main', v', queue', work', moved', found', maximal_nodes_')
  BY <1>1, <1>9 DEF r, K, W, M, f, n
<1>11. EInv'
  BY <1>1, <1>10, Accounted
<1> QED BY <1>8, <1>11 DEF f

----------------------------------------------------------------------------
(* The specification.                                                      *)

\* The graph is one that BiGraph and Reorder have made, and no two vertices of R
\* share a list of more than NN: with such twins some bicliques are lost or
\* counted twice.
GraphOK ==
  /\ InputOK /\ Ordered(graph_)
  /\ RSize = Cardinality(DOMAIN graph_)
  /\ \A r \in DOMAIN graph_ :
       r > 0 /\ graph_[r] = graph_[r - 1] => Cardinality(graph_[r]) <= NN

EnumSpec == GraphOK /\ ParSpec

\* At first everything is to be found by the roots.
LEMMA InitEInv == GraphOK /\ InitState => EInv
<1> SUFFICES ASSUME GraphOK, InitState PROVE EInv
  OBVIOUS
<1>1. wanted = Known(All)
  BY AllCounted DEF GraphOK, InitState, Known
<1>2. InputsOK
  BY <1>1 DEF GraphOK, InputsOK
<1> DEFINE W == work
           K == queue
           M == moved
           f == found
           n == maximal_nodes_
<1>3. /\ DOMAIN W = Threads /\ \A t \in Threads : W[t] = Idle
      /\ K = {} /\ M = {} /\ f = {} /\ n = 0 /\ main = "check" /\ v = 0
  BY DEF InitState
<1> HIDE DEF W, K, M, f, n
<1>4. LoopOK("check", 0, K, W)
  BY DEF LoopOK
<1>5. WorkOK(Idle, 0) /\ Share(Idle) = {}
  BY EmptyStack DEF WorkOK, Share, Idle
<1>6. SharedBy(All, 0, K, W)
  <2>1. From(0) = All
    BY DEF From, All
  <2>2. Separate(0, K, W)
    BY <1>3, <1>5 DEF Separate
  <2> QED BY <1>3, <1>5, <2>1, <2>2 DEF SharedBy, IsLeft
<1>7. MovedOK(0, W, M, All)
  <2>1. Leaving(W, M) = {}
    BY <1>3 DEF Leaving, Idle
  <2> QED BY <2>1 DEF MovedOK
<1>8. Settled(All, f, n)
  <2>1. All \ All = {}
    OBVIOUS
  <2>2. Known({}) = {}
    BY DEF Known, Counted
  <2> QED BY <1>3, <2>1, <2>2, FS_EmptySet DEF Settled
<1>9. Account("check", 0, K, W, M, f, n)
  BY <1>3, <1>4, <1>5, <1>6, <1>7, <1>8 DEF Account
<1> QED BY <1>2, <1>3, <1>9 DEF EInv, K, W, M, f, n

\* Nothing that the account is about changes.
LEMMA StaysEInv == EInv /\ UNCHANGED vars => EInv'
<1> SUFFICES ASSUME EInv, UNCHANGED vars PROVE EInv'
  OBVIOUS
<1>1. UNCHANGED <<inputVars, wanted, main, v, queue, work, moved, found, maximal_nodes_>>
  BY DEF vars, mainVars, resultVars
<1>2. Account(main', v', queue', work', moved', found', maximal_nodes_')
  BY <1>1 DEF EInv
<1> QED BY <1>1, <1>2, Accounted

\* Every step keeps the account: it counts one biclique more or none, or is the
\* return from Execute.
LEMMA NextEInv ==
  EInv /\ [Next]_vars =>
    /\ EInv'
    /\ \/ Goes
       \/ WaitReturns /\ found = wanted
       \/ UNCHANGED vars
<1> SUFFICES ASSUME EInv, [Next]_vars
             PROVE  /\ EInv'
                    /\ \/ Goes
                       \/ WaitReturns /\ found = wanted
                       \/ UNCHANGED vars
  OBVIOUS
<1>1. CASE MainStep
  <2>1. Check \/ CountRoot \/ LoopEnds \/ Look \/ RunRoot \/ WaitReturns
    BY <1>1 DEF MainStep
  <2>2. CASE Check \/ CountRoot \/ LoopEnds
    BY <2>2, LoopGoes DEF Goes
  <2>3. CASE Look
    BY <2>3, LookGoes DEF Goes
  <2>4. CASE RunRoot
    BY <2>4, RunRootGoes DEF Goes
  <2>5. CASE WaitReturns
    BY <2>5, WaitFinds
  <2> QED BY <2>1, <2>2, <2>3, <2>4, <2>5
<1>2. CASE \E t \in Threads : TaskStep(t)
  BY <1>2, TaskStepGoes DEF Goes
<1>3. CASE UNCHANGED vars
  BY <1>3, StaysEInv
<1> QED BY <1>1, <1>2, <1>3 DEF Next, Stopped

----------------------------------------------------------------------------
(* The theorems.                                                           *)

\* Each biclique is counted, or is to be found by exactly one of the roots that
\* Execute has not come to, the tasks in the group and the threads; a list that is
\* moved away belongs to a biclique counted before.
THEOREM FoundByOne == EnumSpec => []EInv
<1>1. GraphOK /\ InitState => EInv
  BY InitEInv
<1>2. EInv /\ [Next]_vars => EInv'
  BY NextEInv
<1> QED BY <1>1, <1>2, PTL DEF EnumSpec, ParSpec

\* CountExact: the number Execute leaves behind is that of the wanted bicliques.
THEOREM CountsThemAll == EnumSpec => []CountExact
<1>1. EInv /\ main = "done" => found = wanted
  <2> SUFFICES ASSUME EInv, main = "done" PROVE found = wanted
    OBVIOUS
  <2>1. LoopOK(main, v, queue, work)
    BY DEF EInv, Account
  <2>2. PICK P : SharedBy(P, v, queue, work) /\ Settled(P, found, maximal_nodes_)
    BY DEF EInv, Account
  <2>3. From(v) = {}
    BY <2>1, RowsOf, TodoEnds DEF From, LoopOK
  <2>4. \A t \in Threads : Share(work[t]) = {}
    BY <2>1, EmptyStack DEF LoopOK, Share, Idle
  <2>5. P = {}
    BY <2>1, <2>2, <2>3, <2>4 DEF SharedBy, IsLeft, LoopOK
  <2>6. All \ P = All
    BY <2>5
  <2> QED BY <2>2, <2>6 DEF Settled, EInv, InputsOK
<1>2. EInv => maximal_nodes_ = Cardinality(found)
  BY DEF EInv, Account, Settled
<1>3. EInv => CountExact
  BY <1>1, <1>2 DEF CountExact
<1> QED BY <1>3, FoundByOne, PTL

\* Enumerates: ParAdaMBE implements MBEnum, whatever the interleaving and the
\* number of threads.  Each wanted biclique is counted once, nothing else is, and
\* Execute returns only when all are counted.
THEOREM EnumeratesInParallel == EnumSpec => Enumerates
<1>1. GraphOK /\ InitState => Enum!EnumInit
  BY DEF InitState, Enum!EnumInit
<1>2. EInv /\ [Next]_vars => [Enum!EnumNext]_(Enum!enumVars)
  <2> SUFFICES ASSUME EInv, [Next]_vars PROVE [Enum!EnumNext]_(Enum!enumVars)
    OBVIOUS
  <2>1. Goes \/ (WaitReturns /\ found = wanted) \/ UNCHANGED vars
    BY NextEInv
  <2>2. CASE Goes
    <3>1. /\ wanted' = wanted /\ main # "done" /\ main' # "done"
          /\ Counts(found, maximal_nodes_, found', maximal_nodes_')
      BY <2>2 DEF Goes
    <3> QED BY <3>1 DEF Counts, Enum!EnumNext, Enum!Report, Enum!enumVars
  <2>3. CASE WaitReturns /\ found = wanted
    BY <2>3 DEF WaitReturns, resultVars, Enum!EnumNext, Enum!Finish, Enum!enumVars
  <2>4. CASE UNCHANGED vars
    BY <2>4 DEF vars, mainVars, resultVars, Enum!enumVars
  <2> QED BY <2>1, <2>2, <2>3, <2>4
<1> QED BY <1>1, <1>2, FoundByOne, PTL DEF EnumSpec, ParSpec, Enumerates
----------------------------------------------------------------------------
(* The schedule.  The group is a set here and two numbers in ParTasks: the *)
(* step is one of ParTasks because no task is run that is in the group     *)
(* already, and because no more children are counted than bicliques exist. *)

\* The L sides of the children in hand and in the group, K, are found already,
\* and no two of them are the same.
GivenOK(r, K, W) ==
  /\ \A q \in K : q.kind = "set" => q.frame[1].L \notin Open(r, K, W)
  /\ \A t \in Threads : W[t].st = "fork" =>
       /\ W[t].child[1].L \notin Open(r, K, W)
       /\ \A q \in K : q.kind = "set" => q.frame[1].L # W[t].child[1].L
       /\ \A u \in Threads : u # t /\ W[u].st = "fork" =>
                               W[u].child[1].L # W[t].child[1].L

SInv ==
  /\ EInv /\ IInv
  /\ IsFiniteSet(queue)
  /\ GivenOK(v, queue, work)
  /\ MaxForks \in Nat /\ Cardinality(All) <= MaxForks
  /\ forked \in Nat /\ forked <= Cardinality(All \ Open(v, queue, work))

\* What ParTasks sees of the group and of the threads.
AQueue == [k \in {"root", "set"} |-> Cardinality({q \in queue : q.kind = k})]
AWork == [t \in Threads |-> AbstractWork(work[t])]

\* There are finitely many bicliques.
LEMMA FiniteAll == InputOK => IsFiniteSet(All)
<1> SUFFICES ASSUME InputOK PROVE IsFiniteSet(All)
  OBVIOUS
<1> DEFINE Rows == {graph_[r] : r \in DOMAIN graph_}
<1>1. PICK n \in Nat : DOMAIN graph_ = 0 .. n - 1
  BY DEF InputOK, IsGraph
<1>2. IsFiniteSet(Rows)
  <2>1. IsFiniteSet(DOMAIN graph_)
    BY <1>1, FS_Interval
  <2> DEFINE f == [r \in DOMAIN graph_ |-> graph_[r]]
  <2>2. f \in Surjection(DOMAIN graph_, Rows)
    BY DEF Surjection
  <2> HIDE DEF f
  <2> QED BY <2>1, <2>2, FS_Surjection
<1>3. \A T \in Rows : IsFiniteSet(T)
  BY DEF InputOK, IsGraph
<1> HIDE DEF Rows
<1>4. IsFiniteSet(SUBSET (UNION Rows))
  BY <1>2, <1>3, FS_UNION, FS_SUBSET
<1>5. All \subseteq SUBSET (UNION Rows)
  BY DEF All, TodoFrom, Rows
<1> QED BY <1>4, <1>5, FS_Subset

\* What is to be found depends on the input, the loop, the group and the threads.
LEMMA OpenKept ==
  ASSUME UNCHANGED inputVars
  PROVE  All' = All /\ \A r, K, W : Open(r, K, W)' = Open(r, K, W)
<1>1. All' = All
  BY DEF All, inputVars
<1>2. \A T, r, K, W : IsLeft(T, r, K, W)' <=> IsLeft(T, r, K, W)
  BY SharesKept DEF IsLeft
<1> QED BY <1>1, <1>2 DEF Open

\* What is found stays found, so that the children in hand and in the group stay
\* apart if none is added.
LEMMA GivenKept ==
  ASSUME NEW r, NEW K, NEW W, GivenOK(r, K, W), NEW s, NEW L, NEW X,
         Open(s, L, X) \subseteq Open(r, K, W),
         \A q \in L : q.kind = "set" => q \in K,
         \A t \in Threads : X[t].st = "fork" => X[t] = W[t]
  PROVE  GivenOK(s, L, X)
BY DEF GivenOK

\* The number of children counted, if one of them is that of T.
LEMMA ForksKept ==
  ASSUME SInv, NEW N, N \subseteq Open(v, queue, work)
  PROVE  /\ forked <= Cardinality(All \ N)
         /\ \A T \in Open(v, queue, work) \ N :
              forked + 1 <= Cardinality(All \ N) /\ forked < MaxForks
<1> DEFINE P == Open(v, queue, work)
           F == All \ P
           G == All \ N
<1>1. IsFiniteSet(All)
  BY FiniteAll DEF SInv, EInv, InputsOK
<1>2. F \subseteq G /\ G \subseteq All /\ F \subseteq All
  OBVIOUS
<1>3. /\ IsFiniteSet(F) /\ IsFiniteSet(G)
      /\ Cardinality(F) <= Cardinality(G) /\ Cardinality(G) <= Cardinality(All)
      /\ Cardinality(F) \in Nat /\ Cardinality(G) \in Nat /\ Cardinality(All) \in Nat
  BY <1>1, <1>2, FS_Subset, FS_CardinalityType
<1>4. forked \in Nat /\ MaxForks \in Nat /\ Cardinality(All) <= MaxForks
      /\ forked <= Cardinality(F)
  BY DEF SInv
<1>5. ASSUME NEW T \in P, T \notin N
      PROVE  Cardinality(F) + 1 <= Cardinality(G)
  <2> DEFINE H == F \cup {T}
  <2>1. T \in All /\ T \notin F
    BY <1>5 DEF Open
  <2>2. IsFiniteSet(H) /\ Cardinality(H) = Cardinality(F) + 1
    BY <1>3, <2>1, FS_AddElement
  <2>3. H \subseteq G
    BY <1>2, <1>5, <2>1
  <2> QED BY <1>3, <2>2, <2>3, FS_Subset
<1> HIDE DEF P, F, G
<1>6. forked <= Cardinality(G)
  BY <1>3, <1>4
<1>7. \A T \in P \ N : forked + 1 <= Cardinality(G) /\ forked < MaxForks
  <2> TAKE T \in P \ N
  <2>1. Cardinality(F) + 1 <= Cardinality(G)
    BY <1>5
  <2> QED BY <1>3, <1>4, <2>1
<1> QED BY <1>6, <1>7 DEF P, G

\* A step that counts no child and gives none away.
LEMMA SInvKept ==
  ASSUME SInv, EInv', IInv', UNCHANGED <<inputVars, forked>>, IsFiniteSet(queue'),
         Open(v', queue', work') \subseteq Open(v, queue, work),
         \A q \in queue' : q.kind = "set" => q \in queue,
         \A t \in Threads : work'[t].st = "fork" => work'[t] = work[t]
  PROVE  SInv'
<1>1. /\ GivenOK(v', queue', work')
      /\ forked <= Cardinality(All \ Open(v', queue', work'))
  BY GivenKept, ForksKept DEF SInv
<1>2. All' = All /\ \A r, K, W : Open(r, K, W)' = Open(r, K, W)
  BY OpenKept
<1>3. GivenOK(v, queue, work)' <=> GivenOK(v', queue', work')
  BY <1>2 DEF GivenOK
<1>4. Open(v, queue, work)' = Open(v', queue', work')
  BY <1>2
<1> QED BY <1>1, <1>2, <1>3, <1>4 DEF SInv

\* The task q is added to the group, or taken from it.
LEMMA GroupGrows ==
  ASSUME IsFiniteSet(queue), NEW q, q \notin queue, q.kind \in {"root", "set"},
         queue' = queue \cup {q}
  PROVE  IsFiniteSet(queue') /\ AQueue' = [AQueue EXCEPT ![q.kind] = @ + 1]
<1> DEFINE A(k) == {p \in queue : p.kind = k}
           B(k) == {p \in queue' : p.kind = k}
<1>1. IsFiniteSet(queue')
  BY FS_AddElement
<1>2. \A k : IsFiniteSet(A(k))
  BY FS_Subset
<1>3. \A k : B(k) = IF k = q.kind THEN A(k) \cup {q} ELSE A(k)
  OBVIOUS
<1>4. q \notin A(q.kind)
  OBVIOUS
<1>5. AQueue = [k \in {"root", "set"} |-> Cardinality(A(k))]
      /\ AQueue' = [k \in {"root", "set"} |-> Cardinality(B(k))]
  BY DEF AQueue
<1> HIDE DEF A, B
<1>6. Cardinality(B(q.kind)) = Cardinality(A(q.kind)) + 1
  BY <1>2, <1>3, <1>4, FS_AddElement
<1> QED BY <1>1, <1>3, <1>5, <1>6

LEMMA GroupShrinks ==
  ASSUME IsFiniteSet(queue), NEW q \in queue, q.kind \in {"root", "set"},
         queue' = queue \ {q}
  PROVE  /\ IsFiniteSet(queue') /\ AQueue[q.kind] > 0
         /\ AQueue' = [AQueue EXCEPT ![q.kind] = @ - 1]
<1> DEFINE A(k) == {p \in queue : p.kind = k}
           B(k) == {p \in queue' : p.kind = k}
<1>1. IsFiniteSet(queue')
  BY FS_RemoveElement
<1>2. \A k : IsFiniteSet(A(k)) /\ IsFiniteSet(B(k))
  BY <1>1, FS_Subset
<1>3. \A k : B(k) = IF k = q.kind THEN A(k) \ {q} ELSE A(k)
  OBVIOUS
<1>4. q \in A(q.kind)
  OBVIOUS
<1>5. AQueue = [k \in {"root", "set"} |-> Cardinality(A(k))]
      /\ AQueue' = [k \in {"root", "set"} |-> Cardinality(B(k))]
  BY DEF AQueue
<1> HIDE DEF A, B
<1>6. Cardinality(B(q.kind)) = Cardinality(A(q.kind)) - 1
      /\ Cardinality(B(q.kind)) \in Nat /\ Cardinality(A(q.kind)) \in Nat
  BY <1>2, <1>3, <1>4, FS_RemoveElement, FS_CardinalityType
<1> QED BY <1>1, <1>3, <1>5, <1>6

\* What ParTasks sees of a thread.
LEMMA AbstractIs ==
  ASSUME NEW w
  PROVE  /\ w.st \in {"move", "set"} => AbstractWork(w) = "set"
         /\ w.st \in {"small", "bits", "free"} => AbstractWork(w) = "tail"
         /\ w.st \in {"idle", "root", "fork"} => AbstractWork(w) = w.st
BY DEF AbstractWork

\* A step of a thread that leaves the group alone.
LEMMA ThreadMoves ==
  ASSUME SInv, Goes, IInv', NEW t \in Threads, NEW w, Become(t, w), w.st # "fork",
         UNCHANGED <<forked, queue>>
  PROVE  /\ SInv' /\ AQueue' = AQueue
         /\ AWork' = [AWork EXCEPT ![t] = AbstractWork(w)]
         /\ AWork[t] = AbstractWork(work[t])
<1>1. work' = [work EXCEPT ![t] = w] /\ DOMAIN work = Threads
  BY DEF SInv, IInv, Become
<1>2. \A u \in Threads : work'[u] = IF u = t THEN w ELSE work[u]
  BY <1>1
<1>3. SInv'
  BY <1>2, SInvKept DEF SInv, Goes
<1> QED BY <1>2, <1>3 DEF AQueue, AWork

\* A step is one of ParTasks, or none.
Scheduled == SInv' /\ [Tasks!Next]_(Tasks!vars)

\* What ParTasks does not see.
LEMMA Unseen ==
  ASSUME SInv, Goes, IInv', NEW t \in Threads, NEW w, Become(t, w), w.st # "fork",
         UNCHANGED <<main, v, task_num, tn, forked, queue>>,
         AbstractWork(w) = AbstractWork(work[t])
  PROVE  Scheduled
<1>1. /\ SInv' /\ AQueue' = AQueue /\ AWork' = [AWork EXCEPT ![t] = AbstractWork(w)]
      /\ AWork[t] = AbstractWork(work[t])
  BY ThreadMoves
<1>2. AWork' = AWork
  BY <1>1 DEF AWork
<1> QED BY <1>1, <1>2 DEF Scheduled, Tasks!vars, AQueue, AWork

\* The threads keep their indices as they should.
LEMMA TaskStepIInv ==
  ASSUME IInv, NEW t \in Threads, TaskStep(t)
  PROVE  IInv'
BY RootKeeps, SearchKeeps, ForkKeeps, EndKeeps DEF TaskStep

\* A thread expands candidates and returns.
LEMMA SearchScheduled ==
  ASSUME SInv, NEW t \in Threads,
         \/ SkipCandidate(t) \/ NotMaximal(t) \/ SmallCandidate(t) \/ Entry(t)
         \/ SerialChild(t) \/ Return(t)
  PROVE  Scheduled
<1>1. Goes /\ IInv'
  BY TaskStepGoes, TaskStepIInv DEF SInv, TaskStep
<1>2. PICK s : Become(t, [work[t] EXCEPT !.stack = s])
  BY DEF SkipCandidate, NotMaximal, SmallCandidate, Entry, SerialChild, Return,
         Continue, Call
<1> DEFINE w == [work[t] EXCEPT !.stack = s]
<1>3. work[t].st \in {"set", "bits"} /\ Placed(work[t])
  BY DEF SInv, IInv, SkipCandidate, NotMaximal, SmallCandidate, Entry, SerialChild,
         Return, IsLarge, On
<1>4. w.st = work[t].st
  BY <1>3 DEF Placed
<1>5. UNCHANGED <<main, v, task_num, tn, forked, queue>>
  BY DEF SkipCandidate, NotMaximal, SmallCandidate, Entry, SerialChild, Return,
         Private, mainVars
<1> HIDE DEF w
<1>6. AbstractWork(w) = AbstractWork(work[t]) /\ w.st # "fork"
  BY <1>3, <1>4, AbstractIs
<1> QED BY <1>1, <1>2, <1>5, <1>6, Unseen DEF w

\* A step of the thread t that is one of ParTasks and leaves the group alone.
LEMMA SmallRootScheduled ==
  ASSUME SInv, NEW t \in Threads, SmallRoot(t)
  PROVE  Scheduled
<1> DEFINE w == [work[t] EXCEPT !.st = "small"]
<1>1. Goes /\ IInv'
  BY TaskStepGoes, TaskStepIInv DEF SInv, TaskStep
<1>2. /\ Become(t, w) /\ work[t].st = "root" /\ Placed(work[t])
      /\ UNCHANGED <<main, v, tn, forked, queue>> /\ task_num' = task_num - 1
  BY DEF SmallRoot, SInv, IInv, mainVars
<1>3. w.st = "small"
  BY <1>2 DEF Placed
<1> HIDE DEF w
<1>4. AbstractWork(w) = "tail" /\ AbstractWork(work[t]) = "root"
  BY <1>2, <1>3, AbstractIs
<1>5. /\ SInv' /\ AQueue' = AQueue /\ AWork' = [AWork EXCEPT ![t] = "tail"]
      /\ AWork[t] = "root"
  BY <1>1, <1>2, <1>3, <1>4, ThreadMoves
<1>6. Tasks!SmallRoot(t)
  BY <1>2, <1>5 DEF Tasks!SmallRoot, Tasks!Become, AQueue, AWork
<1> QED BY <1>5, <1>6 DEF Scheduled, Tasks!Next, Tasks!TaskStep

\* A small root is expanded, which ParTasks does not see.
LEMMA ExpandBitRootScheduled ==
  ASSUME SInv, NEW t \in Threads, ExpandBitRoot(t)
  PROVE  Scheduled
<1> DEFINE w == [work[t] EXCEPT !.st = "bits", !.stack = <<BitRoot(work[t].v)>>]
<1>1. Goes /\ IInv'
  BY TaskStepGoes, TaskStepIInv DEF SInv, TaskStep
<1>2. /\ Become(t, w) /\ work[t].st = "small" /\ Placed(work[t])
      /\ UNCHANGED <<main, v, task_num, tn, forked, queue>>
  BY DEF ExpandBitRoot, SInv, IInv, mainVars
<1>3. w.st = "bits"
  BY <1>2 DEF Placed
<1> HIDE DEF w
<1>4. AbstractWork(w) = AbstractWork(work[t])
  BY <1>2, <1>3, AbstractIs
<1> QED BY <1>1, <1>2, <1>3, <1>4, Unseen

\* A large root goes on as an activation.
LEMMA LargeRootScheduled ==
  ASSUME SInv, NEW t \in Threads, LargeRoot(t)
  PROVE  Scheduled
<1> DEFINE w == [work[t] EXCEPT !.st = "move", !.stack = <<SetRoot(work[t].v)>>]
<1>1. Goes /\ IInv'
  BY TaskStepGoes, TaskStepIInv DEF SInv, TaskStep
<1>2. /\ Become(t, w) /\ work[t].st = "root" /\ Placed(work[t])
      /\ UNCHANGED <<main, v, task_num, tn, forked, queue>>
  BY DEF LargeRoot, SInv, IInv, mainVars
<1>3. w.st = "move"
  BY <1>2 DEF Placed
<1> HIDE DEF w
<1>4. AbstractWork(w) = "set" /\ AbstractWork(work[t]) = "root"
  BY <1>2, <1>3, AbstractIs
<1>5. /\ SInv' /\ AQueue' = AQueue /\ AWork' = [AWork EXCEPT ![t] = "set"]
      /\ AWork[t] = "root"
  BY <1>1, <1>2, <1>3, <1>4, ThreadMoves
<1>6. Tasks!LargeRoot(t)
  BY <1>2, <1>5 DEF Tasks!LargeRoot, Tasks!Become, AQueue, AWork
<1> QED BY <1>5, <1>6 DEF Scheduled, Tasks!Next, Tasks!TaskStep

\* Its list is moved away, which ParTasks does not see.
LEMMA MoveRootScheduled ==
  ASSUME SInv, NEW t \in Threads, MoveRoot(t)
  PROVE  Scheduled
<1> DEFINE w == [work[t] EXCEPT !.st = "set"]
<1>1. Goes /\ IInv'
  BY TaskStepGoes, TaskStepIInv DEF SInv, TaskStep
<1>2. /\ Become(t, w) /\ work[t].st = "move" /\ Placed(work[t])
      /\ UNCHANGED <<main, v, task_num, tn, forked, queue>>
  BY DEF MoveRoot, SInv, IInv, mainVars
<1>3. w.st = "set"
  BY <1>2 DEF Placed
<1> HIDE DEF w
<1>4. AbstractWork(w) = AbstractWork(work[t])
  BY <1>2, <1>3, AbstractIs
<1> QED BY <1>1, <1>2, <1>3, <1>4, Unseen

\* The child in hand is called.
LEMMA KeepChildScheduled ==
  ASSUME SInv, NEW t \in Threads, KeepChild(t)
  PROVE  Scheduled
<1> DEFINE w == [work[t] EXCEPT !.st = "set", !.child = <<>>, !.stack = @ \o work[t].child]
<1>1. Goes /\ IInv'
  BY TaskStepGoes, TaskStepIInv DEF SInv, TaskStep
<1>2. /\ Become(t, w) /\ work[t].st = "fork" /\ tn[t] >= MAX_TASK_NUM
      /\ UNCHANGED <<main, v, forked, queue>>
      /\ task_num' = task_num - 1 /\ tn' = [tn EXCEPT ![t] = 0]
  BY DEF KeepChild, mainVars
<1>3. w.st = "set"
  BY <1>2 DEF SInv, IInv, Placed
<1> HIDE DEF w
<1>4. AbstractWork(w) = "set" /\ AbstractWork(work[t]) = "fork"
  BY <1>2, <1>3, AbstractIs
<1>5. /\ SInv' /\ AQueue' = AQueue /\ AWork' = [AWork EXCEPT ![t] = "set"]
      /\ AWork[t] = "fork"
  BY <1>1, <1>2, <1>3, <1>4, ThreadMoves
<1>6. Tasks!KeepChild(t)
  BY <1>2, <1>5 DEF Tasks!KeepChild, Tasks!Become, AQueue, AWork
<1> QED BY <1>5, <1>6 DEF Scheduled, Tasks!Next, Tasks!TaskStep

\* biclique_find ends, then its task; a small root's task ends.
LEMMA EndSetScheduled ==
  ASSUME SInv, NEW t \in Threads, EndSet(t)
  PROVE  Scheduled
<1> DEFINE w == [Idle EXCEPT !.st = "free"]
<1>1. Goes /\ IInv'
  BY TaskStepGoes, TaskStepIInv DEF SInv, TaskStep
<1>2. /\ Become(t, w) /\ work[t].st = "set" /\ w.st = "free"
      /\ UNCHANGED <<main, v, tn, forked, queue>> /\ task_num' = task_num - 1
  BY DEF EndSet, mainVars, Idle
<1> HIDE DEF w
<1>3. AbstractWork(w) = "tail" /\ AbstractWork(work[t]) = "set"
  BY <1>2, AbstractIs
<1>4. /\ SInv' /\ AQueue' = AQueue /\ AWork' = [AWork EXCEPT ![t] = "tail"]
      /\ AWork[t] = "set"
  BY <1>1, <1>2, <1>3, ThreadMoves
<1>5. Tasks!EndSet(t)
  BY <1>2, <1>4 DEF Tasks!EndSet, Tasks!Become, AQueue, AWork
<1> QED BY <1>4, <1>5 DEF Scheduled, Tasks!Next, Tasks!TaskStep

LEMMA EndTaskScheduled ==
  ASSUME SInv, NEW t \in Threads, FreeAtEnd(t) \/ EndBits(t)
  PROVE  Scheduled
<1>1. Goes /\ IInv'
  BY TaskStepGoes, TaskStepIInv DEF SInv, TaskStep
<1>2. /\ Become(t, Idle) /\ work[t].st \in {"free", "bits"} /\ Idle.st = "idle"
      /\ UNCHANGED <<main, v, tn, forked, queue, task_num>>
  BY DEF FreeAtEnd, EndBits, Private, mainVars, Idle
<1>3. AbstractWork(Idle) = "idle" /\ AbstractWork(work[t]) = "tail"
  BY <1>2, AbstractIs
<1>4. /\ SInv' /\ AQueue' = AQueue /\ AWork' = [AWork EXCEPT ![t] = "idle"]
      /\ AWork[t] = "tail"
  BY <1>1, <1>2, <1>3, ThreadMoves
<1>5. Tasks!EndTask(t)
  BY <1>2, <1>4 DEF Tasks!EndTask, Tasks!Become, AQueue, AWork
<1> QED BY <1>4, <1>5 DEF Scheduled, Tasks!Next, Tasks!TaskStep

\* A task is taken from the group.
LEMMA TakeScheduled ==
  ASSUME SInv, NEW t \in Threads, NEW q \in queue, Take(t, q)
  PROVE  Scheduled
<1> DEFINE w == [Idle EXCEPT !.st = q.kind, !.v = q.v, !.stack = q.frame]
<1>1. Goes /\ IInv'
  BY TaskStepGoes, TaskStepIInv DEF SInv, TaskStep
<1>2. /\ Become(t, w) /\ work[t] = Idle /\ (t = Main => main = "wait")
      /\ queue' = queue \ {q} /\ UNCHANGED <<main, v, tn, forked, task_num>>
  BY DEF Take, mainVars
<1>3. q.kind \in {"root", "set"} /\ Idle.st = "idle"
  BY DEF SInv, IInv, TypedTasks, Idle
<1>4. w.st = q.kind
  <2>1. IsWork(w, q.kind, q.v, q.frame, <<>>)
    BY Begins
  <2> QED BY <2>1 DEF IsWork
<1> HIDE DEF w
<1>5. AbstractWork(w) = q.kind /\ AbstractWork(work[t]) = "idle"
  BY <1>2, <1>3, <1>4, AbstractIs
<1>6. DOMAIN work = Threads
  BY DEF SInv, IInv
<1>7. \A u \in Threads : work'[u] = IF u = t THEN w ELSE work[u]
  BY <1>2, <1>6 DEF Become
<1>8. /\ IsFiniteSet(queue') /\ AQueue[q.kind] > 0
      /\ AQueue' = [AQueue EXCEPT ![q.kind] = @ - 1]
  BY <1>2, <1>3, GroupShrinks DEF SInv
<1>9. AWork' = [AWork EXCEPT ![t] = q.kind] /\ AWork[t] = "idle"
  BY <1>5, <1>7 DEF AWork
<1>10. SInv'
  <2>1. w.st # "fork"
    BY <1>3, <1>4
  <2> QED BY <1>1, <1>2, <1>7, <1>8, <2>1, SInvKept DEF SInv, Goes
<1>11. Tasks!Take(t, q.kind)
  BY <1>2, <1>8, <1>9 DEF Tasks!Take, Tasks!Become, AQueue, AWork
<1> QED BY <1>3, <1>10, <1>11 DEF Scheduled, Tasks!Next, Tasks!TaskStep, Tasks!Kinds

\* A child is counted, one more than before.
LEMMA CountChildScheduled ==
  ASSUME SInv, NEW t \in Threads, CountChild(t)
  PROVE  Scheduled
<1> DEFINE T == SetChild(Top(t)).L
           N == Open(v', queue', work')
<1>1. IInv'
  BY TaskStepIInv DEF SInv, TaskStep
<1>2. /\ Goes /\ T \in Open(v, queue, work) /\ T \notin N
      /\ work'[t].st = "fork" /\ work'[t].child[1].L = T
  BY CountChildGoes DEF SInv
<1> HIDE DEF T
<1>3. /\ work[t].st = "set" /\ DOMAIN work = Threads
      /\ tn' = [tn EXCEPT ![t] = task_num] /\ task_num' = task_num + 1
      /\ UNCHANGED <<main, v, queue>> /\ forked' = forked + 1
      /\ \A u \in Threads : u # t => work'[u] = work[u]
  BY DEF CountChild, IsLarge, On, Become, SInv, IInv, mainVars
<1>4. N \subseteq Open(v, queue, work)
  BY <1>2 DEF Goes
<1>5. GivenOK(v', queue', work')
  BY <1>2, <1>3, <1>4 DEF GivenOK, SInv
<1>6. forked + 1 <= Cardinality(All \ N) /\ forked < MaxForks
  BY <1>2, <1>4, ForksKept
<1>7. SInv'
  <2>1. All' = All /\ \A r, K, W : Open(r, K, W)' = Open(r, K, W)
    BY <1>2, OpenKept DEF Goes
  <2>2. GivenOK(v, queue, work)' <=> GivenOK(v', queue', work')
    BY <2>1 DEF GivenOK
  <2>3. Open(v, queue, work)' = N
    BY <2>1
  <2>4. forked' \in Nat /\ forked' <= Cardinality(All \ N)
    BY <1>3, <1>6 DEF SInv
  <2>5. EInv'
    BY <1>2 DEF Goes
  <2> QED BY <1>1, <1>3, <1>5, <2>1, <2>2, <2>3, <2>4, <2>5 DEF SInv
<1>8. /\ AWork' = [AWork EXCEPT ![t] = "fork"] /\ AWork[t] = "set"
  BY <1>2, <1>3, AbstractIs DEF AWork
<1>9. AQueue' = AQueue
  BY <1>3 DEF AQueue
<1>10. MaxForks - forked > 0 /\ MaxForks - forked' = MaxForks - forked - 1
  BY <1>3, <1>6 DEF SInv
<1>11. Tasks!CountChild(t)
  BY <1>3, <1>8, <1>9, <1>10 DEF Tasks!CountChild, Tasks!Become, AQueue, AWork
<1> QED BY <1>7, <1>11 DEF Scheduled, Tasks!Next, Tasks!TaskStep

\* The child in hand goes to the group, where no such task is.
LEMMA RunChildScheduled ==
  ASSUME SInv, NEW t \in Threads, RunChild(t)
  PROVE  Scheduled
<1> DEFINE w == [work[t] EXCEPT !.st = "set", !.child = <<>>]
           g == work[t].child[1]
           q == SetTask(g)
<1>1. Goes /\ IInv'
  BY TaskStepGoes, TaskStepIInv DEF SInv, TaskStep
<1>2. /\ Become(t, w) /\ work[t].st = "fork" /\ tn[t] < MAX_TASK_NUM
      /\ queue' = queue \cup {q} /\ UNCHANGED <<main, v, forked, task_num>>
      /\ tn' = [tn EXCEPT ![t] = 0]
  BY DEF RunChild, mainVars
<1>3. w.st = "set" /\ DOMAIN work = Threads
  BY <1>2 DEF SInv, IInv, Placed
<1>4. q.kind = "set" /\ q.frame[1] = g
  BY DEF SetTask
<1> HIDE DEF w, q
<1>5. \A u \in Threads : work'[u] = IF u = t THEN w ELSE work[u]
  BY <1>2, <1>3 DEF Become
<1>6. /\ g.L \notin Open(v, queue, work)
      /\ \A p \in queue : p.kind = "set" => p.frame[1].L # g.L
      /\ \A u \in Threads : u # t /\ work[u].st = "fork" => work[u].child[1].L # g.L
  BY <1>2 DEF SInv, GivenOK
<1>7. q \notin queue
  BY <1>4, <1>6
<1>8. IsFiniteSet(queue') /\ AQueue' = [AQueue EXCEPT !["set"] = @ + 1]
  BY <1>2, <1>4, <1>7, GroupGrows DEF SInv
<1>9. AWork' = [AWork EXCEPT ![t] = "set"] /\ AWork[t] = "fork"
  BY <1>2, <1>3, <1>5, AbstractIs DEF AWork
<1>10. Open(v', queue', work') \subseteq Open(v, queue, work)
  BY <1>1 DEF Goes
<1>11. GivenOK(v', queue', work')
  <2> DEFINE N == Open(v', queue', work')
             Forks == {u \in Threads : work'[u].st = "fork"}
  <2>1. GivenOK(v, queue, work)
    BY DEF SInv
  <2>2. \A p \in queue' : p = q \/ p \in queue
    BY <1>2
  <2>3. \A u \in Forks : u # t /\ work'[u] = work[u] /\ work[u].st = "fork"
    BY <1>3, <1>5
  <2>4. g.L \notin N
    BY <1>6, <1>10
  <2>5. \A p \in queue' : p.kind = "set" => p.frame[1].L \notin N
    BY <1>4, <1>10, <2>1, <2>2, <2>4 DEF GivenOK
  <2>6. \A u \in Forks : work'[u].child[1].L \notin N
    BY <1>10, <2>1, <2>3 DEF GivenOK
  <2>7. \A u \in Forks, p \in queue' : p.kind = "set" => p.frame[1].L # work'[u].child[1].L
    BY <1>4, <1>6, <2>1, <2>2, <2>3 DEF GivenOK
  <2>8. \A u, x \in Forks : u # x => work'[u].child[1].L # work'[x].child[1].L
    BY <2>1, <2>3 DEF GivenOK
  <2> QED BY <2>5, <2>6, <2>7, <2>8 DEF GivenOK
<1>12. SInv'
  <2>1. All' = All /\ \A r, K, W : Open(r, K, W)' = Open(r, K, W)
    BY <1>1, OpenKept DEF Goes
  <2>2. GivenOK(v, queue, work)' <=> GivenOK(v', queue', work')
    BY <2>1 DEF GivenOK
  <2>3. Open(v, queue, work)' = Open(v', queue', work')
    BY <2>1
  <2>4. forked <= Cardinality(All \ Open(v', queue', work'))
    BY <1>10, ForksKept
  <2> QED BY <1>1, <1>2, <1>8, <1>11, <2>1, <2>2, <2>3, <2>4 DEF SInv, Goes
<1>13. Tasks!RunChild(t)
  BY <1>2, <1>8, <1>9 DEF Tasks!RunChild, Tasks!Become, AQueue, AWork
<1> QED BY <1>12, <1>13 DEF Scheduled, Tasks!Next, Tasks!TaskStep

\* Execute runs the task of v, which is not in the group yet.
LEMMA RunRootScheduled ==
  ASSUME SInv, RunRoot
  PROVE  Scheduled
<1> DEFINE q == RootTask(v)
<1>1. Goes /\ IInv'
  BY RunRootGoes, MainKeeps DEF SInv, MainStep
<1>2. /\ main = "run" /\ main' = "check" /\ queue' = queue \cup {q} /\ v' = v + 1
      /\ UNCHANGED <<forked, task_num, tn, work>>
  BY DEF RunRoot
<1>3. q.kind = "root"
  BY DEF RootTask
<1>4. q \notin queue
  <2> SUFFICES ASSUME q \in queue PROVE FALSE
    OBVIOUS
  <2>1. TaskOK(q, v) /\ v \in Nat
    BY DEF SInv, EInv, Account, LoopOK
  <2>2. PICK u \in 0 .. v - 1 : q = RootTask(u)
    BY <2>1 DEF TaskOK, RootTask, SetTask
  <2>3. u = v
    BY <2>2 DEF RootTask
  <2> QED BY <2>1, <2>3
<1> HIDE DEF q
<1>5. IsFiniteSet(queue') /\ AQueue' = [AQueue EXCEPT !["root"] = @ + 1]
  BY <1>2, <1>3, <1>4, GroupGrows DEF SInv
<1>6. AWork' = AWork
  BY <1>2 DEF AWork
<1>7. SInv'
  BY <1>1, <1>2, <1>3, <1>5, SInvKept DEF SInv, Goes
<1>8. Tasks!RunRoot
  BY <1>2, <1>5, <1>6 DEF Tasks!RunRoot, AQueue, AWork
<1> QED BY <1>7, <1>8 DEF Scheduled, Tasks!Next, Tasks!MainStep

\* The other steps of Execute leave the group and the threads alone.
LEMMA MainScheduled ==
  ASSUME SInv, MainStep
  PROVE  Scheduled
<1>1. EInv' /\ IInv'
  BY NextEInv, MainKeeps DEF SInv, Next
<1>2. CASE RunRoot
  BY <1>2, RunRootScheduled
<1>3. CASE Check \/ Look \/ CountRoot \/ LoopEnds \/ WaitReturns
  <2>1. UNCHANGED <<inputVars, forked, queue, work, tn>>
    BY <1>3 DEF Check, Look, CountRoot, LoopEnds, WaitReturns
  <2>2. Open(v', queue', work') \subseteq Open(v, queue, work)
    <3>1. CASE WaitReturns
      BY <2>1, <3>1 DEF WaitReturns
    <3>2. CASE ~WaitReturns
      BY <1>3, <3>2, LoopGoes, LookGoes DEF SInv, Goes
    <3> QED BY <3>1, <3>2
  <2>3. SInv'
    BY <1>1, <2>1, <2>2, SInvKept DEF SInv
  <2>4. AQueue' = AQueue /\ AWork' = AWork
    BY <2>1 DEF AQueue, AWork
  <2>5. CASE Check
    BY <2>1, <2>4, <2>5, <2>3
       DEF Check, Tasks!Check, AQueue, AWork, Scheduled, Tasks!Next, Tasks!MainStep
  <2>6. CASE Look
    BY <2>1, <2>4, <2>6, <2>3
       DEF Look, Tasks!Look, AQueue, AWork, Scheduled, Tasks!Next, Tasks!MainStep
  <2>7. CASE CountRoot
    BY <2>1, <2>4, <2>7, <2>3
       DEF CountRoot, Tasks!CountRoot, AQueue, AWork, Scheduled, Tasks!Next, Tasks!MainStep
  <2>8. CASE LoopEnds
    BY <2>1, <2>4, <2>8, <2>3
       DEF LoopEnds, Tasks!LoopEnds, AQueue, AWork, Scheduled, Tasks!Next, Tasks!MainStep
  <2>9. CASE WaitReturns
    <3>1. \A t \in Threads : AWork[t] = "idle"
      BY <2>9, AbstractIs DEF WaitReturns, AWork, Idle
    <3>2. \A k \in {"root", "set"} : AQueue[k] = 0
      <4>1. \A k : {q \in queue : q.kind = k} = {}
        BY <2>9 DEF WaitReturns
      <4> QED BY <4>1, FS_EmptySet DEF AQueue
    <3>3. Tasks!WaitReturns
      BY <2>1, <2>4, <2>9, <3>1, <3>2
         DEF WaitReturns, Tasks!WaitReturns, Tasks!Kinds, AQueue, AWork
    <3> QED BY <2>3, <3>3 DEF Scheduled, Tasks!Next, Tasks!MainStep
  <2> QED BY <1>3, <2>5, <2>6, <2>7, <2>8, <2>9
<1> QED BY <1>2, <1>3 DEF MainStep

\* The program with as many forks counted on as there are bicliques to find.
ForksSpec ==
  EnumSpec /\ MaxForks \in Nat /\ Cardinality(All) <= MaxForks

\* Every step of ParAdaMBE keeps SInv and is one of ParTasks.
LEMMA NextScheduled == SInv /\ [Next]_vars => Scheduled
<1> SUFFICES ASSUME SInv, [Next]_vars PROVE Scheduled
  OBVIOUS
<1>1. CASE MainStep
  BY <1>1, MainScheduled
<1>2. CASE \E t \in Threads : TaskStep(t)
  BY <1>2, TakeScheduled, SmallRootScheduled, ExpandBitRootScheduled,
     LargeRootScheduled, MoveRootScheduled, SearchScheduled, CountChildScheduled,
     RunChildScheduled, KeepChildScheduled, EndSetScheduled, EndTaskScheduled
     DEF TaskStep
<1>3. CASE UNCHANGED vars
  <2>1. UNCHANGED <<inputVars, forked, main, v, queue, work, tn, task_num>>
    BY <1>3 DEF vars, mainVars
  <2>2. EInv' /\ IInv'
    <3>1. IInv'
      BY <1>3 DEF vars, SInv, IInv, TypedTasks, Placed, Holds
    <3> QED BY <1>3, <3>1, StaysEInv DEF SInv
  <2>3. SInv'
    BY <2>1, <2>2, SInvKept DEF SInv
  <2> QED BY <2>1, <2>3 DEF Scheduled, Tasks!vars
<1> QED BY <1>1, <1>2, <1>3 DEF Next, Stopped

\* At first no child is counted and the group is empty.
LEMMA InitScheduled ==
  GraphOK /\ InitState /\ MaxForks \in Nat /\ Cardinality(All) <= MaxForks
    => SInv /\ Tasks!Init
<1> SUFFICES ASSUME GraphOK, InitState, MaxForks \in Nat, Cardinality(All) <= MaxForks
             PROVE  SInv /\ Tasks!Init
  OBVIOUS
<1>1. EInv
  BY InitEInv
<1>2. IInv
  BY DEF InitState, IInv, Placed, Places, Holds, Holding, Idle, TypedTasks
<1>3. queue = {} /\ forked = 0 /\ \A t \in Threads : work[t].st = "idle"
  BY DEF InitState, Idle
<1>4. GivenOK(v, queue, work)
  BY <1>3 DEF GivenOK
<1>5. Cardinality(All \ Open(v, queue, work)) \in Nat
  <2>1. IsFiniteSet(All)
    BY FiniteAll DEF GraphOK
  <2> QED BY <2>1, FS_Difference, FS_CardinalityType
<1>6. SInv
  BY <1>1, <1>2, <1>3, <1>4, <1>5, FS_EmptySet DEF SInv
<1>7. AQueue = [k \in {"root", "set"} |-> 0]
  <2>1. \A k : {q \in queue : q.kind = k} = {}
    BY <1>3
  <2> QED BY <2>1, FS_EmptySet DEF AQueue
<1>8. AWork = [t \in Threads |-> "idle"]
  BY <1>3, AbstractIs DEF AWork
<1>9. Tasks!Init
  BY <1>3, <1>7, <1>8 DEF InitState, Tasks!Init, Tasks!Kinds, AQueue, AWork
<1> QED BY <1>6, <1>9

\* Schedules: whatever the interleaving, the finder's steps are steps of ParTasks.
\* So a task is run once, and what is proved there of task_num holds here.
THEOREM SchedulesTasks == ForksSpec => Schedules
<1>1. SInv /\ [Next]_vars => SInv' /\ [Tasks!Next]_(Tasks!vars)
  BY NextScheduled DEF Scheduled
<1> QED BY <1>1, InitScheduled, PTL DEF ForksSpec, EnumSpec, ParSpec, Schedules, Tasks!Spec
=============================================================================
