--------------------------- MODULE ParTasksProofs ---------------------------
(***************************************************************************)
(* Proofs about ParTasks: for any number of threads, vertices, forks and   *)
(* any MAX_TASK_NUM, task_num counts exactly the tasks it is meant to, and *)
(* never more than MAX_TASK_NUM + 1 of them exist.                         *)
(***************************************************************************)
EXTENDS ParTasks, FiniteSetTheorems, TLAPS

\* Every step moves at most one thread, from one piece of work to another.
THEOREM TypeCorrect == Spec => []TypeOK
<1>1. Init => TypeOK
  BY TasksAssumption DEF Init, TypeOK, Kinds
<1>2. TypeOK /\ [Next]_vars => TypeOK'
  <2> SUFFICES ASSUME TypeOK, [Next]_vars PROVE TypeOK'
    OBVIOUS
  <2> USE TasksAssumption DEF TypeOK, Kinds, Become
  <2>1. CASE UNCHANGED vars
    BY <2>1 DEF vars
  <2>2. CASE MainStep
    <3>1. CASE Check
      BY <3>1 DEF Check
    <3>2. CASE CountRoot
      BY <3>2 DEF CountRoot
    <3>6. CASE Look
      BY <3>6 DEF Look
    <3>3. CASE RunRoot
      BY <3>3 DEF RunRoot
    <3>4. CASE LoopEnds
      BY <3>4 DEF LoopEnds
    <3>5. CASE WaitReturns
      BY <3>5 DEF WaitReturns
    <3> QED BY <2>2, <3>1, <3>2, <3>3, <3>4, <3>5, <3>6 DEF MainStep
  <2>3. ASSUME NEW t \in Threads, TaskStep(t) PROVE TypeOK'
    <3>1. ASSUME NEW k \in Kinds, Take(t, k) PROVE TypeOK'
      BY <3>1 DEF Take
    <3>2. CASE SmallRoot(t)
      BY <3>2 DEF SmallRoot
    <3>3. CASE LargeRoot(t)
      BY <3>3 DEF LargeRoot
    <3>4. CASE CountChild(t)
      BY <3>4 DEF CountChild
    <3>5. CASE RunChild(t)
      BY <3>5 DEF RunChild
    <3>6. CASE KeepChild(t)
      BY <3>6 DEF KeepChild
    <3>7. CASE EndSet(t)
      BY <3>7 DEF EndSet
    <3>8. CASE EndTask(t)
      BY <3>8 DEF EndTask
    <3> QED BY <2>3, <3>1, <3>2, <3>3, <3>4, <3>5, <3>6, <3>7, <3>8 DEF TaskStep
  <2> QED BY <2>1, <2>2, <2>3 DEF Next, Stopped
<1> QED BY <1>1, <1>2, PTL DEF Spec

----------------------------------------------------------------------------
\* 1 if a thread that does x is among those that do one of W.
Among(x, W) == IF x \in W THEN 1 ELSE 0

\* The threads are finitely many, and so are those that do one of W.
LEMMA DoingFinite ==
  ASSUME NEW W
  PROVE  IsFiniteSet(Doing(W)) /\ Cardinality(Doing(W)) \in Nat
<1>1. Doing(W) \subseteq Threads
  BY DEF Doing
<1> QED BY <1>1, TasksAssumption, FS_Subset, FS_CardinalityType

\* A thread that goes from one piece of work to another leaves the set of
\* those that did the first and joins the set of those that do the second.
LEMMA DoingMoves ==
  ASSUME TypeOK, NEW t \in Threads, NEW w, Become(t, w), NEW W
  PROVE  Cardinality(Doing(W)')
           = Cardinality(Doing(W)) - Among(work[t], W) + Among(w, W)
<1>1. work' = [work EXCEPT ![t] = w] /\ DOMAIN work = Threads
  BY DEF Become, TypeOK
<1>2. IsFiniteSet(Doing(W)) /\ Cardinality(Doing(W)) \in Nat
  BY DoingFinite
<1>3. t \in Doing(W) <=> work[t] \in W
  BY DEF Doing
<1>4. CASE w \in W
  <2>1. Doing(W)' = Doing(W) \cup {t}
    BY <1>1, <1>4 DEF Doing
  <2>2. Cardinality(Doing(W) \cup {t})
          = IF t \in Doing(W) THEN Cardinality(Doing(W))
                              ELSE Cardinality(Doing(W)) + 1
    BY <1>2, FS_AddElement
  <2> QED BY <1>2, <1>3, <1>4, <2>1, <2>2 DEF Among
<1>5. CASE w \notin W
  <2>1. Doing(W)' = Doing(W) \ {t}
    BY <1>1, <1>5 DEF Doing
  <2>2. Cardinality(Doing(W) \ {t})
          = IF t \in Doing(W) THEN Cardinality(Doing(W)) - 1
                              ELSE Cardinality(Doing(W))
    BY <1>2, FS_RemoveElement
  <2> QED BY <1>2, <1>3, <1>5, <2>1, <2>2 DEF Among
<1> QED BY <1>4, <1>5

\* A thread that does one of W is there to be counted.
LEMMA DoingOccupied ==
  ASSUME NEW W, NEW t \in Threads, work[t] \in W
  PROVE  Cardinality(Doing(W)) >= 1
<1>1. t \in Doing(W)
  BY DEF Doing
<1>2. IsFiniteSet(Doing(W)) /\ Cardinality(Doing(W)) \in Nat
  BY DoingFinite
<1>3. Cardinality(Doing(W)) # 0
  BY <1>1, <1>2, FS_EmptySet
<1> QED BY <1>2, <1>3

\* The sets Counted counts, and what a step of thread t does to them.
LEMMA CountedMoves ==
  ASSUME TypeOK, NEW t \in Threads, NEW w, Become(t, w)
  PROVE  /\ Cardinality(Doing({"root", "set", "fork"})')
              = Cardinality(Doing({"root", "set", "fork"}))
                  - Among(work[t], {"root", "set", "fork"})
                  + Among(w, {"root", "set", "fork"})
         /\ Cardinality(Doing({"fork"})')
              = Cardinality(Doing({"fork"}))
                  - Among(work[t], {"fork"}) + Among(w, {"fork"})
         /\ Cardinality(Doing({"root", "set", "fork"})) \in Nat
         /\ Cardinality(Doing({"fork"})) \in Nat
BY DoingMoves, DoingFinite

\* A step that moves no thread leaves the sets alone.
LEMMA CountedStays ==
  ASSUME UNCHANGED work
  PROVE  /\ Doing({"root", "set", "fork"})' = Doing({"root", "set", "fork"})
         /\ Doing({"fork"})' = Doing({"fork"})
BY DEF Doing

\* At first no thread does anything.
LEMMA CountedInit == Init => Counted
<1> SUFFICES ASSUME Init PROVE Counted
  OBVIOUS
<1>1. Doing({"root", "set", "fork"}) = {} /\ Doing({"fork"}) = {}
  BY DEF Init, Doing
<1>2. Cardinality({}) = 0
  BY FS_EmptySet
<1> QED BY <1>1, <1>2 DEF Init, Counted, Kinds

\* One step keeps task_num equal to what it counts.
LEMMA CountedStep == TypeOK /\ Counted /\ [Next]_vars => Counted'
<1> SUFFICES ASSUME TypeOK, Counted, [Next]_vars PROVE Counted'
  OBVIOUS
<1> DEFINE A == Doing({"root", "set", "fork"})
           F == Doing({"fork"})
<1>0. /\ queue["root"] \in Nat /\ queue["set"] \in Nat /\ task_num \in Int
      /\ Cardinality(A) \in Nat /\ Cardinality(F) \in Nat
      /\ DOMAIN queue = Kinds
  BY DoingFinite DEF TypeOK, Kinds
<1>1. CASE UNCHANGED vars
  <2>1. A' = A /\ F' = F
    BY <1>1, CountedStays DEF vars
  <2> QED BY <1>1, <2>1 DEF vars, Counted
<1>2. CASE MainStep
  <2>1. CASE WaitReturns
    <3>1. A = {} /\ F = {} /\ A' = A /\ F' = F
      BY <2>1, CountedStays DEF WaitReturns, Doing
    <3>2. Cardinality(A) = 0 /\ Cardinality(F) = 0
      BY <3>1, FS_EmptySet
    <3> QED BY <2>1, <3>1, <3>2 DEF WaitReturns, Counted, Kinds
  <2>2. CASE Check
    <3>1. A' = A /\ F' = F
      BY <2>2, CountedStays DEF Check
    <3> QED BY <1>0, <2>2, <3>1 DEF Check, Counted
  <2>3. CASE CountRoot
    <3>1. A' = A /\ F' = F
      BY <2>3, CountedStays DEF CountRoot
    <3> QED BY <1>0, <2>3, <3>1 DEF CountRoot, Counted
  <2>4. CASE RunRoot
    <3>1. A' = A /\ F' = F
      BY <2>4, CountedStays DEF RunRoot
    <3> QED BY <1>0, <2>4, <3>1 DEF RunRoot, Counted, Kinds
  <2>5. CASE LoopEnds
    <3>1. A' = A /\ F' = F
      BY <2>5, CountedStays DEF LoopEnds
    <3> QED BY <1>0, <2>5, <3>1 DEF LoopEnds, Counted
  <2>6. CASE Look
    <3>1. A' = A /\ F' = F
      BY <2>6, CountedStays DEF Look
    <3> QED BY <1>0, <2>6, <3>1 DEF Look, Counted
  <2> QED BY <1>2, <2>1, <2>2, <2>3, <2>4, <2>5, <2>6 DEF MainStep
<1>3. ASSUME NEW t \in Threads, TaskStep(t) PROVE Counted'
  <2>1. ASSUME NEW k \in Kinds, Take(t, k) PROVE Counted'
    <3>1. work[t] = "idle" /\ k \in {"root", "set"} /\ Become(t, k)
      BY <2>1 DEF Take, Kinds
    <3>2. Cardinality(A') = Cardinality(A) + 1 /\ Cardinality(F') = Cardinality(F)
      BY <1>0, <3>1, CountedMoves DEF Among
    <3>3. queue'["root"] + queue'["set"] = queue["root"] + queue["set"] - 1
      BY <1>0, <2>1, <3>1 DEF Take, Kinds
    <3>4. queue'["root"] \in Int /\ queue'["set"] \in Int
      BY <1>0, <2>1, <3>1 DEF Take, Kinds
    <3>5. queue["root"] + queue["set"] > 0
      BY <1>0, <2>1, <3>1 DEF Take
    <3>6. main # "done"
      BY <1>0, <3>5 DEF Counted
    <3> QED BY <1>0, <2>1, <3>2, <3>3, <3>4, <3>6 DEF Take, Counted
  <2>2. CASE SmallRoot(t)
    <3>1. work[t] = "root" /\ Become(t, "tail")
      BY <2>2 DEF SmallRoot
    <3>2. /\ Cardinality(A') = Cardinality(A) - 1
          /\ Cardinality(F') = Cardinality(F)
          /\ Cardinality(A) >= 1
      BY <1>0, <3>1, CountedMoves, DoingOccupied DEF Among
    <3> QED BY <1>0, <2>2, <3>2 DEF SmallRoot, Counted
  <2>3. CASE LargeRoot(t)
    <3>1. work[t] = "root" /\ Become(t, "set")
      BY <2>3 DEF LargeRoot
    <3>2. Cardinality(A') = Cardinality(A) /\ Cardinality(F') = Cardinality(F)
      BY <1>0, <3>1, CountedMoves DEF Among
    <3> QED BY <1>0, <2>3, <3>2 DEF LargeRoot, Counted
  <2>4. CASE CountChild(t)
    <3>1. work[t] = "set" /\ Become(t, "fork")
      BY <2>4 DEF CountChild
    <3>2. /\ Cardinality(A') = Cardinality(A)
          /\ Cardinality(F') = Cardinality(F) + 1
          /\ Cardinality(A) >= 1
      BY <1>0, <3>1, CountedMoves, DoingOccupied DEF Among
    <3> QED BY <1>0, <2>4, <3>2 DEF CountChild, Counted
  <2>5. CASE RunChild(t)
    <3>1. work[t] = "fork" /\ Become(t, "set")
      BY <2>5 DEF RunChild
    <3>2. /\ Cardinality(A') = Cardinality(A)
          /\ Cardinality(F') = Cardinality(F) - 1
          /\ Cardinality(A) >= 1
      BY <1>0, <3>1, CountedMoves, DoingOccupied DEF Among
    <3> QED BY <1>0, <2>5, <3>2 DEF RunChild, Counted, Kinds
  <2>6. CASE KeepChild(t)
    <3>1. work[t] = "fork" /\ Become(t, "set")
      BY <2>6 DEF KeepChild
    <3>2. /\ Cardinality(A') = Cardinality(A)
          /\ Cardinality(F') = Cardinality(F) - 1
          /\ Cardinality(A) >= 1
      BY <1>0, <3>1, CountedMoves, DoingOccupied DEF Among
    <3> QED BY <1>0, <2>6, <3>2 DEF KeepChild, Counted
  <2>7. CASE EndSet(t)
    <3>1. work[t] = "set" /\ Become(t, "tail")
      BY <2>7 DEF EndSet
    <3>2. /\ Cardinality(A') = Cardinality(A) - 1
          /\ Cardinality(F') = Cardinality(F)
          /\ Cardinality(A) >= 1
      BY <1>0, <3>1, CountedMoves, DoingOccupied DEF Among
    <3> QED BY <1>0, <2>7, <3>2 DEF EndSet, Counted
  <2>8. CASE EndTask(t)
    <3>1. work[t] = "tail" /\ Become(t, "idle")
      BY <2>8 DEF EndTask
    <3>2. Cardinality(A') = Cardinality(A) /\ Cardinality(F') = Cardinality(F)
      BY <1>0, <3>1, CountedMoves DEF Among
    <3> QED BY <1>0, <2>8, <3>2 DEF EndTask, Counted
  <2> QED BY <1>3, <2>1, <2>2, <2>3, <2>4, <2>5, <2>6, <2>7, <2>8 DEF TaskStep
<1> QED BY <1>1, <1>2, <1>3 DEF Next, Stopped

\* task_num is never lost, never counted twice, and is 0 when Execute is done.
THEOREM TaskNumExact == Spec => []Counted
BY CountedInit, CountedStep, TypeCorrect, PTL DEF Spec

----------------------------------------------------------------------------
\* The children that will be taken back can be counted.
LEMMA RefusedFinite ==
  IsFiniteSet(Refused) /\ Cardinality(Refused) \in Nat
<1>1. Refused \subseteq Threads
  BY DEF Refused, Doing
<1> QED BY <1>1, TasksAssumption, FS_Subset, FS_CardinalityType

\* A thread that neither begins nor ends a refused fork changes nothing.
LEMMA RefusedStays ==
  ASSUME TypeOK, NEW t \in Threads, NEW w, Become(t, w), UNCHANGED tn,
         work[t] # "fork", w # "fork"
  PROVE  Refused' = Refused
BY DEF TypeOK, Become, Refused, Doing

\* At first no thread has been refused a task.
LEMMA BoundedInit == Init => Bounded
<1> SUFFICES ASSUME Init PROVE Bounded
  OBVIOUS
<1>1. Refused = {}
  BY DEF Init, Refused, Doing
<1> QED BY <1>1, FS_EmptySet, TasksAssumption DEF Init, Bounded

\* One step keeps the bound: only a test that succeeds lets the counter grow
\* for good.
LEMMA BoundedStep == TypeOK /\ Bounded /\ [Next]_vars => Bounded'
<1> SUFFICES ASSUME TypeOK, Bounded, [Next]_vars PROVE Bounded'
  OBVIOUS
<1>0. /\ task_num \in Int /\ MAX_TASK_NUM \in Nat
      /\ IsFiniteSet(Refused) /\ Cardinality(Refused) \in Nat
  BY RefusedFinite, TasksAssumption DEF TypeOK
<1>1. CASE UNCHANGED vars
  <2>1. Refused' = Refused
    BY <1>1 DEF vars, Refused, Doing
  <2> QED BY <1>1, <2>1 DEF vars, Bounded
<1>2. CASE MainStep
  <2>1. Refused' = Refused
    BY <1>2 DEF MainStep, Check, Look, CountRoot, RunRoot, LoopEnds, WaitReturns,
                Refused, Doing
  <2>2. CASE Check \/ Look
    BY <1>0, <2>1, <2>2 DEF Check, Look, Bounded
  <2>3. CASE CountRoot
    BY <1>0, <2>1, <2>3 DEF CountRoot, Bounded
  <2>4. CASE RunRoot \/ LoopEnds \/ WaitReturns
    BY <1>0, <2>1, <2>4 DEF RunRoot, LoopEnds, WaitReturns, Bounded
  <2> QED BY <1>2, <2>2, <2>3, <2>4 DEF MainStep
<1>3. ASSUME NEW t \in Threads, TaskStep(t) PROVE Bounded'
  <2>1. ASSUME NEW k \in Kinds, Take(t, k) PROVE Bounded'
    <3>1. Refused' = Refused
      BY <2>1, RefusedStays DEF Take, Kinds
    <3> QED BY <1>0, <2>1, <3>1 DEF Take, Bounded
  <2>2. CASE SmallRoot(t)
    <3>1. Refused' = Refused
      BY <2>2, RefusedStays DEF SmallRoot
    <3> QED BY <1>0, <2>2, <3>1 DEF SmallRoot, Bounded
  <2>3. CASE LargeRoot(t)
    <3>1. Refused' = Refused
      BY <2>3, RefusedStays DEF LargeRoot
    <3> QED BY <1>0, <2>3, <3>1 DEF LargeRoot, Bounded
  <2>4. CASE CountChild(t)
    <3>1. t \notin Refused
      BY <2>4 DEF CountChild, Refused, Doing
    <3>2. CASE task_num >= MAX_TASK_NUM
      <4>1. Refused' = Refused \cup {t}
        BY <1>0, <2>4, <3>2 DEF CountChild, Become, Refused, Doing, TypeOK
      <4>2. Cardinality(Refused \cup {t}) = Cardinality(Refused) + 1
        BY <1>0, <3>1, FS_AddElement
      <4> QED BY <1>0, <2>4, <4>1, <4>2 DEF CountChild, Bounded
    <3>3. CASE task_num < MAX_TASK_NUM
      <4>1. Refused' = Refused
        BY <1>0, <2>4, <3>3 DEF CountChild, Become, Refused, Doing, TypeOK
      <4> QED BY <1>0, <2>4, <3>3, <4>1 DEF CountChild, Bounded
    <3> QED BY <1>0, <3>2, <3>3
  <2>5. CASE RunChild(t)
    <3>1. Refused' = Refused
      BY <1>0, <2>5 DEF RunChild, Become, Refused, Doing, TypeOK
    <3> QED BY <1>0, <2>5, <3>1 DEF RunChild, Bounded
  <2>6. CASE KeepChild(t)
    <3>1. Refused' = Refused \ {t} /\ t \in Refused
      BY <1>0, <2>6 DEF KeepChild, Become, Refused, Doing, TypeOK
    <3>2. Cardinality(Refused \ {t}) = Cardinality(Refused) - 1
      BY <1>0, <3>1, FS_RemoveElement
    <3> QED BY <1>0, <2>6, <3>1, <3>2 DEF KeepChild, Bounded
  <2>7. CASE EndSet(t)
    <3>1. Refused' = Refused
      BY <2>7, RefusedStays DEF EndSet
    <3> QED BY <1>0, <2>7, <3>1 DEF EndSet, Bounded
  <2>8. CASE EndTask(t)
    <3>1. Refused' = Refused
      BY <2>8, RefusedStays DEF EndTask
    <3> QED BY <1>0, <2>8, <3>1 DEF EndTask, Bounded
  <2> QED BY <1>3, <2>1, <2>2, <2>3, <2>4, <2>5, <2>6, <2>7, <2>8 DEF TaskStep
<1> QED BY <1>1, <1>2, <1>3 DEF Next, Stopped

\* No more than MAX_TASK_NUM + 1 tasks are ever outstanding.
THEOREM TasksBounded == Spec => []Bounded
BY BoundedInit, BoundedStep, TypeCorrect, PTL DEF Spec
=============================================================================
