--------------------------- MODULE IdxPoolProofs ---------------------------
(***************************************************************************)
(* Proofs about IdxPool: for every number of threads and mutexes, an index *)
(* is held by one task at a time and one walk over the mutexes is enough.  *)
(***************************************************************************)
EXTENDS IdxPool, FiniteSetTheorems, TLAPS

\* The arithmetic of the pool's size, from the assumption on the constants.
LEMMA PoolSize ==
  /\ thread_num \in Nat /\ thread_num > 0
  /\ IsFiniteSet(Threads)
  /\ Cardinality(Threads) \in Nat
  /\ Cardinality(Threads) <= thread_num
  /\ NoThread \notin Threads
BY PoolAssumption, FS_CardinalityType

\* Every reachable state of the pool has the declared types.
THEOREM TypeCorrect == Spec => []TypeOK
<1>1. Init => TypeOK
  BY PoolSize DEF Init, TypeOK, Slots
<1>2. TypeOK /\ [Next]_vars => TypeOK'
  <2> SUFFICES ASSUME TypeOK, [Next]_vars PROVE TypeOK'
    OBVIOUS
  <2> USE PoolSize DEF TypeOK, Slots
  <2>1. CASE UNCHANGED vars
    BY <2>1 DEF vars
  <2>2. ASSUME NEW t \in Threads, Acquire(t) PROVE TypeOK'
    BY <2>2 DEF Acquire
  <2>3. ASSUME NEW t \in Threads, TryLockFree(t) PROVE TypeOK'
    BY <2>3 DEF TryLockFree
  <2>4. ASSUME NEW t \in Threads, TryLockBusy(t) PROVE TypeOK'
    <3>1. (idx[t] + 1) % thread_num \in 0 .. thread_num - 1
      OBVIOUS
    <3> QED BY <2>4, <3>1 DEF TryLockBusy
  <2>5. ASSUME NEW t \in Threads, FreeIdx(t) PROVE TypeOK'
    BY <2>5 DEF FreeIdx
  <2> QED BY <2>1, <2>2, <2>3, <2>4, <2>5 DEF Next
<1> QED BY <1>1, <1>2, PTL DEF Spec

\* One step keeps mutexes and holders in agreement.
LEMMA ExclusiveStep == TypeOK /\ Exclusive /\ [Next]_vars => Exclusive'
<1> SUFFICES ASSUME TypeOK, Exclusive, [Next]_vars PROVE Exclusive'
  OBVIOUS
<1> USE PoolSize DEF TypeOK, Slots, Exclusive
<1>1. CASE UNCHANGED vars
  BY <1>1 DEF vars
<1>2. ASSUME NEW t \in Threads, Acquire(t) PROVE Exclusive'
  BY <1>2 DEF Acquire
<1>3. ASSUME NEW t \in Threads, TryLockFree(t) PROVE Exclusive'
  BY <1>3 DEF TryLockFree
<1>4. ASSUME NEW t \in Threads, TryLockBusy(t) PROVE Exclusive'
  BY <1>4 DEF TryLockBusy
<1>5. ASSUME NEW t \in Threads, FreeIdx(t) PROVE Exclusive'
  BY <1>5 DEF FreeIdx
<1> QED BY <1>1, <1>2, <1>3, <1>4, <1>5 DEF Next

\* No two tasks ever use the same buffers, and no mutex is leaked.
THEOREM HoldersExclusive == Spec => []Exclusive
<1>1. Init => Exclusive
  BY PoolSize DEF Init, Exclusive, Slots
<1> QED BY <1>1, ExclusiveStep, TypeCorrect, PTL DEF Spec

\* Any set of threads found in the walk is finite.
LEMMA AtOrAboveFinite ==
  ASSUME NEW k \in Int
  PROVE  /\ IsFiniteSet(AtOrAbove(k))
         /\ Cardinality(AtOrAbove(k)) \in Nat
         /\ Cardinality(AtOrAbove(k)) <= thread_num
<1>1. AtOrAbove(k) \subseteq Threads
  BY DEF AtOrAbove
<1> QED BY <1>1, PoolSize, FS_Subset, FS_CardinalityType

\* Two more elements, two more members.
LEMMA AddTwo ==
  ASSUME NEW S, NEW x, NEW y, IsFiniteSet(S), x \notin S, y \notin S, x # y
  PROVE  /\ IsFiniteSet(S \cup {x, y})
         /\ Cardinality(S) \in Nat
         /\ Cardinality(S \cup {x, y}) = Cardinality(S) + 2
<1>1. /\ IsFiniteSet(S \cup {x})
      /\ Cardinality(S \cup {x}) = Cardinality(S) + 1
  BY FS_AddElement
<1>2. y \notin S \cup {x}
  OBVIOUS
<1>3. /\ IsFiniteSet((S \cup {x}) \cup {y})
      /\ Cardinality((S \cup {x}) \cup {y}) = Cardinality(S \cup {x}) + 1
  BY <1>1, <1>2, FS_AddElement
<1>4. S \cup {x, y} = (S \cup {x}) \cup {y}
  OBVIOUS
<1>5. /\ IsFiniteSet(S \cup {x, y})
      /\ Cardinality(S \cup {x, y}) = Cardinality(S \cup {x}) + 1
  BY <1>3, <1>4, Zenon
<1>6. Cardinality(S) \in Nat
  BY FS_CardinalityType
<1> QED BY <1>1, <1>5, <1>6

\* A thread that finds the mutex at its position locked leaves two threads at
\* that position that are not beyond it: itself and the holder.
LEMMA TwoStayBehind ==
  ASSUME TypeOK, Exclusive, NEW t \in Threads, TryLockBusy(t)
  PROVE  Cardinality(AtOrAbove(idx[t] + 1)) + 2
           <= Cardinality(AtOrAbove(idx[t]))
<1> DEFINE p == idx[t]
           B == AtOrAbove(p + 1)
<1>1. p \in Slots /\ p \in Int /\ p + 1 \in Int
  BY PoolSize DEF TypeOK, Slots
<1>2. PICK u \in Threads : pc[u] = "hold" /\ idx[u] = p /\ u # t
  BY <1>1 DEF TypeOK, Exclusive, TryLockBusy
<1>3. pc[t] = "scan"
  BY DEF TryLockBusy
<1>4. t \notin B /\ u \notin B
  BY <1>1, <1>2 DEF AtOrAbove
<1>5. B \cup {t, u} \subseteq AtOrAbove(p)
  BY <1>1, <1>2, <1>3 DEF AtOrAbove, TypeOK, Slots
<1>6. IsFiniteSet(B)
  BY <1>1, AtOrAboveFinite
<1>7. /\ IsFiniteSet(B \cup {t, u})
      /\ Cardinality(B \cup {t, u}) = Cardinality(B) + 2
  BY <1>2, <1>4, <1>6, AddTwo
<1>8. Cardinality(B \cup {t, u}) <= Cardinality(AtOrAbove(p))
  BY <1>1, <1>5, AtOrAboveFinite, FS_Subset
<1> QED BY <1>7, <1>8

\* Two threads are never both at the last mutex if one of them holds it.
LEMMA CrowdingKeepsWalk == TypeOK /\ Exclusive /\ Crowding => ScanNeverFails
<1> SUFFICES ASSUME TypeOK, Exclusive, Crowding,
                    NEW t \in Threads, pc[t] = "scan",
                    idx[t] = thread_num - 1,
                    shared_locks[thread_num - 1] # NoThread
             PROVE  FALSE
  BY DEF ScanNeverFails
<1> DEFINE p == thread_num - 1
<1>1. p \in Slots /\ p \in Int
  BY PoolSize DEF Slots
<1>2. PICK u \in Threads : pc[u] = "hold" /\ idx[u] = p /\ u # t
  BY <1>1 DEF TypeOK, Exclusive
<1>3. {} \cup {t, u} \subseteq AtOrAbove(p)
  BY <1>1, <1>2 DEF AtOrAbove
<1>4. Cardinality({} \cup {t, u}) = 2
  <2>1. IsFiniteSet({}) /\ Cardinality({}) = 0
    BY FS_EmptySet
  <2>2. Cardinality({} \cup {t, u}) = Cardinality({}) + 2
    BY <1>2, <2>1, AddTwo, Zenon
  <2> QED BY <2>1, <2>2
<1>5. 2 <= Cardinality(AtOrAbove(p))
  BY <1>1, <1>3, <1>4, AtOrAboveFinite, FS_Subset
<1>6. Cardinality(AtOrAbove(p)) <= thread_num - p
  BY <1>1 DEF Crowding
<1>7. Cardinality(AtOrAbove(p)) \in Nat
  BY <1>1, AtOrAboveFinite
<1> QED BY <1>5, <1>6, <1>7, PoolSize

\* Initially nobody walks, and there is room for everybody at mutex 0.
LEMMA CrowdingInit == Init => Crowding
<1> SUFFICES ASSUME Init, NEW k \in Slots
             PROVE  Cardinality(AtOrAbove(k)) <= thread_num - k
  BY DEF Crowding
<1>1. AtOrAbove(k) = {}
  BY DEF AtOrAbove, Init
<1> QED BY <1>1, FS_EmptySet, PoolSize DEF Slots

\* A set of threads beyond k that does not grow keeps the bound.
LEMMA CrowdingShrinks ==
  ASSUME Crowding, NEW k \in Slots, AtOrAbove(k)' \subseteq AtOrAbove(k)
  PROVE  Cardinality(AtOrAbove(k)') <= thread_num - k
<1>1. k \in Int
  BY DEF Slots
<1>2. IsFiniteSet(AtOrAbove(k)) /\ Cardinality(AtOrAbove(k)) \in Nat
  BY <1>1, AtOrAboveFinite
<1>3. /\ Cardinality(AtOrAbove(k)') \in Nat
      /\ Cardinality(AtOrAbove(k)') <= Cardinality(AtOrAbove(k))
  BY <1>2, FS_Subset, FS_CardinalityType
<1>4. Cardinality(AtOrAbove(k)) <= thread_num - k
  BY DEF Crowding
<1> QED BY <1>1, <1>2, <1>3, <1>4, PoolSize

\* One step keeps the bound on the threads beyond each position.
LEMMA CrowdingStep ==
  TypeOK /\ Exclusive /\ Crowding /\ [Next]_vars => Crowding'
<1> SUFFICES ASSUME TypeOK, Exclusive, Crowding, [Next]_vars, NEW k \in Slots
             PROVE  Cardinality(AtOrAbove(k)') <= thread_num - k
  BY DEF Crowding, Slots
<1>0. k \in Int /\ k >= 0 /\ k <= thread_num - 1
  BY PoolSize DEF Slots
<1>1. CASE UNCHANGED vars
  <2>1. AtOrAbove(k)' = AtOrAbove(k)
    BY <1>1 DEF vars, AtOrAbove
  <2> QED BY <2>1, CrowdingShrinks
<1>2. ASSUME NEW t \in Threads, Acquire(t)
      PROVE  Cardinality(AtOrAbove(k)') <= thread_num - k
  <2>1. CASE k = 0
    <3>1. AtOrAbove(k)' \subseteq Threads
      BY DEF AtOrAbove
    <3>2. /\ Cardinality(AtOrAbove(k)') \in Nat
          /\ Cardinality(AtOrAbove(k)') <= Cardinality(Threads)
      BY <3>1, PoolSize, FS_Subset, FS_CardinalityType
    <3> QED BY <2>1, <3>2, PoolSize
  <2>2. CASE k > 0
    <3>1. AtOrAbove(k)' \subseteq AtOrAbove(k)
      BY <1>0, <1>2, <2>2 DEF Acquire, AtOrAbove, TypeOK
    <3> QED BY <3>1, CrowdingShrinks
  <2> QED BY <1>0, <2>1, <2>2
<1>3. ASSUME NEW t \in Threads, TryLockFree(t)
      PROVE  Cardinality(AtOrAbove(k)') <= thread_num - k
  <2>1. AtOrAbove(k)' \subseteq AtOrAbove(k)
    BY <1>3 DEF TryLockFree, AtOrAbove, TypeOK
  <2> QED BY <2>1, CrowdingShrinks
<1>4. ASSUME NEW t \in Threads, TryLockBusy(t)
      PROVE  Cardinality(AtOrAbove(k)') <= thread_num - k
  <2> DEFINE p == idx[t]
  <2>1. p \in Slots /\ p \in Int /\ p >= 0 /\ p <= thread_num - 1
    BY PoolSize DEF TypeOK, Slots
  <2>2. p # thread_num - 1
    BY <1>4, CrowdingKeepsWalk DEF ScanNeverFails, TryLockBusy
  <2>3. (idx[t] + 1) % thread_num = p + 1
    BY <2>1, <2>2, PoolSize
  <2>4. idx' = [idx EXCEPT ![t] = p + 1] /\ pc' = pc /\ pc[t] = "scan"
    BY <1>4, <2>3 DEF TryLockBusy
  <2>5. CASE k = p + 1
    <3>1. /\ IsFiniteSet(AtOrAbove(k))
          /\ Cardinality(AtOrAbove(k)) \in Nat
          /\ Cardinality(AtOrAbove(p)) \in Nat
      BY <1>0, <2>1, AtOrAboveFinite
    <3>2. AtOrAbove(k)' \subseteq AtOrAbove(k) \cup {t}
      BY <1>0, <2>4 DEF AtOrAbove, TypeOK
    <3>3. /\ IsFiniteSet(AtOrAbove(k) \cup {t})
          /\ Cardinality(AtOrAbove(k) \cup {t}) \in Nat
          /\ Cardinality(AtOrAbove(k) \cup {t}) <= Cardinality(AtOrAbove(k)) + 1
      BY <3>1, FS_AddElement
    <3>4. /\ Cardinality(AtOrAbove(k)') \in Nat
          /\ Cardinality(AtOrAbove(k)') <= Cardinality(AtOrAbove(k)) + 1
      BY <3>1, <3>2, <3>3, FS_Subset, FS_CardinalityType
    <3>5. Cardinality(AtOrAbove(k)) + 2 <= Cardinality(AtOrAbove(p))
      BY <1>4, <2>5, TwoStayBehind
    <3>6. Cardinality(AtOrAbove(p)) <= thread_num - p
      BY <2>1 DEF Crowding
    <3> QED BY <2>1, <2>5, <3>1, <3>4, <3>5, <3>6, PoolSize
  <2>6. CASE k # p + 1
    <3>1. AtOrAbove(k)' \subseteq AtOrAbove(k)
      BY <1>0, <2>1, <2>4, <2>6 DEF AtOrAbove, TypeOK
    <3> QED BY <3>1, CrowdingShrinks
  <2> QED BY <2>5, <2>6
<1>5. ASSUME NEW t \in Threads, FreeIdx(t)
      PROVE  Cardinality(AtOrAbove(k)') <= thread_num - k
  <2>1. AtOrAbove(k)' \subseteq AtOrAbove(k)
    BY <1>5 DEF FreeIdx, AtOrAbove, TypeOK
  <2> QED BY <2>1, CrowdingShrinks
<1> QED BY <1>1, <1>2, <1>3, <1>4, <1>5 DEF Next

\* Of n mutexes, fewer threads than n - k are beyond mutex k, always.
THEOREM WalkersStayBehind == Spec => []Crowding
BY CrowdingInit, CrowdingStep, TypeCorrect, HoldersExclusive, PTL DEF Spec

\* "acquire idx fail" is never printed, whatever thread_num is.
THEOREM WalkNeverFails == Spec => []ScanNeverFails
BY CrowdingKeepsWalk, WalkersStayBehind, TypeCorrect, HoldersExclusive, PTL
=============================================================================
