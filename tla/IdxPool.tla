------------------------------ MODULE IdxPool ------------------------------
(***************************************************************************)
(* The pool of per-task buffers of ParAdaMBEFinder (ParAdaFinder.cpp).     *)
(*                                                                         *)
(* The constructor makes thread_num copies of the two scratch buffers and  *)
(* one mutex for each.  A task that needs buffers calls AcquireFreeIdx,    *)
(* which walks the mutexes from 0 and takes the first whose try_lock       *)
(* succeeds; a walk that reaches the end prints "acquire idx fail" and     *)
(* starts over.  FreeIdx unlocks.  No lock protects the walk as a whole:   *)
(* mutexes are taken and released behind the walker's back.                *)
(*                                                                         *)
(* Threads are oneTBB's: global_control caps them at thread_num, and a     *)
(* thread holds at most one index, because a task frees its index before   *)
(* it asks for another and tasks never wait for tasks.                     *)
(***************************************************************************)
EXTENDS Integers, FiniteSets

CONSTANTS Threads,     \* the threads that may run tasks
          thread_num,  \* the number of mutexes, and of buffers
          NoThread     \* the owner of an unlocked mutex

ASSUME PoolAssumption ==
  /\ thread_num \in Nat \ {0}
  /\ IsFiniteSet(Threads)
  /\ Cardinality(Threads) <= thread_num
  /\ NoThread \notin Threads

VARIABLES shared_locks,  \* the owner of each mutex
          pc,            \* "idle", "scan" inside AcquireFreeIdx, "hold"
          idx            \* the walker's position, then the index held

vars == <<shared_locks, pc, idx>>

Slots == 0 .. thread_num - 1

Init ==
  /\ shared_locks = [s \in Slots |-> NoThread]
  /\ pc = [t \in Threads |-> "idle"]
  /\ idx = [t \in Threads |-> 0]

\* (mutant) The walk starts at the last mutex.
AcquireAtLast(t) ==
  /\ pc[t] = "idle"
  /\ pc' = [pc EXCEPT ![t] = "scan"]
  /\ idx' = [idx EXCEPT ![t] = thread_num - 1]
  /\ UNCHANGED shared_locks

\* (mutant) The walk starts one past the last mutex.
AcquirePastEnd(t) ==
  /\ pc[t] = "idle"
  /\ pc' = [pc EXCEPT ![t] = "scan"]
  /\ idx' = [idx EXCEPT ![t] = thread_num]
  /\ UNCHANGED shared_locks

\* A task on thread t calls AcquireFreeIdx.
Acquire(t) ==
  /\ pc[t] = "idle"
  /\ pc' = [pc EXCEPT ![t] = "scan"]
  /\ idx' = [idx EXCEPT ![t] = 0]
  /\ UNCHANGED shared_locks

\* (mutant) The position is returned without its mutex being locked.
TryLockFreeUnlocked(t) ==
  /\ pc[t] = "scan"
  /\ shared_locks[idx[t]] = NoThread
  /\ pc' = [pc EXCEPT ![t] = "hold"]
  /\ UNCHANGED <<shared_locks, idx>>

\* try_lock succeeds and AcquireFreeIdx returns the position.
TryLockFree(t) ==
  /\ pc[t] = "scan"
  /\ shared_locks[idx[t]] = NoThread
  /\ shared_locks' = [shared_locks EXCEPT ![idx[t]] = t]
  /\ pc' = [pc EXCEPT ![t] = "hold"]
  /\ UNCHANGED idx

\* (mutant) The walk tries the same mutex again.
TryLockBusySpins(t) ==
  /\ pc[t] = "scan"
  /\ shared_locks[idx[t]] # NoThread
  /\ UNCHANGED vars

\* try_lock fails; the walk moves on, and from the last mutex it prints
\* "acquire idx fail" and starts over.
TryLockBusy(t) ==
  /\ pc[t] = "scan"
  /\ shared_locks[idx[t]] # NoThread
  /\ idx' = [idx EXCEPT ![t] = (idx[t] + 1) % thread_num]
  /\ UNCHANGED <<shared_locks, pc>>

FreeIdx(t) ==
  /\ pc[t] = "hold"
  /\ shared_locks' = [shared_locks EXCEPT ![idx[t]] = NoThread]
  /\ pc' = [pc EXCEPT ![t] = "idle"]
  /\ idx' = [idx EXCEPT ![t] = 0]

Next ==
  \E t \in Threads :
    Acquire(t) \/ TryLockFree(t) \/ TryLockBusy(t) \/ FreeIdx(t)

\* A thread inside AcquireFreeIdx keeps running.  Nothing makes a holder
\* free its index: it may be enumerating a large subtree.
Fairness == \A t \in Threads : WF_vars(TryLockFree(t) \/ TryLockBusy(t))

Spec == Init /\ [][Next]_vars

FairSpec == Spec /\ Fairness

----------------------------------------------------------------------------
TypeOK ==
  /\ shared_locks \in [Slots -> Threads \cup {NoThread}]
  /\ pc \in [Threads -> {"idle", "scan", "hold"}]
  /\ idx \in [Threads -> Slots]

\* A buffer is in use by one task at a time, and a mutex is locked exactly
\* while the task that AcquireFreeIdx returned its index to holds it: none is
\* leaked by FreeIdx, none is given to two tasks.
Exclusive ==
  /\ \A t \in Threads : pc[t] = "hold" => shared_locks[idx[t]] = t
  /\ \A s \in Slots : shared_locks[s] # NoThread =>
       pc[shared_locks[s]] = "hold" /\ idx[shared_locks[s]] = s

\* No thread finds the last mutex locked, so "acquire idx fail" is never
\* printed: one walk is enough, although a mutex may be released behind the
\* walker and taken again in front of it.
ScanNeverFails ==
  \A t \in Threads : pc[t] = "scan" /\ idx[t] = thread_num - 1
                       => shared_locks[thread_num - 1] = NoThread

\* The threads that hold an index from k up or have walked that far.
AtOrAbove(k) == {t \in Threads : pc[t] # "idle" /\ idx[t] >= k}

\* Why one walk is enough.  To go beyond k a walker must meet a holder of k,
\* so fewer threads are beyond k than are at k or beyond.
Crowding == \A k \in Slots : Cardinality(AtOrAbove(k)) <= thread_num - k

\* AcquireFreeIdx is wait-free: a thread that entered it gets an index even
\* if no other thread ever releases one.
AcquireReturns == \A t \in Threads : pc[t] = "scan" ~> pc[t] = "hold"
=============================================================================
