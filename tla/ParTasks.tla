------------------------------ MODULE ParTasks ------------------------------
(***************************************************************************)
(* The task scheduling of ParAdaMBEFinder (ParAdaFinder.cpp): a main loop  *)
(* that hands the vertices of R to a oneTBB task group, tasks that fork    *)
(* tasks, and the counter task_num that keeps both from flooding it.       *)
(*                                                                         *)
(* What a task computes is left out: a root may turn out large or small,   *)
(* and a large one has some number of large children.  ParAdaMBE has the   *)
(* enumeration and implements this specification.                          *)
(***************************************************************************)
EXTENDS Integers, FiniteSets

CONSTANTS
  Threads,       \* the thread_num threads that may run tasks, Main included
  Main,          \* the thread that runs Execute
  MAX_TASK_NUM,  \* 960
  RSize,         \* the number of vertices Execute goes through
  MaxForks       \* bound: the number of large maximal nodes below the roots

ASSUME TasksAssumption ==
  /\ IsFiniteSet(Threads)
  /\ Main \in Threads
  /\ MAX_TASK_NUM \in Nat
  /\ RSize \in Nat
  /\ MaxForks \in Nat

VARIABLES
  main,      \* where Execute is: "check", "look", "count", "run", "wait", "done"
  v,         \* its loop variable
  task_num,  \* the shared atomic counter
  queue,     \* the tasks the group holds, not yet taken, by kind
  work,      \* what each thread does
  tn,        \* the value task_num++ returned to a thread that wants to fork
  forks      \* the forks still possible

vars == <<main, v, task_num, queue, work, tn, forks>>

Kinds == {"root", "set"}   \* Execute's tasks and biclique_find's

Init ==
  /\ main = "check"
  /\ v = 0
  /\ task_num = 0
  /\ queue = [k \in Kinds |-> 0]
  /\ work = [t \in Threads |-> "idle"]
  /\ tn = [t \in Threads |-> 0]
  /\ forks \in 0 .. MaxForks

----------------------------------------------------------------------------
(* Execute, on the main thread.                                            *)

\* "while (task_num.load() > MAX_TASK_NUM);" lets go.
Check ==
  /\ main = "check" /\ v < RSize
  /\ task_num <= MAX_TASK_NUM
  /\ main' = "look"
  /\ UNCHANGED <<v, task_num, queue, work, tn, forks>>

\* The vertex is skipped, or goes on to task_num++.
Look ==
  /\ main = "look"
  /\ \/ main' = "check" /\ v' = v + 1
     \/ main' = "count" /\ UNCHANGED v
  /\ UNCHANGED <<task_num, queue, work, tn, forks>>

CountRoot ==
  /\ main = "count"
  /\ task_num' = task_num + 1
  /\ main' = "run"
  /\ UNCHANGED <<v, queue, work, tn, forks>>

RunRoot ==
  /\ main = "run"
  /\ queue' = [queue EXCEPT !["root"] = @ + 1]
  /\ v' = v + 1
  /\ main' = "check"
  /\ UNCHANGED <<task_num, work, tn, forks>>

LoopEnds ==
  /\ main = "check" /\ v = RSize
  /\ main' = "wait"
  /\ UNCHANGED <<v, task_num, queue, work, tn, forks>>

\* tg.wait() returns when every task has ended.
WaitReturns ==
  /\ main = "wait"
  /\ \A k \in Kinds : queue[k] = 0
  /\ \A t \in Threads : work[t] = "idle"
  /\ main' = "done"
  /\ UNCHANGED <<v, task_num, queue, work, tn, forks>>

----------------------------------------------------------------------------
(* Tasks, on the threads of the arena.  The main thread runs tasks only    *)
(* inside tg.wait().                                                       *)

Become(t, w) == work' = [work EXCEPT ![t] = w]

\* (mutant) The task taken may be one another thread took last.
TakeStale(t, k) ==
  /\ work[t] = "idle"
  /\ t = Main => main = "wait"
  /\ queue' = [queue EXCEPT ![k] = @ - 1]
  /\ Become(t, k)
  /\ UNCHANGED <<main, v, task_num, tn, forks>>

Take(t, k) ==
  /\ work[t] = "idle" /\ queue[k] > 0
  /\ t = Main => main = "wait"
  /\ queue' = [queue EXCEPT ![k] = @ - 1]
  /\ Become(t, k)
  /\ UNCHANGED <<main, v, task_num, tn, forks>>

\* (mutant) A small root never stops counting.
SmallRootLeaks(t) ==
  /\ work[t] = "root"
  /\ Become(t, "tail")
  /\ UNCHANGED <<main, v, task_num, queue, tn, forks>>

\* A root of at most NN vertices stops counting as a task before its work.
SmallRoot(t) ==
  /\ work[t] = "root"
  /\ task_num' = task_num - 1
  /\ Become(t, "tail")
  /\ UNCHANGED <<main, v, queue, tn, forks>>

\* A larger root goes on as an activation of biclique_find.
LargeRoot(t) ==
  /\ work[t] = "root"
  /\ Become(t, "set")
  /\ UNCHANGED <<main, v, task_num, queue, tn, forks>>

\* "auto tn = task_num++;" for a large maximal child.
CountChild(t) ==
  /\ work[t] = "set" /\ forks > 0
  /\ forks' = forks - 1
  /\ tn' = [tn EXCEPT ![t] = task_num]
  /\ task_num' = task_num + 1
  /\ Become(t, "fork")
  /\ UNCHANGED <<main, v, queue>>

\* (mutant) "if (tn <= MAX_TASK_NUM)".
RunChildLoose(t) ==
  /\ work[t] = "fork" /\ tn[t] <= MAX_TASK_NUM
  /\ queue' = [queue EXCEPT !["set"] = @ + 1]
  /\ tn' = [tn EXCEPT ![t] = 0]
  /\ Become(t, "set")
  /\ UNCHANGED <<main, v, task_num, forks>>

\* "if (tn < MAX_TASK_NUM)": the child becomes a task.
RunChild(t) ==
  /\ work[t] = "fork" /\ tn[t] < MAX_TASK_NUM
  /\ queue' = [queue EXCEPT !["set"] = @ + 1]
  /\ tn' = [tn EXCEPT ![t] = 0]
  /\ Become(t, "set")
  /\ UNCHANGED <<main, v, task_num, forks>>

\* (mutant) The child is enumerated here and still counted.
KeepChildLeaks(t) ==
  /\ work[t] = "fork" /\ tn[t] >= MAX_TASK_NUM
  /\ tn' = [tn EXCEPT ![t] = 0]
  /\ Become(t, "set")
  /\ UNCHANGED <<main, v, task_num, queue, forks>>

\* Otherwise the child is taken back and enumerated by this thread.
KeepChild(t) ==
  /\ work[t] = "fork" /\ tn[t] >= MAX_TASK_NUM
  /\ task_num' = task_num - 1
  /\ tn' = [tn EXCEPT ![t] = 0]
  /\ Become(t, "set")
  /\ UNCHANGED <<main, v, queue, forks>>

\* biclique_find ends with task_num--.
EndSet(t) ==
  /\ work[t] = "set"
  /\ task_num' = task_num - 1
  /\ Become(t, "tail")
  /\ UNCHANGED <<main, v, queue, tn, forks>>

\* The task ends: after the bitset enumeration of a small root, or after
\* FreeIdx.
EndTask(t) ==
  /\ work[t] = "tail"
  /\ Become(t, "idle")
  /\ UNCHANGED <<main, v, task_num, queue, tn, forks>>

----------------------------------------------------------------------------
MainStep == Check \/ Look \/ CountRoot \/ RunRoot \/ LoopEnds \/ WaitReturns

TaskStep(t) ==
  \/ \E k \in Kinds : Take(t, k)
  \/ SmallRoot(t) \/ LargeRoot(t)
  \/ CountChild(t) \/ RunChild(t) \/ KeepChild(t)
  \/ EndSet(t) \/ EndTask(t)

Stopped == main = "done" /\ UNCHANGED vars

Next == MainStep \/ (\E t \in Threads : TaskStep(t)) \/ Stopped

Spec == Init /\ [][Next]_vars

\* The operating system runs every thread, and a thread of the arena that has
\* nothing to do takes a task if there is one.
FairSpec ==
  Spec /\ WF_vars(MainStep) /\ \A t \in Threads : WF_vars(TaskStep(t))

----------------------------------------------------------------------------
TypeOK ==
  /\ main \in {"check", "look", "count", "run", "wait", "done"}
  /\ v \in 0 .. RSize
  /\ main \in {"look", "count", "run"} => v < RSize
  /\ task_num \in Int
  /\ queue \in [Kinds -> Nat]
  /\ work \in [Threads -> {"idle", "root", "tail", "set", "fork"}]
  /\ tn \in [Threads -> Int]
  /\ forks \in Nat

Doing(w) == {t \in Threads : work[t] \in w}

\* The children a thread has counted and is about to take back.
Refused == {t \in Doing({"fork"}) : tn[t] >= MAX_TASK_NUM}

\* What task_num counts: a root from task_num++ on, as long as it may still be
\* large; a task of biclique_find until it ends; and a child a thread has
\* counted and not yet run or taken back.
Counted ==
  /\ task_num = (IF main = "run" THEN 1 ELSE 0)
                  + queue["root"] + queue["set"]
                  + Cardinality(Doing({"root", "set", "fork"}))
                  + Cardinality(Doing({"fork"}))
  /\ main = "done" => task_num = 0

\* The counter and the group stay bounded although the main loop tests the
\* counter and increments it in two steps and every thread increments it before
\* it tests: no more than MAX_TASK_NUM + 1 tasks exist that have not ended, not
\* counting small roots at work.
Bounded ==
  task_num - Cardinality(Refused)
    <= MAX_TASK_NUM + (IF main \in {"look", "count"} THEN 0 ELSE 1)

\* Execute returns: the main loop is not held up forever, and every task that
\* was run ends.
Terminates == <>(main = "done")
=============================================================================
