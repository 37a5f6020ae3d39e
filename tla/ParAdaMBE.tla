----------------------------- MODULE ParAdaMBE -----------------------------
(***************************************************************************)
(* ParAdaMBEFinder (ParAdaFinder.cpp): AdaMBE on a oneTBB task group.      *)
(*                                                                         *)
(* The schedule is that of ParTasks, the expansion of a node that of       *)
(* AdaNodes, and the index pool that of IdxPool, of which only who holds   *)
(* an index is kept here: AcquireFreeIdx always finds one.  What the       *)
(* threads share besides is the counters and the adjacency lists of R: a   *)
(* large root moves its list into its argument while the main loop goes on *)
(* comparing lists.                                                        *)
(*                                                                         *)
(* A step is at most one access to shared state; maximal_nodes_++ is       *)
(* joined to the access before or after it, as nobody reads it until the   *)
(* end.                                                                    *)
(***************************************************************************)
EXTENDS AdaNodes

CONSTANTS Threads, Main, MAX_TASK_NUM, RSize, MaxForks   \* as in ParTasks

VARIABLES
  wanted,          \* what the input asks for; the code does not have it
  main, v, task_num, tn,   \* as in ParTasks
  queue,           \* the tasks not yet taken
  work,            \* what each thread does, on which root and activations
  held,            \* the number of indices each thread holds
  moved,           \* the vertices of R whose lists have been moved away
  found,           \* the bicliques counted so far
  maximal_nodes_,  \* the counter printed as the result
  forked           \* the number of children counted so far

resultVars == <<found, maximal_nodes_>>
mainVars == <<main, v>>
vars == <<inputVars, wanted, mainVars, task_num, tn, queue, work, held, moved,
          resultVars, forked>>

Idle == [st |-> "idle", v |-> -1, stack |-> <<>>, child |-> <<>>]

RootTask(r) == [kind |-> "root", v |-> r, frame |-> <<>>]
SetTask(f) == [kind |-> "set", v |-> -1, frame |-> <<f>>]

InitState ==
  /\ wanted = MaximalBicliques(graph_, min_l_size_, min_r_size_)
  /\ main = "check"
  /\ v = 0
  /\ task_num = 0
  /\ tn = [t \in Threads |-> 0]
  /\ queue = {}
  /\ work = [t \in Threads |-> Idle]
  /\ held = [t \in Threads |-> 0]
  /\ moved = {}
  /\ found = {}
  /\ maximal_nodes_ = 0
  /\ forked = 0

Count(L, R) ==
  /\ found' = found \cup Result(L, R)
  /\ maximal_nodes_' = maximal_nodes_ + Cardinality(Result(L, R))

Uncounted == UNCHANGED resultVars

Become(t, w) == work' = [work EXCEPT ![t] = w]

\* An index is free: the pool has one for each thread.
CanAcquire == \E t \in Threads : held[t] = 0

----------------------------------------------------------------------------
(* Execute, on the main thread.                                            *)

Check ==
  /\ main = "check" /\ v < RSize
  /\ task_num <= MAX_TASK_NUM
  /\ main' = "look"
  /\ UNCHANGED <<inputVars, wanted, v, task_num, tn, queue, work, held, moved,
                 resultVars, forked>>

\* What is left in the list of r.
ListOf(r) == IF r \in moved THEN {} ELSE graph_[r]

Skipped(r) ==
  \/ Cardinality(ListOf(r)) < min_l_size_
  \/ r > 0 /\ ListOf(r - 1) = ListOf(r)

Look ==
  /\ main = "look"
  /\ IF Skipped(v) THEN main' = "check" /\ v' = v + 1
                   ELSE main' = "count" /\ UNCHANGED v
  /\ UNCHANGED <<inputVars, wanted, task_num, tn, queue, work, held, moved,
                 resultVars, forked>>

CountRoot ==
  /\ main = "count"
  /\ task_num' = task_num + 1
  /\ main' = "run"
  /\ UNCHANGED <<inputVars, wanted, v, tn, queue, work, held, moved,
                 resultVars, forked>>

RunRoot ==
  /\ main = "run"
  /\ queue' = queue \cup {RootTask(v)}
  /\ v' = v + 1
  /\ main' = "check"
  /\ UNCHANGED <<inputVars, wanted, task_num, tn, work, held, moved,
                 resultVars, forked>>

LoopEnds ==
  /\ main = "check" /\ v = RSize
  /\ main' = "wait"
  /\ UNCHANGED <<inputVars, wanted, v, task_num, tn, queue, work, held, moved,
                 resultVars, forked>>

WaitReturns ==
  /\ main = "wait" /\ queue = {} /\ \A t \in Threads : work[t] = Idle
  /\ main' = "done"
  /\ UNCHANGED <<inputVars, wanted, v, task_num, tn, queue, work, held, moved,
                 resultVars, forked>>

----------------------------------------------------------------------------
(* The root tasks.                                                         *)

\* A task begins, and asks for an index first.
Take(t, q) ==
  /\ work[t] = Idle
  /\ t = Main => main = "wait"
  /\ CanAcquire
  /\ queue' = queue \ {q}
  /\ held' = [held EXCEPT ![t] = @ + 1]
  /\ Become(t, [Idle EXCEPT !.st = q.kind, !.v = q.v, !.stack = q.frame])
  /\ UNCHANGED <<inputVars, wanted, mainVars, task_num, tn, moved, resultVars,
                 forked>>

\* A small root: task_num-- comes first.
SmallRoot(t) ==
  /\ work[t].st = "root"
  /\ Cardinality(ListOf(work[t].v)) <= NN
  /\ task_num' = task_num - 1
  /\ Become(t, [work[t] EXCEPT !.st = "small"])
  /\ UNCHANGED <<inputVars, wanted, mainVars, tn, queue, held, moved,
                 resultVars, forked>>

\* Its node is built and counted, and its index freed.
ExpandBitRoot(t) ==
  /\ work[t].st = "small"
  /\ held' = [held EXCEPT ![t] = @ - 1]
  /\ LET f == BitRoot(work[t].v)
     IN  /\ Count(graph_[work[t].v], f.R)
         /\ Become(t, [work[t] EXCEPT !.st = "bits", !.stack = <<f>>])
  /\ UNCHANGED <<inputVars, wanted, mainVars, task_num, tn, queue, moved,
                 forked>>

\* (mutant) The index is not freed before biclique_find asks for its own.
LargeRootKeepsIdx(t) ==
  /\ work[t].st = "root"
  /\ Cardinality(ListOf(work[t].v)) > NN
  /\ LET f == SetRoot(work[t].v)
     IN  /\ Count(f.L, f.R)
         /\ Become(t, [work[t] EXCEPT !.st = "move", !.stack = <<f>>])
  /\ UNCHANGED <<inputVars, wanted, mainVars, task_num, tn, queue, held, moved,
                 forked>>

\* A large root: its node is built and counted, and its index freed.
LargeRoot(t) ==
  /\ work[t].st = "root"
  /\ Cardinality(ListOf(work[t].v)) > NN
  /\ held' = [held EXCEPT ![t] = @ - 1]
  /\ LET f == SetRoot(work[t].v)
     IN  /\ Count(f.L, f.R)
         /\ Become(t, [work[t] EXCEPT !.st = "move", !.stack = <<f>>])
  /\ UNCHANGED <<inputVars, wanted, mainVars, task_num, tn, queue, moved,
                 forked>>

\* "biclique_find(std::move(L), ...)", where L is the vertex's own list; the
\* callee asks for an index of its own.
MoveRoot(t) ==
  /\ work[t].st = "move" /\ CanAcquire
  /\ moved' = moved \cup {work[t].v}
  /\ held' = [held EXCEPT ![t] = @ + 1]
  /\ Become(t, [work[t] EXCEPT !.st = "set"])
  /\ UNCHANGED <<inputVars, wanted, mainVars, task_num, tn, queue, resultVars,
                 forked>>

----------------------------------------------------------------------------
(* biclique_find.  The first activation of a "set" task is biclique_find,  *)
(* those above it on vertex sets are biclique_find_serial, which keeps     *)
(* every child to itself.                                                  *)

Top(t) == work[t].stack[Len(work[t].stack)]

On(t, st, mode) ==
  /\ work[t].st = st /\ work[t].stack # <<>>
  /\ Top(t).mode = mode /\ Unfinished(Top(t))

Continue(t, f) ==
  Become(t, [work[t] EXCEPT !.stack = Append(Front(@), f)])
Call(t, f, g) ==
  Become(t, [work[t] EXCEPT !.stack = Append(Front(@), f) \o <<g>>])

Private == UNCHANGED <<inputVars, wanted, mainVars, task_num, tn, queue, held,
                       moved, forked>>

SkipCandidate(t) ==
  /\ On(t, "set", "set") /\ Candidate(Top(t)).first < 0
  /\ Continue(t, [Top(t) EXCEPT !.i = @ + 1])
  /\ Uncounted /\ Private

IsLarge(t) ==
  /\ On(t, "set", "set") /\ Candidate(Top(t)).first >= 0
  /\ Cardinality(Candidate(Top(t)).L) > NN

NotMaximal(t) ==
  /\ IsLarge(t) /\ ~IsMaximal(Top(t))
  /\ Continue(t, Consumed(Top(t)))
  /\ Uncounted /\ Private

\* biclique_find: the child is counted, then task_num++ decides about it.
CountChild(t) ==
  /\ IsLarge(t) /\ IsMaximal(Top(t)) /\ Len(work[t].stack) = 1
  /\ LET g == SetChild(Top(t))
     IN  /\ Count(g.L, g.R)
         /\ Become(t, [work[t] EXCEPT !.st = "fork", !.child = <<g>>,
                                      !.stack = <<Consumed(Top(t))>>])
  /\ tn' = [tn EXCEPT ![t] = task_num]
  /\ task_num' = task_num + 1
  /\ forked' = forked + 1
  /\ UNCHANGED <<inputVars, wanted, mainVars, queue, held, moved>>

RunChild(t) ==
  /\ work[t].st = "fork" /\ tn[t] < MAX_TASK_NUM
  /\ queue' = queue \cup {SetTask(work[t].child[1])}
  /\ tn' = [tn EXCEPT ![t] = 0]
  /\ Become(t, [work[t] EXCEPT !.st = "set", !.child = <<>>])
  /\ UNCHANGED <<inputVars, wanted, mainVars, task_num, held, moved,
                 resultVars, forked>>

\* (mutant) The child is taken back and forgotten.
KeepChildForgets(t) ==
  /\ work[t].st = "fork" /\ tn[t] >= MAX_TASK_NUM
  /\ task_num' = task_num - 1
  /\ tn' = [tn EXCEPT ![t] = 0]
  /\ Become(t, [work[t] EXCEPT !.st = "set", !.child = <<>>])
  /\ UNCHANGED <<inputVars, wanted, mainVars, queue, held, moved, resultVars,
                 forked>>

KeepChild(t) ==
  /\ work[t].st = "fork" /\ tn[t] >= MAX_TASK_NUM
  /\ task_num' = task_num - 1
  /\ tn' = [tn EXCEPT ![t] = 0]
  /\ Become(t, [work[t] EXCEPT !.st = "set", !.child = <<>>,
                               !.stack = @ \o work[t].child])
  /\ UNCHANGED <<inputVars, wanted, mainVars, queue, held, moved, resultVars,
                 forked>>

\* biclique_find_serial: the child is called.
SerialChild(t) ==
  /\ IsLarge(t) /\ IsMaximal(Top(t)) /\ Len(work[t].stack) > 1
  /\ LET g == SetChild(Top(t))
     IN  Count(g.L, g.R) /\ Call(t, Consumed(Top(t)), g)
  /\ Private

SmallCandidate(t) ==
  /\ On(t, "set", "set") /\ Candidate(Top(t)).first >= 0
  /\ Cardinality(Candidate(Top(t)).L) <= NN
  /\ LET next == [Top(t) EXCEPT !.i = @ + 1]
         g    == BitChild(Top(t))
     IN  IF IsMaximalSmall(Top(t))
         THEN Call(t, next, g) /\ Count(Candidate(Top(t)).L, g.R)
         ELSE Continue(t, next) /\ Uncounted
  /\ Private

Entry(t) ==
  /\ On(t, "set", "bit") \/ On(t, "bits", "bit")
  /\ LET g == BitEntryChild(Top(t))
         w == Witnesses(Top(t))
     IN  IF w.is_maximal
         THEN /\ Call(t, BitConsumed(Top(t)), g)
              /\ Count(Vertices(Top(t).ids, w.L_prime), g.R)
         ELSE Continue(t, BitConsumed(Top(t))) /\ Uncounted
  /\ Private

Return(t) ==
  /\ work[t].st \in {"set", "bits"} /\ Len(work[t].stack) > 1
  /\ ~Unfinished(Top(t))
  /\ Become(t, [work[t] EXCEPT !.stack = Front(@)])
  /\ Uncounted /\ Private

\* biclique_find ends with task_num-- and FreeIdx.
EndSet(t) ==
  /\ work[t].st = "set" /\ Len(work[t].stack) = 1 /\ ~Unfinished(Top(t))
  /\ task_num' = task_num - 1
  /\ Become(t, [Idle EXCEPT !.st = "free"])
  /\ UNCHANGED <<inputVars, wanted, mainVars, tn, queue, held, moved,
                 resultVars, forked>>

FreeAtEnd(t) ==
  /\ work[t].st = "free"
  /\ held' = [held EXCEPT ![t] = @ - 1]
  /\ Become(t, Idle)
  /\ UNCHANGED <<inputVars, wanted, mainVars, task_num, tn, queue, moved,
                 resultVars, forked>>

\* (mutant) A small root's task ends with task_num-- as well.
EndBitsCounted(t) ==
  /\ work[t].st = "bits" /\ Len(work[t].stack) = 1 /\ ~Unfinished(Top(t))
  /\ task_num' = task_num - 1
  /\ Become(t, Idle)
  /\ UNCHANGED <<inputVars, wanted, mainVars, tn, queue, held, moved,
                 resultVars, forked>>

EndBits(t) ==
  /\ work[t].st = "bits" /\ Len(work[t].stack) = 1 /\ ~Unfinished(Top(t))
  /\ Become(t, Idle)
  /\ Uncounted /\ Private

----------------------------------------------------------------------------
MainStep == Check \/ Look \/ CountRoot \/ RunRoot \/ LoopEnds \/ WaitReturns

TaskStep(t) ==
  \/ \E q \in queue : Take(t, q)
  \/ SmallRoot(t) \/ ExpandBitRoot(t) \/ LargeRoot(t) \/ MoveRoot(t)
  \/ SkipCandidate(t) \/ NotMaximal(t) \/ SmallCandidate(t) \/ Entry(t)
  \/ CountChild(t) \/ RunChild(t) \/ KeepChild(t) \/ SerialChild(t)
  \/ Return(t) \/ EndSet(t) \/ FreeAtEnd(t) \/ EndBits(t)

Stopped == main = "done" /\ UNCHANGED vars

Next == MainStep \/ (\E t \in Threads : TaskStep(t)) \/ Stopped

ParSpec == InitState /\ [][Next]_vars

----------------------------------------------------------------------------
\* A thread never holds two indices, so thread_num of them are enough, and a
\* thread without a task holds none: the assumption IdxPool is built on.
OneIndexEach ==
  \A t \in Threads : /\ held[t] \in {0, 1}
                     /\ work[t].st = "idle" => held[t] = 0

Enum == INSTANCE MBEnum WITH
          todo <- wanted, reported <- found, count <- maximal_nodes_,
          finished <- main = "done"

\* Whatever the interleaving, each wanted maximal biclique is counted once,
\* nothing else is, and Execute is done only when all are counted.
Enumerates == Enum!EnumInit /\ [][Enum!EnumNext]_(Enum!enumVars)

\* The number Execute leaves behind is the number of wanted maximal bicliques.
CountExact == main = "done" => maximal_nodes_ = Cardinality(wanted)

\* The work of a thread, as ParTasks sees it.
AbstractWork(w) ==
  CASE w.st \in {"move", "set"}           -> "set"
    [] w.st \in {"small", "bits", "free"} -> "tail"
    [] OTHER                              -> w.st

Tasks == INSTANCE ParTasks WITH
           queue <- [k \in {"root", "set"} |->
                       Cardinality({q \in queue : q.kind = k})],
           work  <- [t \in Threads |-> AbstractWork(work[t])],
           forks <- MaxForks - forked

\* The finder's schedule is one of ParTasks, so what is shown there of task_num
\* and of the number of tasks holds here.
Schedules == Tasks!Spec
=============================================================================
