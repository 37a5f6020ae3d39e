# AdaMBE: verification project

AdaMBE enumerates the maximal bicliques of a bipartite graph: the pairs (L, R)
of vertex sets, one from each side, that are complete to each other and cannot
be extended on either side.  The program prints their number.  This directory
has TLA+ models of the program, from loading a file to the number printed, and
of GMBE, the GPU finder it is compared with; TLC configurations that check them
on small graphs; and TLAPS proofs about what holds for graphs, rings and numbers
of threads of any size: among them, that AdaMBE and its parallel version count
each maximal biclique once, and that GMBE's count is right when its kernel ends.  Paths are those of the repository: the program is in
`src/`, GMBE in `baselines/MBE-GPU/`.

## 1. Inventory

| Component | State | Operations | What makes it correct |
|---|---|---|---|
| `main.cpp` | options | load, prune, swap sides, reorder, run a finder, print | thresholds, sides and ids agree after every swap and renumbering |
| `BiGraph` (`BiGraph.cpp`) | adjacency lists of both sides, id maps, largest degrees | load, copy, `Reorder`, `Transpose`, `Prune1H`, `ConvertIdVector` | both sides' lists describe the file's edges; `Reorder(RInc)` puts R in increasing size, twins next to each other; `Prune1H` removes no vertex of a biclique and ends at the fixpoint |
| `BicliqueFinder` (`BicliqueFinder.cpp`) | result counter, thresholds, times | `setup`, `finish`, `PrintResult`, `MineLMBC` | the counter is the number of wanted maximal bicliques |
| `AdaMBEFinder` (`AdaFinder.cpp:568-972`) | two scratch buffers, the current root, the call stack | `Execute`, `biclique_find` on sets, `biclique_find` on bitsets | each maximal biclique is counted once |
| `AdaMBEFinder_DSB` (`AdaFinder.cpp:3-374`), the ablation with bitsets only | the current root, the call stack | `Execute`, `biclique_find` on sets and on bitsets | the same; pruning leaves a witness |
| `AdaMBEFinder_NC` (`AdaFinder.cpp:376-566`), the ablation with neighbor caching only | the same, and Nodes on the heap that activations share | `Execute`, `biclique_find` | the same; a shared Node is right for all who hold it |
| `ParAdaMBEFinder` (`ParAdaFinder.cpp`) | a scratch buffer pair and a mutex per thread, `task_num`, a oneTBB task group | `Execute`, root tasks, three `biclique_find`s, `AcquireFreeIdx`, `FreeIdx` | the same, in every interleaving; no buffer is shared; the number of tasks is bounded; `Execute` returns |
| `MbeaFinder`, `ImbeaFinder` (`BaselineFinder.cpp:3-272`) | call stack | `Execute`, `biclique_find` | the same |
| `MineLMBCFinder`, `FmbeFinder` (`BaselineFinder.cpp:274-335`) | call stack | `Execute`; the search is `BicliqueFinder::MineLMBC` | the same |
| `PmbeFinder`, `PmbeBiGraph` (`BaselineFinder.cpp:337-540`) | a renumbered copy of the graph with a range of ids per vertex, call stack | the copy's constructor, `Execute`, `biclique_find` | the same; a range lists what its vertex contains |
| `Biclique` (`BiGraph.cpp:828-895`) | the largest biclique so far | `CompareAndSet`, `Reset` | it only grows |
| `Utility.cpp` | none | operations on sorted sequences, timers | each is the set operation it is named for |
| oneTBB (vendored) | thread arena | `task_group::run`, `wait`, `global_control` | external |
| GMBE: work list (`WorkList.cuh`) | a ring of slots, `front`, `rear`, a flag in each slot | `push_works`, `get`, by the warps of the GPU at once and without a lock | a task pushed is got by one warp, in order, and nobody waits for a slot forever |
| GMBE: search (`IterFinderGpu.cu:905-1160`, `IterFinderGpu.h:290-560`) | per vertex of U its level, per candidate a level and a count in one int | `IterFinderWithMultipleVertex`, `LargeToTiny`, `IterProcess`, `finder_push`, `finder_pop` | a task's subtree is counted once; the tasks it is divided into share it out |
| GMBE: kernel (`IterFinderGpu.cu:1161-1380`) | two kinds of lists, `processing_vertex`, three counters of tasks | `IterFinderKernel_6`: the loops of dividers and consumers | no task is lost, the count is exact when all warps have left, and they do leave |
| other kernels of GMBE, `baselines/oombea`, `baselines/parallel-mbe`, `preprocess/`, `scripts/`, `fig/` | | other programs the paper compares with, data conversion, plots | out of scope |

Interactions.  `main` loads a graph and, if a threshold is not 1, prunes it.  It
swaps sides, thresholds included, if L has the smaller threshold or the fewer
vertices, and again if L's largest degree is more than a hundred times R's;
then it reorders R and runs one finder.  iMBEA and `_DSB` reorder the graph once
more, AdaMBE, `_NC` and ParAdaMBE likewise, and PMBE makes a renumbered copy.
The parallel finder's root tasks also *write* the graph (section 6).
`Execute` walks the vertices of R (LMBC has one root); each is the root of a
subtree that holds the bicliques whose first R vertex it is.  `biclique_find`
expands a node's candidates one after the other; AdaMBE does so on vertex sets
while the L side has more than `NN` vertices and on bitsets below.  In the
parallel finder each root is a task, and a large child becomes a task if fewer
than `MAX_TASK_NUM` exist.

GMBE is a program of its own.  Its kernel runs on all multiprocessors of the GPU,
a block of warps on each.  Consumers claim vertices as roots and take tiny tasks
from their block's list; a task whose node is large is pushed to a list that all
blocks share.  The first warp of a block takes tasks from there and divides each
into tiny tasks for its block.  The warps find out by three counters that
nothing is left to do.

What is hard.  In the enumeration: candidates are consumed, moved, copied or
dropped by the siblings before them, and a candidate is pruned because of the
*order* in which vertices were looked at (`last_l`, PMBE's ranges); a bitset
frame keeps old entries as witnesses, widens, clears and compacts them while it
runs; `_NC` lets a child use up its parent's Nodes; iMBEA merges lists that are
not sorted.  Around it: ids and sides are renumbered and swapped up to six
times, with state that is not brought up to date (`l_degree_` after `Prune1H`).
In the parallel finder: a lock-free walk over mutexes, a counter that is
incremented before and after it is tested, a busy wait on one of the threads
that do the work, and a graph that is changed while it is read.  In GMBE: a ring
claimed by compare-and-swap with positions read earlier, while readers and
writers of two turns wait for the same slot; bounded lists filled by those who
empty them; the end found by three reads at three times; a search without a
stack, whose counts must come back exactly when a node is left.  `PROJECT.json`
lists the hazards with their lines and the properties that cover them.

## 2. Modules

| Module | Models | Kind |
|---|---|---|
| `Bicliques` | graphs as functions from R ids to sets of L ids, `Reorder`'s order, the definition of a maximal biclique | pure operators |
| `MBEnum` | what any finder promises: report each biclique of a set once, then finish | abstract specification |
| `Peel` | what pruning promises: remove vertices with too few neighbors left until none has | abstract specification |
| `Inputs`, `FinderInputs` | the graph and the thresholds; what a finder counts, bitsets | variables, operators |
| `Prune1H` | the loop of `BiGraph::Prune1H` | state machine |
| `Finder` | what the serial finders share: `Execute`'s loop, the call stack, the counter, and their properties | actions and properties |
| `AdaNodes` | how AdaMBE expands one node: the two kinds of root, of candidate and of child, the bitset loop | operators on frames |
| `OnePass` | how the lists of a node are computed in one pass, in `idx_buf_`, `id_array` and `global_2d_buf_` | operators |
| `AdaMBE`, `AdaDSB`, `AdaNC` | `AdaMBEFinder`, `AdaMBEFinder_DSB`, `AdaMBEFinder_NC` on the loop of `Finder` | state machines |
| `MBEA`, `MineLMBC`, `PMBE` | MBEA and iMBEA; LMBC and FMBE; PMBE | state machines |
| `Utility` | `seq_except` | pure operator |
| `Finders` | the switch of `main.cpp` over the serial finders | composition |
| `Main` | `ExpFinderTest`: `BiGraph`'s operations, `Prune1H`, and a finder of `Finders` | composition |
| `IdxPool` | `AcquireFreeIdx` and `FreeIdx` | state machine |
| `ParTasks` | the main loop, `task_num`, the task group | state machine |
| `ParAdaMBE` | `ParAdaMBEFinder`: `AdaNodes` on the schedule of `ParTasks` | state machine |
| `Pool` | what a work list promises: what is put in is taken out once | abstract specification |
| `WorkList` | GMBE's work list, one action per access to shared memory | state machine |
| `GmbeTasks` | GMBE's tasks: paths of up to four vertices, what they stand for | operators |
| `IterFinder` | how a warp does a task itself | state machine |
| `GmbeKernel` | `IterFinderKernel_6`: blocks, dividers, consumers, lists, counters | state machine |
| `BicliquesProofs` | how the bicliques below a node are shared out among its children, for any graph | proofs |
| `AdaNodesProofs` | what one step of an activation does to the bicliques that are still to be found | proofs |
| `MainProofs` | AdaMBE, `Prune1H`, and the program around them, from the file to the count | proofs |
| `ParAdaMBEProofs` | the parallel AdaMBE | proofs |
| `IdxPoolProofs`, `ParTasksProofs`, `WorkListProofs` | theorems about the three | proofs |
| `GmbeProofs` | how GMBE's tasks share out the bicliques, and its kernel | proofs |
| `MCFinders`, `MCMain`, `MCParAdaMBE`, `MCIterFinder`, `MCGmbeKernel` | small graphs or files as initial states | for TLC |

    Bicliques <- Inputs <- FinderInputs <- AdaNodes <- OnePass <- AdaMBE
                                                    <- ParAdaMBE <- MCParAdaMBE
                                        <- Finder   <- AdaMBE, AdaDSB, AdaNC,
                                                       MBEA, MineLMBC, PMBE
                        <- Prune1H
    Finders = AdaMBE + the other five             <- MCFinders
    Main    = Finders + Prune1H                   <- MCMain
    every finder implements MBEnum; ParAdaMBE implements ParTasks;
    Prune1H implements Peel
    Bicliques <- GmbeTasks <- IterFinder          <- MCIterFinder
                           <- GmbeKernel          <- MCGmbeKernel
    IterFinder implements MBEnum; WorkList implements Pool
    IdxPool, ParTasks, WorkList <- ...Proofs
    Bicliques <- BicliquesProofs
    AdaNodes + BicliquesProofs <- AdaNodesProofs
    Main + AdaNodesProofs      <- MainProofs
    ParAdaMBE + AdaNodesProofs <- ParAdaMBEProofs
    GmbeKernel + BicliquesProofs <- GmbeProofs

Names are the code's (`task_num`, `shared_locks`, `cur_v_`, `c_start`, `Q`,
`last_l`, `range_index_`, ...); `map` in `PROJECT.json` gives the lines of each
definition.  Definitions commented "(mutant)" are plausible bugs, used to check
that a property can fail.

### From the code to the model

*Adjacency lists* are sorted, so a set stands for a list.  `graph_` is the lists
of R, `l_adj_lists_` those of L, which only `Main` keeps apart: after `Reorder`
they are each other's mirror image (`SameEdges`), and the finders' modules get
what they read from L's lists out of R's.

*`found` and `wanted`* are history variables: the code counts bicliques and does
not store them.  `found` collects what is counted, in the ids of the *file*
(`InInput`), `wanted` is the set of maximal bicliques of the file by
definition.  `maximal_nodes_` is the code's counter, so that a biclique counted
twice shows.

*`Main`.*  One action per operation `ExpFinderTest` calls.  A file is a function
from its lines to non-empty sets of ids (`getLine` drops empty lines).  `Load`
leaves L's lists in the file's ids, as the code does (finding 5); the largest
degrees stay as they were when loaded, as `Prune1H` does not touch them, and
decide the second swap.  `Reorder` takes every permutation `std::sort` may leave.

*`Prune1H`.*  A turn of the inner loops is a step: the loop goes through the list
of one seed.  The vectors of seeds are sets, which is right as nothing is pushed
twice (`NoSecondPush`) and their order decides nothing.

*Frames.*  A frame is an activation of `biclique_find`, `stack` the call stack.
In AdaMBE a set frame has `L`, `R`, the candidates `C` and the index `i`, a bit
frame `ids` (the vertices bit positions stand for), `R`, the entries `QC` and
`c_start`.  `idx_buf_`, `id_array` and `global_2d_buf_` are how the code
computes intersections in one pass; the frames have the intersections, and
`OnePass` the pass, which `ListsExact` compares with them at every node the search
reaches.  `OnePass` starts from clean buffers; as `ScratchClean` says that it
leaves them clean at every call and return, they are clean whenever it starts.  In
the parallel finder, where each index has a pair and a task that has freed its
index leaves the pair to the next, the code is the same.  What the code leaves in a candidate's list afterwards is kept exactly: `Consumed` says
which candidates a sibling uses up, `SetChild` which are handed on.  `Enter` is
the entry of the recursive search, where `EXIT_TIME` (48 hours) may end the
process: the state is then "expired".

*`AdaDSB`.*  `P_Q` keeps its numbers (`second`), because the code decides what to
prune by comparing them.  All bitsets of this finder are filled bit by bit, so
the set of L vertices stands for a bitset (`AdaMBE`'s are not, which is why
`AdaNodes` has positions).  The bitset function counts a node *after* its
subtree; `Return` does so too, and at `EXIT_TIME` it shows.

*`AdaNC`.*  `heap` is `nodes`, a sequence that grows when Nodes are created and
is cut when the activation that created them returns; an activation's `C` has
indices into it.  A Node's `R` is only ever tested for emptiness while others
can see it: it is the flag `used`.

*`MBEA`.*  `P` is a sequence, since iMBEA's is not in order of ids and `seq_except`
needs that; iMBEA sorts by a key that leaves ties open, and `P_primes` has every
outcome.  `Q` is a set: only whether something in it covers `L_prime` is asked.

*`MineLMBC`.*  `tailX` is a set, and `IsBack` says which element the sorted vector
has at its back.  *`PMBE`.*  `BuildGraph` is the constructor of the copy, with
every order `std::sort` may leave; `heap` is `range_index_`, and each frame has
its own `ex_q`, as in the code.

*`IdxPool`.*  One action per `try_lock`.  `try_lock` may fail spuriously by the
standard; glibc's does not, and the model's does not.

*`ParTasks`.*  `main` is where `Execute` is in its loop, `work[t]` what thread t
does: "root" (a root task, until it turns out small or large), "set"
(`biclique_find`), "fork" (between `task_num++` and what follows), "tail" (after
the last change of `task_num`).  How many large children there are is left
open, up to `MaxForks`.

*`ParAdaMBE`.*  The same with the real frames.  A step makes at most one access
to shared state; a step that is a thread's own (expanding a node) is joined
with the count that follows, because nobody reads `maximal_nodes_` before the
end.  The main loop's comparison of a list that a task moves away is a data
race; the model lets it see the list before or after the move, which are the
two answers the comparison can give.

*`WorkList`.*  As the build has it, without `DATA_COPY`: readers and writers
exclude each other by the flag `isvalid` of a slot alone.  The code keeps `front`
and `rear` modulo `size`; the model lets them count on, computes with `Idx` of
them, and names a task by the position it was pushed to.  `Swaps` is what the
compare-and-swap can tell: it sees slots, so that it also succeeds when the ring
has turned since the position was read.  Nothing in the code keeps the ring from
turning past a call that is held up: the list that blocks share is large, but a
block's own has 384 slots (`IterFinderGpu.cu:1158`).  When it happens a list goes
wrong.  The history variable `overtaken` records that it has: a claim was made
with a front or rear that is not the one that was read, or of a slot that a reader
or writer of the turn before is still waiting for.  No guard depends on it.  The
properties say that this is the only way the list goes wrong, whatever the order
of the steps.  Lane 0 claims for its warp, the lanes of a push then write a slot
each.

*`IterFinder`.*  The two halves of a packed int are `Level` and `Neighbors`, with
the wrap-around of the real int at `Half` 2^16.  `exe_stack` is a sequence, so
that `level` is its length.  The lanes share the candidates in turn and a lane
stops at the first witness, which decides what `PushedC` changes.

*`GmbeKernel`.*  A push to a list and a get are one step, as `WorkList` implements
a first-in-first-out pool as long as no call is overtaken.  That none is, is an
assumption of this module that the code does not enforce; it holds of a list with
room for all tasks of a run (`FitsImplements`).  A task that a warp does itself is one step that counts
the task's subtree, as `IterFinder` does.  Each access to a counter or to
`processing_vertex` is a step.  `lgc`, `llc` and `ltc` are the code's; the warps'
`local_mb_counter`s are summed at once, as nobody reads the sum before the end.
`TakeLarge` includes `LargeToTiny`, which reads only the graph.

## 3. Runs

| Run | Instance | Shows |
|---|---|---|
| `idx_pool` | 4 threads, 4 mutexes | `Exclusive`, `ScanNeverFails` with its reason `Crowding`, and `AcquireReturns` |
| `par_tasks` | main and 2 workers, `MAX_TASK_NUM` 2, 5 vertices, up to 4 forks | `Counted`, `Bounded`, `Terminates` |
| `par_ada_mbe` | main and 2 workers, every ordered graph on 4 L vertices, in order of degree, and 3 R vertices, without large twins, `NN` in {0, 1, 2}, `MAX_TASK_NUM` 2 | `Enumerates` in every interleaving, `Schedules` (implements `ParTasks`), `OneIndexEach` |
| `finders` | all eight serial finders, every ordered graph on 4 L vertices and 3 or 4 R vertices, those not isolated; `_DSB` and `_NC` also with 5 L vertices and lists of 2 or more, AdaMBE with 6 and 3 and lists of 4 or more; `NN` in {1, 4} | `Enumerates` (implements `MBEnum`), `RootsComplete`, and what each finder's pruning rests on: `FramesClosed`, `Witnessed`, `NodesCurrent`, `RangesContained`; for AdaMBE's scratch buffers `ListsExact`, `ScratchClean` |
| `main` | every file of 2 or 3 lines and up to 3 ids, thresholds 1 to 3 on each side, "-o" 1 to 3, `NN` in {0, 2}, all serial finders | `Enumerates` and `Terminates` from the file to the count; `SameEdges`; for `Prune1H` `Peels` (implements `Peel`), `NoSecondPush`, `BicliquesKept` |
| `work_list` | 3 warps, 3 slots, 4 tasks, pushed one or two at a time | `KeepsTasks` (implements `Pool`), `ClaimsBacked`, `InOrder`, `ClaimsServed`, in every interleaving, each up to where the ring turns past a call |
| `iter_finder` | every task of every graph of 4 by 4 vertices, 2 lanes | `DoesTask` (implements `MBEnum` for the task's subtree), `CountsCurrent`, `TasksShareOut` |
| `gmbe_kernel` | a divider, 2 consumers, lists with room for one task; a root and a tiny task are large, or two roots | `NothingLost`, `EndedExact`, `CountersExact`, `EndsUnlessLeft` |
| `par_ada_mbe_twins`, `par_tasks_one_thread`, `ada_mbe_orders`, `gmbe_kernel_hangs` | | violations, findings 1, 2, 3 and 4 |

Six more configurations, `AdaMBEWide.cfg` (with module `MCFinders`),
`DSBThresholds.cfg`, `FMBEThresholds.cfg`, `LoadGaps.cfg` (`MCMain`),
`WorkListTurns.cfg` (`WorkList`) and `IterFinderLong.cfg` (`MCIterFinder`), show
what happens outside the conditions of the passing runs (`WorkListTurns.cfg`: in
the very instance of `work_list`): TLC finds the one property of each violated
(section 6).

Conditions of the passing runs.  They leave out exactly what the findings show
not to work: `finders` starts from `Reorder`'s increasing order with thresholds
of 1 (so that all finders can share it); `main` runs AdaMBE with "-o 2" only,
`_DSB` with thresholds of 1, FMBE with thresholds both 1 or both larger (the
operator `Works` of `MCMain`), and files without gaps, which is what
`preprocess/data_convert.cpp` writes; no bitset is wider than the word;
`par_ada_mbe` has more than one thread and no two R vertices with one list of
more than `NN` vertices; in
`iter_finder` counts fit in half an int; `EndsUnlessLeft` says that the kernel
ends if no warp leaves early, which finding 4 shows it may.  GMBE's graphs have
no vertex of V without neighbors, whose root task reads `vertices[-1]`.

Bounds.  *Pool*: with four threads a walker can be overtaken by three others,
each at a different mutex, and the proof removes the bound.  *Tasks*: with
`MAX_TASK_NUM` 2 and 5 vertices the main loop has to wait, children are
refused, and two threads are past the limit at once; again the proofs remove
the bound (not for `Terminates`).  *Graphs*: `NN` = 4 puts every root of 4 L
vertices on bitsets, `NN` = 1 changes over in the middle, from roots and from
candidates.  Four L vertices make two levels of large candidates with an
effective `last_l`: with three, changing `last_l` by one goes unnoticed.  In the
increasing order a candidate that lies inside an earlier one, with both smaller
than the root, needs five L vertices: `_DSB` and `_NC` have five, and with four
their mutants go unnoticed.  `id_array` shares the start of a list that
`global_2d_buf_` must take over only if one candidate's list leaves out the middle
of another's, with all three shorter than the root's: that needs six L vertices
and lists of at least four.  For AdaMBE and ParAdaMBE the proofs remove the
bound on the graph, the thresholds, `NN` and the threads; the runs are then what
shows that a plausible bug does not go unnoticed.  Four R vertices make witnesses that are widened,
cleared and compacted, ranges of PMBE that end after the next begins, and
candidates of iMBEA that stay in P.  *Files*: three lines and ids make every
combination of prune, first swap and second swap; `DegreeRatio` scales the 100
of "GetLDegree() > GetRDegree()*100" to 1, so that the second swap happens.
Cascades of `Prune1H` over several turns happen with three vertices on a side,
and the proofs remove the bound.  `NN` is the compile-time constant 64 in the
shipped binary; what matters is which nodes fall on each side of it.
*Parallel*: `MAX_TASK_NUM` 2 (960 in the code) makes children both run as tasks
(a root is itself counted, so with 1 none would) and be taken back; only graphs
whose L vertices are in order of degree are taken, as the schedule does not
depend on that order and `finders` varies it; four L vertices are needed to
reach a child of a child that was taken back (`biclique_find_serial`'s
recursion).  `MaxForks` 9 is more than these graphs can fork.  Workers are
interchangeable, and symmetry is used in this run only, which checks no
liveness.  *GMBE*: four tasks on three slots use a slot again while its reader of
the turn before may still be there, and turn the ring past calls: in this very
instance each property is violated without its "unless the ring turns past a call"
(`WorkListTurns.cfg` checks one of them, `WorkBacked`).  The proofs remove the bound
(not for `ClaimsServed`).  Four by four vertices make paths three deep with a candidate
pruned inside another and restored; 5 by 4 and, with sparse lists left out, 4 by
5 have been checked too and take longer.  Lists with room for one task
(`LARGE_WORKLIST_SIZE` 2) make every push meet a full list; one divider and two
consumers are the least with which counters are read while two others change
them.  `bound_height` and `bound_size` (20 and 1500 by default) are scaled so
that roots are large, and in one graph a tiny task as well, so that a task is
put aside twice; with two large roots one may find the list full.  The proofs remove
the bounds on the graph, the blocks, the consumers, the lists and what is large (not
for `EndsUnlessLeft`), and that on the graph for `TasksShareOut`.  Deadlock is not checked in the two work list runs, as the bound
`MaxTasks` may hold back every warp.

`WordBits` is 64 in all runs; `AdaMBEWide.cfg` scales it down together with `NN`.

## 4. Fairness

`IdxPool` assumes that a thread inside `AcquireFreeIdx` keeps running; nothing
is assumed of a thread that holds an index, which may enumerate for hours.
`ParTasks` assumes weak fairness of the main thread and of every other thread:
the operating system runs each, an activation of `biclique_find` ends (`Terminates`
of `main` is the evidence: a subtree is finite), and a thread of the arena
without work takes a task if there is one, which is what oneTBB's workers do.
`MCMain` has the serial program, which runs on one thread, and assumes only that
it keeps running: weak fairness of its next-state relation as a whole.
`WorkList` assumes that a warp that has claimed positions keeps running, and
nothing of the others.  `MCGmbeKernel` assumes weak fairness of every warp: the
kernel launches as many blocks as the GPU has multiprocessors (`MAX_BLOCKS`), so
all are resident, and their schedulers issue every warp that can run.
`MCIterFinder` has one warp that keeps running.

`ParAdaMBE` is checked for safety; that `Execute` returns is checked on
`ParTasks`, whose steps it takes.

## 5. Proofs

Everything in the proof modules is proved for any value of the constants and
inputs of any size, from these assumptions:

- those named in the models: `PoolAssumption` (no more threads than mutexes),
  `TasksAssumption` and `ListAssumption` (typing), `KernelAssumption` (at least one
  block, finitely many, any number of consumers, lists with room for a task);
- for `WorkList` nothing more; only `FitsImplements` is about a list with more slots
  than tasks;
- for GMBE, `KernelGraph`: the vertices of V are numbered from 0 and have neighbors, finitely
  many.  This holds in `gmbe_kernel` and `iter_finder`, and section 3 says what happens
  without neighbors;
- for the program, `ProgramInit`: a file whose lines have ids, none of which is left
  out (`FileOK`; finding 5 shows the latter to be needed), and thresholds of at
  least 1.  Of the options nothing is assumed for what is proved of the graph; of the
  search with AdaMBE that it runs in increasing order and that bitsets fit in a word
  (`AdaProgram`, `WidthAssumption`), as findings 3 and 6 show to be needed;
- for `Prune1H` alone, what `PruneInit` says of its arguments: finite sides whose lists
  have the same edges, and thresholds of at least 1;
- for AdaMBE alone, `AdaInit`: a graph with ids from 0 and finite lists, a threshold on L
  of at least 1 and an `NN` within the word (`InputOK`); `Reorder`'s increasing order
  (`Ordered`); and ids of L and R that stand for different vertices of the file
  (`MapsOK`).  That the program starts AdaMBE so is proved too (`AdaMBEStarts`);
- for ParAdaMBE, `GraphOK`: the same of the graph, and no two vertices of R with one list of more
  than `NN` vertices, which finding 1 shows to be needed.  The initial states of the
  runs `finders` (with AdaMBE) and `par_ada_mbe` satisfy these conditions.  For
  `Schedules` alone, `ForksSpec`: that `MaxForks`, which the code does not have, is at
  least the number of the graph's bicliques, so that it holds nothing back.

### That each maximal biclique is counted once

The argument is the same for both finders.  A biclique is known by its L side T, a
closed set.  An activation f at the node (L, R) has a set of R vertices left to
try (`Rest(f)`), and is to find `Below(f)`: the closed proper subsets of L above the
threshold whose further common neighbors all are in `Rest(f)`.  All that matters of
an activation is this set.  A biclique that is neither counted nor below some
activation or root is lost; one that is below two is found twice.

`BicliquesProofs` is about graphs alone, without any code.
- The candidate c that is tried is the first of the rest.  The child's L side
  L \cap N(c) is closed, with c as the first vertex of the rest that is added, exactly
  if no vertex before c outside R covers it (`Hidden`, `Child`).  If one does, nothing
  with c in it is to be found here (`TodoHidden`), and otherwise what is below the
  node is the child's own biclique, those below the child, and those below what
  remains of the node: three parts without a common element (`TodoSplit`).
- `Inherited` and `Remains` say what a child may leave out and what the node may drop.
  They allow what the code does: a candidate whose list lies inside the child's is
  dropped in the node, and one that lies before `last_l` in the child.
- `Covered` is what makes the test of maximality possible by looking at fewer vertices
  than all: what a vertex outside R has of L, if it is enough, is covered by a vertex
  before the whole rest, or the vertex is in the rest.  `ChildCovered` and
  `RemainsCovered` show that it stays so.
- For the roots: in increasing order, with twins together, a root that is not
  passed over has no earlier vertex that covers its list (`NoneEarlier`); a root
  passed over is in no biclique that later ones do not have (`RootPassed`); and
  `RootSplit` is `TodoSplit` for the whole graph.

`AdaNodesProofs` shows that the code of one activation does this.
- `SetFrame` and `BitFrame` are the inductive invariants of activations on sets
  and on bitsets.  A bit frame has no L, only bits that are positions of `ids`, and its
  entries before `c_start` are what is left of witnesses that the entries since have
  widened, cleared and cut down.  The invariant says that each of them still is what
  some vertex before the candidates has in common with L (`IsWitness`), and that for
  each vertex left out that could hide a candidate one of them has at least as much.
- The theorems say what a step does to `Below`: it passes over a candidate and
  nothing changes (`PassesOver`, by `SkipPasses`), it returns and nothing is left
  (`ReturnEmpty`), or it finds T and leaves two activations that share out the rest
  (`Splits`): `LargeSplits` for candidates tested with `Q` and `last_l`, `SmallSplits` for
  those tested by counting the vertices before them, `EntrySplits` for bitset
  entries.  `RootsOpen` is the same for a root, on sets and on bitsets.

`MainProofs`, in its first part, adds the stack and `Execute`.
- `EachFoundOnce`: the inductive invariant `IInv`.  The activations on the stack are
  at nodes of the current root's subtree (`Rooted`), no biclique is below two of them
  (`Apart`), and what is found is all but what is below them or begins with a later
  root (`Pending`).  When `EXIT_TIME` ends the process in the middle of a call, the
  callee's part is missing on the stack, and the account holds of the roots only:
  this is why `RootsComplete` is a part of `IInv`.
- `LeavesNone`, `Closes`, `CountsAll`: `RootsComplete`, `FramesClosed`, `CountExact`.
- `AdaMBEEnumerates`: a step reports one wanted biclique that has not been reported, or
  none, and `Execute` returns when nothing is pending; so it implements `MBEnum`.

`ParAdaMBEProofs` has the same account kept by several parties.
- `FoundByOne`: the inductive invariant `EInv`.  What is still to be found is shared
  out (`SharedBy`) by the roots the main loop has not come to, the tasks in the group
  and the threads, whose share is what is below the activations on their stacks
  and the child in hand between `task_num++` and the decision about it.  A step of a
  thread finds one biclique of its share, takes a task, or gives the child away
  (`Finds`, `Takes`, `Gives`); a step of the main loop gives the next root away
  (`RootGiven`).  Nobody else's share is touched, which is all there is to say about
  interleavings.
- The graph, however, is shared and is written: a large root moves its list away.
  `MovedOK` says that a list which is gone, or about to go, is that of a biclique that
  has been counted, of a vertex the main loop has left, and has more than `NN`
  vertices.  So a root task never starts from a list that is gone (`ListThere`), and
  the main loop, which compares a list with its predecessor's that may be empty by
  now, passes over the vertices it should (`SkippedPassed`).  This last step is where
  `GraphOK` is needed, and where finding 1 begins.
- `EnumeratesInParallel`, `CountsThemAll`: it implements `MBEnum`, and the number left
  behind is right, for any number of threads and any interleaving.
- `SchedulesTasks`: its steps are steps of `ParTasks`, which has two numbers where the
  finder has a set of tasks.  They agree as long as no task is put in the group that
  is there already.  The invariant `SInv` adds to `EInv` that the children in hand and
  in the group have L sides that are counted and all different (`GivenOK`): a child's
  was still to be found (`Open`) before the step that counts it, theirs no longer.
  `ParTasks` counts at most `MaxForks` children; as each closes a biclique for good,
  there are no more than bicliques (`ForksKept`).

### That pruning and renumbering lose nothing

The second part of `MainProofs` is `Prune1H` by itself.
- `DegreesCounted`: the inductive invariant `PruneInv`.  A degree is the number of
  neighbors the loop has not been through (`DegreesExact`); the seeds to come and
  those done are disjoint and together exactly the vertices whose degree is too
  low (`SeedsExact`).  A step takes one seed from the one class to the other:
  its neighbors' degrees and lists lose one element each (`OneDone`), and those
  that were exactly at the bound are the ones that become seeds.
- `PushedOnce`, `RemovedExactly`: from `SeedsExact`; a neighbor that falls below the
  bound was at it, so it neither is nor was a seed.
- `KeepsBicliques`: a further invariant (`NoneDone`), for one biclique: as long
  as none of its vertices is done, each has all of the other side for neighbors,
  so none is a seed (`NoneSeeds`), and none gets done.
- `PeelsOff`: a step is a step of `Peel`, as by `DegreesExact` the degree of a seed
  is what `Peel` counts, and when the loop ends there are no seeds.

The third part is the program, from the file on.
- `FileIsKept`: the inductive invariant `ProgramInv`.  Its heart is `Faithful`: the two
  sides' lists have the same edges, which are those of the file between the vertices
  that are left, whatever the maps have become (`Left`), *and* the vertices that are
  left contain every biclique of the file above the thresholds (`NoneLost`).  Each
  operation keeps it: loading (`LoadFits`, where the file must have no gaps, as L's lists are
  not renumbered), a swap, with the thresholds swapped along (`FitsTurned`), a reordering,
  whatever the permutation (`FitsRenumbered`), and pruning, when what it removes is in no
  biclique (`FitsPruned`, which needs `NoneDone` of the loop, by `KeptAll`).
- `EdgesOfFile`, `NoGapsNoStrangers`: `SameEdges` and `LogicIds`, for all finders but PMBE,
  which works on a copy.  `MainPushesOnce`, `MainKeepsBicliques`, `MainPeels`: `main`
  calls `Prune1H` on what its theorems assume.
- `AdaMBEOnFiles`: why the part of the graph that is left answers the question asked of the
  file.  A biclique that is maximal in a part of a graph need not be so in the whole;
  by `NoneLost` it is (`LeftMaximal`, `MaximalLeft` of `BicliquesProofs`), so the maximal bicliques of the
  graph are, renamed and turned, those of the file (`AskedOfGraph`).  With that AdaMBE
  starts as its own proof assumes (`AdaMBEStarts`).
- `FileCounted`, `FileEnumerated`: the number printed is that of the maximal bicliques of
  the file, and the program with AdaMBE implements `MBEnum` from the file on.

### The others

`IdxPoolProofs`
- `TypeCorrect`, `HoldersExclusive`: by induction on the steps; a mutex's owner
  and its holder's index change together.
- `WalkersStayBehind`, `WalkNeverFails`: that a walker which reaches the last
  mutex finds it free is not inductive, since what matters is where the *other*
  walkers are.  The inductive invariant is `Crowding`: at most `thread_num - k`
  threads are at position k or beyond.  It bites when a walker moves from k to
  k + 1: mutex k is locked, so its holder stays at k (`HoldersExclusive`); the
  walker and the holder are both at k or beyond, and so k + 1 has at least one
  thread fewer than k had, before the step moves the walker there
  (`TwoStayBehind`).  At the last mutex at most one thread can be, so a walker
  there is alone and the mutex is free.

`ParTasksProofs`
- `TypeCorrect`.
- `TaskNumExact`: `Counted` is inductive with the types.  Each step moves a
  thread between classes of `work`; `DoingMoves` says how the sizes of the
  classes change, and `CountedMoves` adds them up.
- `TasksBounded`: that `task_num` is bounded is false as it stands, since
  refused children are counted for a moment.  The invariant subtracts them: a
  thread that is told `tn >= MAX_TASK_NUM` enters `Refused` in the step that
  increments `task_num`.

`ParAdaMBEProofs`, its first part
- `HeldExact`: the inductive invariant: what a thread holds of the index pool
  follows from where it is in the code (`Holds`), through every nesting of
  activations that `biclique_find` makes.
- `OneEach`, `IndexFree`: so no thread holds two indices, and a thread that asks
  for one holds none, which leaves one free: `AcquireFreeIdx` never waits.

`WorkListProofs`
- `TypeCorrect`: without a condition; every action keeps the types (`NextTypes`).
- `RingExact`: the inductive invariant, `overtaken \/ IInv`: each step keeps `IInv`
  unless it is the one that overtakes a call (`NextIInv`).  `IInv` follows a
  position: it is to be written by one warp, then is in its slot, then with the get
  that claimed it.  `CountsInv` bounds what the warps know: a front or rear read
  earlier is never ahead of the present one, so a compare-and-swap that succeeds
  has either found the position unchanged since it was read (`ClaimsFront`,
  `ClaimsRear`) or overtakes its own call.  If unchanged, what was computed from the
  other end can only have become safer.  `RingInv` says what the slots hold.  It bites
  where two turns meet: if a slot holds the task of the next turn while a reader
  of this turn still waits, its own task must still be to be written
  (`PositionsOK`), but then `rear` cannot have passed it by a full turn
  (`WritersOK`), so the next turn's task is not there (`Found`).
- Two positions less than `size` apart have different slots (`IdxInjective`), and
  the code's modular difference is the distance (`IdxDistance`).
- `ClaimsExact`, `FirstInFirstOut`: from `RingExact`.
- `Implements`: a step that keeps `IInv` puts in the claimed positions, takes out one
  task, or changes nothing inside (`GetIn`, `PushIn`), so it is a step of `Pool`.
- `FitsNotOvertaken`, `FitsImplements`: if a list has more slots than tasks are ever
  pushed, positions of one turn are told apart by their slots (`FirstTurn`), so no
  call is overtaken and the list is a `Pool` without a condition.

### That GMBE loses no task and ends with the right count

`GmbeProofs` begins with tasks, on any graph.  A biclique is in a task's subtree if the
task is what one gets by taking, again and again, the least vertex of the biclique
outside the R so far.
- `RootHas`, `ChildHas`: what that means for a root and for a child.  `ChildrenHave`: of a
  maximal task every biclique but its own is in the subtree of exactly one child.
  `NothingBelow`: of a task that is not maximal none is, which is why it may be dropped
  without a look at its children.
- `IsTask` is what the tasks that come up have in common; `RootIsTask` and `ChildIsTask` show
  it by the steps that make tasks, `AllAreTasks` for all of them.  `LargeToTiny` and
  the search for a small task find where later candidates begin as a difference of
  positions (`next_id`): that of the task's last vertex among all neighbors, less
  the number of R's vertices before it.  `InLater` shows that this is right.
- `TasksShare`: `TasksShareOut`, which is about the graph alone and so holds in `IterFinder`
  as in the kernel (`TasksShareNow`).

The kernel's inductive invariant, `KInv`, keeps two accounts over all lists and warps.
- `Counters`: each counter is the sum of what is waiting, in hand, or done and not
  taken off (`CountersAgree` is this).  It cannot be kept without knowing what a
  warp has at each place in the code: its task, its buffer, its three local counts (`WarpOK`).
- `Shared`: for each maximal biclique, the number of parties that are to find it, and
  1 if it is counted, add up to 1.  A vertex nobody has claimed has the bicliques that
  begin with it (`Unclaimed`); the list of large tasks and the warps about to push there
  have what is in a task's subtree *except* its own biclique, which is counted when the
  task is put aside; the tiny lists, the buffers and the warps with a task have what is in
  its subtree.  Each step moves a biclique from one party to another or to `found`:
  `ClaimsOne`, `Finds`, `Stays`, `ListMoves`, and `Divided` for a large task that becomes
  tiny ones.

`EndsExactly` does not follow from these alone.  Warps may leave while tasks are still
waiting (finding 4), so when the last one has left, something could be left behind.  It is not, by
`NoneWaits`: the list of large tasks is empty when all warps are past their reading of
`large_count`, and the tiny lists are empty when all have left.  The reason is that the
*last* warp to read zero in a counter does so when no other warp has anything in hand,
so that the counter is the length of the lists.  With the lists
and the hands empty and all vertices claimed, `Shared` says that each biclique is counted.

`NothingIsLost` states `Shared` in terms of the tasks themselves.  It needs in
addition `Aside`: of a task put aside the own biclique is among those counted, and no
consumer ever divides.  Then the outstanding tasks that have a biclique still to be counted
are one (`OneByVertex`, `OneByLarge`, `OneByTiny`, `OneByWarp`).

A sum over warps or blocks is the number of pairs of a warp and a unit it has
(`SumOf`), and what a list has of a biclique the number of its positions that have it
(`CountIn`), so that both follow from the library's facts on finite sets, without
induction (`SumChanges`, `CountConcat`).

### Only model-checked

- Liveness (`AcquireReturns`, `Terminates`, `ClaimsServed`, `EndsUnlessLeft`), which is
  out of the prover's reach.
- `Enumerates` of the seven other serial finders, and what their pruning rests on:
  `Witnessed`, `NodesCurrent`, `RangesContained`.  `RootsComplete` is proved for AdaMBE only.
- `ListsExact` and `ScratchClean`: `OnePass` is folds over lists, and what a fold
  computes for every list is induction over data.
- `Enumerates` of `Main` with the other finders, whose graph is proved to be right.
- Of GMBE's search `DoesTask` and `CountsCurrent`: the packed counts go through
  `finder_pop`, which counts each one up a unit at a time (`CountedUp`, a recursive
  function), and what that gives for every number of units is induction over data.  So
  that a warp does its task in one step stays checked on small graphs, as does that a
  push or a get is one step of the kernel; the latter is proved of the list itself.

## 6. Findings

1. `par_ada_mbe_twins`.  A large root task moves its adjacency list out of the
   graph (`ParAdaFinder.cpp:102`), the main loop compares lists to skip twins
   (line 50).  If the predecessor's list is already gone, the twin is not
   skipped and its bicliques are counted twice.
2. `par_tasks_one_thread`.  With one thread, the default, the main loop spins
   forever once `task_num` exceeds `MAX_TASK_NUM`: nobody runs the tasks before
   `tg.wait()`.
3. `ada_mbe_orders`.  "-o 1" and "-o 3", which the scripts of the paper's figure
   12 use, give wrong counts: roots are counted without a test of maximality,
   which only the increasing order justifies.
4. `gmbe_kernel_hangs`.  A warp leaves when it has read zero in three counters
   one after the other, while a task moves from one to the next.  The result is
   never wrong (`EndedExact`), but if the dividers leave this way the consumers
   wait for them forever.

With the further configurations:

5. `LoadGaps.cfg`.  If a file leaves out an id of R, L's lists keep the file's ids
   although R is renumbered: `r_valid != GetRSize()` (`BiGraph.cpp:75`) can not
   hold after line 74.  `Reorder` repairs this unless the sides are swapped
   before; then it writes out of range.
6. `AdaMBEWide.cfg`.  `bitset_t(1LLU << li)` is wrong for `li >= 64`, and the
   build makes binaries with `NN` up to 256.
7. `DSBThresholds.cfg`.  The bitset code of `AdaMBEFinder_DSB` counts bicliques
   below the thresholds "-x" and "-y".
8. `FMBEThresholds.cfg`.  FMBE decides by the threshold of the wrong side whether
   a single vertex makes a biclique (`BaselineFinder.cpp:324`).
9. `WorkListTurns.cfg`.  The fence in `require_read` keeps `worknum` from being
   computed wrongly (`WorkList.cuh:85`), but as positions are kept modulo the
   size, the compare-and-swap cannot tell that the ring has turned since: a get
   can claim a position nobody has pushed to.  `work_list` reaches such states too;
   its properties say that nothing else goes wrong.
10. `IterFinderLong.cfg`.  GMBE's buffers take lists of up to 151552 vertices, but
   a candidate's neighbors are counted in 16 bits: with 65536 common neighbors
   the count carries into the level and the candidate is passed over.

## 7. Assumptions about what is outside

- oneTBB: `global_control` caps the threads that run tasks, the main one
  included, at `thread_num`; `tg.run` never runs the task itself; the main
  thread runs tasks inside `tg.wait()` only; a task runs once.
- `std::sort`, `operator<` of `std::vector<int>` and `std::bitset` do what the
  standard says.  A shift count is taken modulo the word, as x86 does.
- Accesses to the atomics are sequentially consistent, as written.
- On the GPU, accesses to volatile and atomic variables with the fences written
  between them take effect in order; the lanes of a warp run in step, as the code
  relies on throughout.

### Not modelled

- `processing_nodes_` and `maximum_biclique_`, which nothing reads; progress
  output every `INTERVAL` results; memory and time measurements; the unread
  static counters in `biclique_find`.
- `Reorder`'s cases 0, 1 and 4, which no documented option selects; `Prune2H`,
  `Prune2HOpt` and `PopOrigGraph`, which have no caller.
- Of GMBE: the kernels of "-s 0" and "-s 1", which have no work lists, and of
  "-s 3" to "-s 6", which share the vertices out among several GPUs; loading on
  the host; the variants of the work list with locks, which are not compiled.
- Most of the repository's lines.  AdaMBE itself is the 4,125 lines of
  `src/*.cpp` and `*.h`; the rest is oneTBB, vendored twice, the `cub` library,
  and the programs of other authors the paper compares with.  oneTBB is modelled
  from how it is used; of the other programs GMBE is modelled, being the one
  whose concurrency is its own.  `oombea` is a serial variant of the search, and
  `parallel-mbe` leaves its scheduling to oneTBB.

## 8. Plan

Done: the abstract specifications, all serial finders and the parallel one, the
program around the serial ones, the pool and the scheduler, GMBE's work list,
search and kernel, with their runs; the proofs that AdaMBE and ParAdaMBE implement
`MBEnum`, that the program does so from the file on and ParAdaMBE keeps to the
schedule, those of pool, scheduler, `Prune1H`, the parallel finder's indices and
the work list, and that GMBE's kernel loses no task and ends with the right count.

Left, in this order:
1. Proofs: MBEA on `BicliquesProofs`; `CountsCurrent` of GMBE's search, with `CountedUp`
   replaced by what it computes.
2. `Utility`'s other sequence operations as folds against the set operations.
3. ParAdaMBE behind `Main`'s loading and pruning.
4. `maximum_biclique_` under its two `CompareAndSet`s.
5. The multi-GPU kernels: two claims of a vertex, on the device and across.
