----------------------------- MODULE GmbeKernel -----------------------------
(***************************************************************************)
(* How the warps of GMBE share the work: IterFinderKernel_6.               *)
(*                                                                         *)
(* The first warp of each block is its divider, the others are consumers.  *)
(* A consumer does tiny tasks of its block's list and roots.  A task that  *)
(* is too large to be done at once goes to the global list of large tasks, *)
(* and a divider turns it into tiny tasks for its block.                   *)
(*                                                                         *)
(* A warp leaves when it has read zero in three counters: of roots, large  *)
(* and tiny tasks begun or waiting.  Tasks are counted one by one when     *)
(* they appear, and taken off by each warp for all it has done when it     *)
(* finds no vertex left.                                                   *)
(*                                                                         *)
(* A push to a list and a get from it are one step, as WorkList shows they *)
(* can be taken for; a task a warp does itself is one step, as IterFinder  *)
(* shows.                                                                  *)
(***************************************************************************)
EXTENDS GmbeTasks

CONSTANTS
  Blocks, Consumers,        \* the blocks, and the consumers of each
  LargeSize, TinySize,      \* LARGE_WORKLIST_SIZE and LOCAL_TINY_WORKLIST_SIZE
  bound_height, bound_size  \* what is large

ASSUME KernelAssumption ==
  /\ IsFiniteSet(Blocks) /\ Blocks # {} /\ Consumers \in Nat
  /\ LargeSize \in Nat \ {0, 1} /\ TinySize \in Nat \ {0, 1}
  /\ bound_height \in Nat /\ bound_size \in Nat

VARIABLES
  processing_vertex,      \* the number of vertices claimed; may overshoot
  global_count,           \* roots, large and tiny tasks begun or waiting
  large_count,
  tiny_count,
  global_large_worklist,
  local_tiny_worklist,    \* for each block
  warp,                   \* where each warp is, and what it has
  maximal_bicliques,      \* the sum of the warps' local_mb_counter
  found,                  \* the bicliques counted; history
  wanted                  \* those of the graph; history, set by StartState

counters == <<global_count, large_count, tiny_count>>
lists == <<global_large_worklist, local_tiny_worklist>>
result == <<maximal_bicliques, found>>
fixed == <<graph, wanted>>
vars == <<fixed, processing_vertex, counters, lists, warp, result>>

Dividers == Blocks \X {0}
Warps == Blocks \X (0 .. Consumers)
ConsumerWarps == Warps \ Dividers

V_size == Cardinality(DOMAIN graph)
Full == Len(global_large_worklist) = LargeSize - 1

\* tt is the task at hand, tiny whether it came from the tiny list, tiny_buffer
\* what a divider has still to hand out.
Idle == [at |-> "look", tt |-> <<>>, tiny |-> FALSE, tiny_buffer |-> <<>>,
         lgc |-> 0, llc |-> 0, ltc |-> 0]

StartState ==
  /\ processing_vertex = 0
  /\ global_count = 0 /\ large_count = 0 /\ tiny_count = 0
  /\ global_large_worklist = <<>>
  /\ local_tiny_worklist = [b \in Blocks |-> <<>>]
  /\ warp = [w \in Warps |-> Idle]
  /\ maximal_bicliques = 0 /\ found = {}
  /\ wanted = MaximalBicliques(graph, 1, 1)

Become(w, s) == warp' = [warp EXCEPT ![w] = s]
Go(w, at) == Become(w, [warp[w] EXCEPT !.at = at])

\* The warp has done its task and counts it for itself.
Done(w) ==
  Become(w, IF warp[w].tiny THEN [warp[w] EXCEPT !.at = "look", !.ltc = @ + 1]
            ELSE [warp[w] EXCEPT !.at = "look", !.lgc = @ + 1])

CountAll(B) ==
  /\ maximal_bicliques' = maximal_bicliques + Cardinality(B)
  /\ found' = found \cup B

----------------------------------------------------------------------------
(* IterFinderWithMultipleVertex.                                           *)

IsLarge(tt) ==
  LET L_size == Cardinality(LVertices(tt))
      C_rest == Cardinality(CVertices(LVertices(tt))) - next_id(tt)
  IN  /\ L_size > 1
      /\ C_rest > bound_height \/ L_size > bound_height
      /\ C_rest * L_size > bound_size

\* It is put aside to be divided, unless the list is full or its path can get no
\* longer.
Divides(tt) == IsMaximal(tt) /\ IsLarge(tt) /\ ~Full /\ Len(tt) < MaxPath

\* (mutant) Its own biclique is left to those who do its children.
PutAsideUncounted(w) ==
  /\ warp[w].at = "task" /\ Divides(warp[w].tt)
  /\ Go(w, "push")
  /\ UNCHANGED <<fixed, processing_vertex, counters, lists, result>>

\* The own biclique of a task put aside is counted at once.
PutAside(w) ==
  /\ warp[w].at = "task" /\ Divides(warp[w].tt)
  /\ CountAll({Own(warp[w].tt)})
  /\ Go(w, "push")
  /\ UNCHANGED <<fixed, processing_vertex, counters, lists>>

\* The warp does the task itself.
DoTask(w) ==
  /\ warp[w].at = "task" /\ ~Divides(warp[w].tt)
  /\ CountAll(Subtree(warp[w].tt))
  /\ Done(w)
  /\ UNCHANGED <<fixed, processing_vertex, counters, lists>>

PushLarge(w) ==
  /\ warp[w].at = "push" /\ ~Full
  /\ global_large_worklist' = Append(global_large_worklist, warp[w].tt)
  /\ Go(w, "pushed")
  /\ UNCHANGED <<fixed, processing_vertex, counters, local_tiny_worklist, result>>

\* The list has become full: the warp does the task after all.
DoAside(w) ==
  /\ warp[w].at = "push" /\ Full
  /\ CountAll(Subtree(warp[w].tt) \ {Own(warp[w].tt)})
  /\ Done(w)
  /\ UNCHANGED <<fixed, processing_vertex, counters, lists>>

\* (mutant) A task put aside is counted as a tiny one.
CountLargeTiny(w) ==
  /\ warp[w].at = "pushed"
  /\ tiny_count' = tiny_count + 1
  /\ Done(w)
  /\ UNCHANGED <<fixed, processing_vertex, global_count, large_count, lists, result>>

\* The large task is counted after it was pushed.
CountLarge(w) ==
  /\ warp[w].at = "pushed"
  /\ large_count' = large_count + 1
  /\ Done(w)
  /\ UNCHANGED <<fixed, processing_vertex, global_count, tiny_count, lists, result>>

----------------------------------------------------------------------------
(* A consumer.                                                             *)

TakeTiny(w) ==
  LET list == local_tiny_worklist[w[1]]
  IN  /\ warp[w].at = "look" /\ list # <<>>
      /\ local_tiny_worklist' = [local_tiny_worklist EXCEPT ![w[1]] = Tail(list)]
      /\ Become(w, [warp[w] EXCEPT !.at = "task", !.tt = Head(list), !.tiny = TRUE])
      /\ UNCHANGED <<fixed, processing_vertex, counters, global_large_worklist, result>>

FindNoTiny(w) ==
  /\ warp[w].at = "look" /\ local_tiny_worklist[w[1]] = <<>>
  /\ Go(w, "vertex")
  /\ UNCHANGED <<fixed, processing_vertex, counters, lists, result>>

LookForVertex(w) ==
  /\ warp[w].at = "vertex"
  /\ Go(w, IF processing_vertex < V_size THEN "claim" ELSE "flush")
  /\ UNCHANGED <<fixed, processing_vertex, counters, lists, result>>

\* The vertices are claimed from the last down; another warp may have claimed
\* the first since.
ClaimVertex(w) ==
  LET first_vertex == V_size - 1 - processing_vertex
  IN  /\ warp[w].at = "claim"
      /\ processing_vertex' = processing_vertex + 1
      /\ IF first_vertex >= 0
         THEN Become(w, [warp[w] EXCEPT !.at = "claimed", !.tt = <<first_vertex>>,
                                        !.tiny = FALSE])
         ELSE Go(w, "look")
      /\ UNCHANGED <<fixed, counters, lists, result>>

CountVertex(w) ==
  /\ warp[w].at = "claimed"
  /\ global_count' = global_count + 1
  /\ Go(w, "task")
  /\ UNCHANGED <<fixed, processing_vertex, large_count, tiny_count, lists, result>>

\* With no vertex left a consumer takes off what it has done.
FlushTiny(w) ==
  /\ warp[w].at = "flush" /\ warp[w].ltc > 0
  /\ tiny_count' = tiny_count - warp[w].ltc
  /\ Become(w, [warp[w] EXCEPT !.ltc = 0])
  /\ UNCHANGED <<fixed, processing_vertex, global_count, large_count, lists, result>>

FlushVertices(w) ==
  /\ warp[w].at = "flush" /\ warp[w].ltc = 0 /\ warp[w].lgc > 0
  /\ global_count' = global_count - warp[w].lgc
  /\ Become(w, [warp[w] EXCEPT !.lgc = 0])
  /\ UNCHANGED <<fixed, processing_vertex, large_count, tiny_count, lists, result>>

----------------------------------------------------------------------------
(* A divider.                                                              *)

\* The candidates, in the order of their numbers.
LaterList(tt) == SortedBy(Later(tt), <)

\* A large task is divided into a tiny task for each candidate.
TakeLarge(w) ==
  /\ warp[w].at = "look" /\ global_large_worklist # <<>>
  /\ global_large_worklist' = Tail(global_large_worklist)
  /\ LET lt == Head(global_large_worklist)
     IN  Become(w, [warp[w] EXCEPT
                      !.at = "divided",
                      !.tiny_buffer = [i \in 1 .. Cardinality(Later(lt)) |->
                                         Append(lt, LaterList(lt)[i])]])
  /\ UNCHANGED <<fixed, processing_vertex, counters, local_tiny_worklist, result>>

\* The tiny tasks are counted before they are handed out.
CountTiny(w) ==
  /\ warp[w].at = "divided"
  /\ tiny_count' = tiny_count + Len(warp[w].tiny_buffer)
  /\ Go(w, "hand")
  /\ UNCHANGED <<fixed, processing_vertex, global_count, large_count, lists, result>>

\* As many are pushed as there is room for, until all are.
HandOut(w) ==
  LET list == local_tiny_worklist[w[1]]
      buffer == warp[w].tiny_buffer
      pushing == Min({TinySize - 1 - Len(list), Len(buffer)})
      rest == SubSeq(buffer, pushing + 1, Len(buffer))
  IN  /\ warp[w].at = "hand" /\ pushing > 0
      /\ local_tiny_worklist' =
           [local_tiny_worklist EXCEPT ![w[1]] = @ \o SubSeq(buffer, 1, pushing)]
      /\ Become(w, IF rest # <<>> THEN [warp[w] EXCEPT !.tiny_buffer = rest]
                   ELSE [warp[w] EXCEPT !.at = "look", !.tiny_buffer = <<>>,
                                        !.llc = @ + 1])
      /\ UNCHANGED <<fixed, processing_vertex, counters, global_large_worklist, result>>

FindNoLarge(w) ==
  /\ warp[w].at = "look" /\ global_large_worklist = <<>>
  /\ Go(w, "vertex")
  /\ UNCHANGED <<fixed, processing_vertex, counters, lists, result>>

LookForEnd(w) ==
  /\ warp[w].at = "vertex"
  /\ Go(w, IF processing_vertex < V_size THEN "look" ELSE "flush")
  /\ UNCHANGED <<fixed, processing_vertex, counters, lists, result>>

FlushLarge(w) ==
  /\ warp[w].at = "flush" /\ warp[w].llc > 0
  /\ large_count' = large_count - warp[w].llc
  /\ Become(w, [warp[w] EXCEPT !.llc = 0])
  /\ UNCHANGED <<fixed, processing_vertex, global_count, tiny_count, lists, result>>

----------------------------------------------------------------------------
(* gc == 0 && lc == 0 && tc == 0, one read after the other.                *)

\* The counter is read: the warp goes on to the next one if it is zero, and back
\* to its loop otherwise.
Read(w, at, counter, next) ==
  /\ warp[w].at = at
  /\ Go(w, IF counter = 0 THEN next ELSE "look")
  /\ UNCHANGED <<fixed, processing_vertex, counters, lists, result>>

ReadGlobal(w) ==
  /\ warp[w].lgc = 0 /\ warp[w].llc = 0 /\ warp[w].ltc = 0
  /\ Read(w, "flush", global_count, "readLarge")

\* (mutant) Tiny tasks do not matter.
ReadLargeLast(w) == Read(w, "readLarge", large_count, "left")

ReadLarge(w) == Read(w, "readLarge", large_count, "readTiny")

ReadTiny(w) == Read(w, "readTiny", tiny_count, "left")

Consumer(w) == \/ TakeTiny(w) \/ FindNoTiny(w)
               \/ LookForVertex(w) \/ ClaimVertex(w) \/ CountVertex(w)
               \/ PutAside(w) \/ DoTask(w)
               \/ PushLarge(w) \/ DoAside(w) \/ CountLarge(w)
               \/ FlushTiny(w) \/ FlushVertices(w)
               \/ ReadGlobal(w) \/ ReadLarge(w) \/ ReadTiny(w)

Divider(w) == \/ TakeLarge(w) \/ CountTiny(w) \/ HandOut(w)
              \/ FindNoLarge(w) \/ LookForEnd(w) \/ FlushLarge(w)
              \/ ReadGlobal(w) \/ ReadLarge(w) \/ ReadTiny(w)

\* All warps have passed __syncthreads and the kernel is over.
Ended == \A w \in Warps : warp[w].at = "left"

Next == \/ \E w \in ConsumerWarps : Consumer(w)
        \/ \E w \in Dividers : Divider(w)
        \/ Ended /\ UNCHANGED vars

----------------------------------------------------------------------------
\* Each task that is not done, with where it is: a vertex nobody has claimed, a
\* task in a warp's hands, in the list of large tasks, in a divider's buffer or in
\* a list of tiny tasks.  Of one that was put aside the own biclique is counted.
UnclaimedVertices ==
  {<<"vertex", 0, <<v>> >> : v \in {u \in DOMAIN graph : u < V_size - processing_vertex}}
HeldTasks ==
  {<<"held", w, warp[w].tt>> :
     w \in {x \in Warps : warp[x].at \in {"claimed", "task", "push"}}}
LargeTasks ==
  {<<"large", i, global_large_worklist[i]>> : i \in DOMAIN global_large_worklist}
BufferedTasks ==
  UNION {{<<"buffer", <<w, i>>, warp[w].tiny_buffer[i]>> :
            i \in DOMAIN warp[w].tiny_buffer} : w \in Dividers}
TinyTasks ==
  UNION {{<<"tiny", <<b, i>>, local_tiny_worklist[b][i]>> :
            i \in DOMAIN local_tiny_worklist[b]} : b \in Blocks}

Outstanding ==
  UnclaimedVertices \cup HeldTasks \cup LargeTasks \cup BufferedTasks \cup TinyTasks

\* No biclique is lost on the way between the lists and none has two warps that
\* will count it: one that is not counted is in the subtree of one outstanding
\* task, and none was counted twice.
NothingLost ==
  /\ \A b \in wanted \ found :
       Cardinality({o \in Outstanding : InSubtree(b, o[3])}) = 1
  /\ maximal_bicliques = Cardinality(found)

\* Warps may leave early, but never with the result wrong: if all have left, the
\* number is that of the maximal bicliques, although each read three counters
\* at three different times.
EndedExact ==
  Ended => found = wanted /\ maximal_bicliques = Cardinality(wanted)

\* The sum of the values of f, natural numbers.
SumOf(f) == Cardinality(UNION {{x} \X (1 .. f[x]) : x \in DOMAIN f})

\* What a warp in the state s has of the tasks in each counter, in its hands or
\* done and not taken off yet.
InHand(s) == s.at \in {"task", "push", "pushed"}
RootsOf(s) == s.lgc + (IF InHand(s) /\ ~s.tiny THEN 1 ELSE 0)
LargeOf(s) == s.llc + (IF s.at \in {"divided", "hand"} THEN 1 ELSE 0)
UncountedOf(s) == IF s.at = "pushed" THEN 1 ELSE 0
TinyOf(s) ==
  s.ltc + (IF InHand(s) /\ s.tiny THEN 1
           ELSE IF s.at = "hand" THEN Len(s.tiny_buffer) ELSE 0)

\* Each counter is the number of tasks of its kind that are waiting, in a warp's
\* hands, or done and not taken off yet; a large task between its push and its
\* count makes large_count one too small, for a moment -1.
CountersExact ==
  LET Total(Of(_)) == SumOf([w \in Warps |-> Of(warp[w])])
  IN  /\ global_count = Total(RootsOf)
      /\ large_count = Len(global_large_worklist) + Total(LargeOf) - Total(UncountedOf)
      /\ tiny_count = SumOf([b \in Blocks |-> Len(local_tiny_worklist[b])])
                        + Total(TinyOf)

\* A warp has left although there is a task to do.
LeftEarly == Outstanding # {} /\ \E w \in Warps : warp[w].at = "left"

\* The kernel ends if no warp leaves too early: full lists do not keep it from
\* ending, nor do counters that are taken off late.
EndsUnlessLeft == []~LeftEarly => <>Ended

\* The kernel ends: the code breaks out of the loop that pushes a large task "so
\* that a full queue does not make it impossible to end".
Terminates == <>Ended
=============================================================================
