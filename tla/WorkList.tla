------------------------------ MODULE WorkList ------------------------------
(***************************************************************************)
(* The work list of the GPU baseline (WorkList.cuh): a ring of slots that  *)
(* warps push tasks to and get tasks from, without a lock, as DATA_COPY is *)
(* not defined.                                                            *)
(*                                                                         *)
(* A warp claims positions by moving front or rear with a compare-and-swap *)
(* (require_read, require_write).  A slot says itself whether it has a     *)
(* task (isvalid): a reader waits until it has, a writer until it has not. *)
(* Lane 0 claims for its warp; the lanes of a push write a slot each.      *)
(*                                                                         *)
(* The code keeps front and rear modulo size.  Here they count on, and all *)
(* the code compares, computes and indexes with is Idx of them.  A task is *)
(* named by the position it was pushed to.                                 *)
(***************************************************************************)
EXTENDS Integers

CONSTANTS
  Warps,
  size,      \* the number of slots; size - 1 of them can be filled
  MaxPush,   \* the largest number of tasks pushed in one call
  MaxTasks,  \* a bound on the number of tasks
  NoTask     \* what a slot holds that is not valid

ASSUME ListAssumption ==
  /\ size \in Nat \ {0, 1}
  /\ MaxPush \in Nat \ {0}
  /\ MaxTasks \in Nat
  /\ NoTask \notin Nat

VARIABLES
  front, rear,  \* the next position to get from, and to push to
  list_ptr,     \* the slots
  warp,         \* where each warp is in push_works or get
  taken,        \* the tasks returned by get; history
  overtaken     \* whether the ring has turned past a call; history

vars == <<front, rear, list_ptr, warp, taken, overtaken>>

Idx(n) == n % size

Slots == 0 .. size - 1

\* A warp has read front or rear as old, is to claim num positions of the want
\* it was called for, and has todo to write, those of clear without waiting.
Idle == [at |-> "idle", old |-> 0, want |-> 0, num |-> 0, todo |-> {},
         clear |-> {}]

Init ==
  /\ front = 0 /\ rear = 0
  /\ list_ptr = [s \in Slots |-> NoTask]
  /\ warp = [w \in Warps |-> Idle]
  /\ taken = {} /\ overtaken = FALSE

Become(w, s) == warp' = [warp EXCEPT ![w] = s]

Least(a, b) == IF a < b THEN a ELSE b

\* The compare-and-swap with old succeeds.  It sees slots, not positions: after
\* a turn of the ring it succeeds as well.
Swaps(old, now) == Idx(old) = Idx(now)

\* A get still reads the slot of position p, a push is still to write it.
StillRead(p) ==
  \E u \in Warps : warp[u].at \in {"read", "copied"} /\ warp[u].old = p

StillWritten(p) == \E u \in Warps : p \in warp[u].todo

----------------------------------------------------------------------------
(* get.                                                                    *)

\* require_read(1) reads front.
ReadFront(w) ==
  /\ warp[w].at \in {"idle", "get"}
  /\ Become(w, [Idle EXCEPT !.at = "gotFront", !.old = front])
  /\ UNCHANGED <<front, rear, list_ptr, taken, overtaken>>

\* (mutant) Without "+ size".
ReadRearUnturned(w) ==
  /\ warp[w].at = "gotFront"
  /\ LET work_num == Idx(rear) - Idx(warp[w].old)
         get_num  == Least(work_num, 1)
     IN  Become(w, IF get_num = 0 THEN Idle
                   ELSE [warp[w] EXCEPT !.at = "claim", !.num = get_num])
  /\ UNCHANGED <<front, rear, list_ptr, taken, overtaken>>

\* After a fence it reads rear.  If there is no work get returns 0.
ReadRear(w) ==
  /\ warp[w].at = "gotFront"
  /\ LET work_num == Idx(Idx(rear) + size - Idx(warp[w].old))
         get_num  == Least(work_num, 1)
     IN  Become(w, IF get_num = 0 THEN Idle
                   ELSE [warp[w] EXCEPT !.at = "claim", !.num = get_num])
  /\ UNCHANGED <<front, rear, list_ptr, taken, overtaken>>

\* The ring has turned past this call if front is not where it was read, past
\* another's if that one still reads the slot for the turn before.
ClaimWork(w) ==
  /\ warp[w].at = "claim" /\ Swaps(warp[w].old, front)
  /\ front' = front + warp[w].num
  /\ Become(w, [warp[w] EXCEPT !.at = "read", !.old = front])
  /\ overtaken' = (overtaken \/ warp[w].old # front \/ StillRead(front - size))
  /\ UNCHANGED <<rear, list_ptr, taken>>

\* The compare-and-swap on front fails and all is read again.
MissWork(w) ==
  /\ warp[w].at = "claim" /\ ~Swaps(warp[w].old, front)
  /\ Become(w, [Idle EXCEPT !.at = "get"])
  /\ UNCHANGED <<front, rear, list_ptr, taken, overtaken>>

\* The slot is valid, and its task is copied.
CopyTask(w) ==
  /\ warp[w].at = "read"
  /\ LET x == list_ptr[Idx(warp[w].old)]
     IN  x # NoTask /\ taken' = taken \cup {x}
  /\ Become(w, [warp[w] EXCEPT !.at = "copied"])
  /\ UNCHANGED <<front, rear, list_ptr, overtaken>>

\* (mutant) The slot is left as it is.
InvalidateNothing(w) ==
  /\ warp[w].at = "copied"
  /\ Become(w, Idle)
  /\ UNCHANGED <<front, rear, list_ptr, taken, overtaken>>

Invalidate(w) ==
  /\ warp[w].at = "copied"
  /\ list_ptr' = [list_ptr EXCEPT ![Idx(warp[w].old)] = NoTask]
  /\ Become(w, Idle)
  /\ UNCHANGED <<front, rear, taken, overtaken>>

----------------------------------------------------------------------------
(* push_works.                                                             *)

\* require_write(n) reads rear.
PushReadRear(w, n) ==
  /\ \/ warp[w].at = "idle"
     \/ warp[w].at = "push" /\ n = warp[w].want
  /\ Become(w, [Idle EXCEPT !.at = "pushRear", !.old = rear, !.want = n])
  /\ UNCHANGED <<front, rear, list_ptr, taken, overtaken>>

\* (mutant) All slots can be filled.
PushReadFrontFull(w) ==
  /\ warp[w].at = "pushRear"
  /\ LET free_size == size - Idx(Idx(warp[w].old) - Idx(front) + size)
         push_num  == Least(free_size, warp[w].want)
     IN  Become(w, IF push_num = 0 THEN Idle
                   ELSE [warp[w] EXCEPT !.at = "pushClaim", !.num = push_num])
  /\ UNCHANGED <<front, rear, list_ptr, taken, overtaken>>

\* After a fence it reads front.  What is not free is not pushed; with nothing
\* free push_works returns 0.
PushReadFront(w) ==
  /\ warp[w].at = "pushRear"
  /\ LET free_size == size - 1 - Idx(Idx(warp[w].old) - Idx(front) + size)
         push_num  == Least(free_size, warp[w].want)
     IN  Become(w, IF push_num = 0 THEN Idle
                   ELSE [warp[w] EXCEPT !.at = "pushClaim", !.num = push_num])
  /\ UNCHANGED <<front, rear, list_ptr, taken, overtaken>>

\* The positions that a push moving rear by n claims.
Claim(n) == rear .. rear + n - 1

\* The ring has turned past this call if rear is not where it was read, past
\* another's if that one is still to write one of the slots for the turn before.
ClaimRoom(w) ==
  LET claimed == Claim(warp[w].num)
  IN  /\ warp[w].at = "pushClaim" /\ Swaps(warp[w].old, rear)
      /\ rear + warp[w].num <= MaxTasks
      /\ rear' = rear + warp[w].num
      /\ Become(w, [warp[w] EXCEPT !.at = "write", !.todo = claimed])
      /\ overtaken' = (overtaken \/ warp[w].old # rear
                         \/ \E p \in claimed : StillWritten(p - size))
      /\ UNCHANGED <<front, list_ptr, taken>>

\* The compare-and-swap on rear fails and all is read again.
MissRoom(w) ==
  /\ warp[w].at = "pushClaim" /\ ~Swaps(warp[w].old, rear)
  /\ Become(w, [warp[w] EXCEPT !.at = "push"])
  /\ UNCHANGED <<front, rear, list_ptr, taken, overtaken>>

\* (mutant) A lane does not wait.
SeeAny(w, p) ==
  /\ warp[w].at = "write" /\ p \in warp[w].todo \ warp[w].clear
  /\ Become(w, [warp[w] EXCEPT !.clear = @ \cup {p}])
  /\ UNCHANGED <<front, rear, list_ptr, taken, overtaken>>

\* A lane sees that its slot is not valid.
SeeClear(w, p) ==
  /\ warp[w].at = "write" /\ p \in warp[w].todo \ warp[w].clear
  /\ list_ptr[Idx(p)] = NoTask
  /\ Become(w, [warp[w] EXCEPT !.clear = @ \cup {p}])
  /\ UNCHANGED <<front, rear, list_ptr, taken, overtaken>>

\* It writes its task, which makes the slot valid.
WriteTask(w, p) ==
  /\ warp[w].at = "write" /\ p \in warp[w].clear
  /\ list_ptr' = [list_ptr EXCEPT ![Idx(p)] = p]
  /\ Become(w, IF warp[w].todo = {p} THEN Idle
               ELSE [warp[w] EXCEPT !.todo = @ \ {p}, !.clear = @ \ {p}])
  /\ UNCHANGED <<front, rear, taken, overtaken>>

----------------------------------------------------------------------------
Get(w) == \/ ReadFront(w) \/ ReadRear(w) \/ ClaimWork(w) \/ MissWork(w)
          \/ CopyTask(w) \/ Invalidate(w)

Push(w) == \/ \E n \in 1 .. MaxPush : PushReadRear(w, n)
           \/ PushReadFront(w) \/ ClaimRoom(w) \/ MissRoom(w)
           \/ \E p \in warp[w].todo : SeeClear(w, p) \/ WriteTask(w, p)

Next == \E w \in Warps : Get(w) \/ Push(w)

\* The steps of a warp that has claimed positions.
Claimed(w) == \/ CopyTask(w) \/ Invalidate(w)
              \/ \E p \in warp[w].todo : SeeClear(w, p) \/ WriteTask(w, p)

Spec == Init /\ [][Next]_vars

\* A warp inside push_works or get keeps running.
FairSpec == Spec /\ \A w \in Warps : WF_vars(Claimed(w))

----------------------------------------------------------------------------
Positions == [at : {"idle", "get", "gotFront", "claim", "read", "copied",
                    "push", "pushRear", "pushClaim", "write"},
              old : Nat, want : 0 .. MaxPush, num : 0 .. MaxPush,
              todo : SUBSET Nat, clear : SUBSET Nat]

\* The types of the state.  A position found by a wrong Idx is no position of
\* the list.
TypeOK ==
  /\ front \in Nat /\ rear \in Nat
  /\ list_ptr \in [Slots -> Nat \cup {NoTask}]
  /\ warp \in [Warps -> Positions]
  /\ taken \in SUBSET Nat /\ overtaken \in BOOLEAN

(* Nothing in the code keeps the ring from turning past a call: one that is    *)
(* held up while the others push and get as many tasks as there are slots, 384 *)
(* for the list of a block.  The properties below say that this is the only    *)
(* way in which the list goes wrong: whatever the order of the steps, they     *)
(* hold as long as the ring has not turned past a call.                        *)

\* No get has claimed a position that no push has.  The fence is there "to
\* prevent a wrong computation of worknum from the old rear and the new front".
WorkBacked == front <= rear

\* Neither has a push claimed a position whose slot an unread one still needs.
Backed == WorkBacked /\ rear - front < size

\* Unless the ring turns past a call, no call claims too much: work_num and
\* free_size, computed from two reads at different times, are right for a
\* compare-and-swap that succeeds.
ClaimsBacked == overtaken \/ Backed

\* The tasks accepted and not returned: still to be written, or in a slot that
\* no get has copied.
Copied == {list_ptr[Idx(warp[w].old)] : w \in {u \in Warps : warp[u].at = "copied"}}

Inside == (UNION {warp[w].todo : w \in Warps})
            \cup ({list_ptr[s] : s \in Slots} \ (Copied \cup {NoTask}))

Tasks == INSTANCE Pool WITH inside <- Inside

\* Unless the ring turns past a call, a task pushed is returned by one get: none
\* is overwritten in its slot, none is read twice or before it is written.
KeepsTasks == Tasks!PoolInit /\ [][overtaken' \/ Tasks!PoolNext]_(Tasks!poolVars)

\* What a get has copied was pushed to the position it claimed.
GetsOwn ==
  \A w \in Warps :
    warp[w].at = "copied" => list_ptr[Idx(warp[w].old)] = warp[w].old

\* Unless the ring turns past a call, the list is first in, first out: a get of
\* the next turn may wait for a slot that one of this turn still reads, and so
\* may a push.
InOrder == overtaken \/ GetsOwn

\* Unless the ring turns past a call, a get that has claimed a task gets it, and
\* a push that has claimed slots fills them: nobody waits for a slot forever.
ClaimsServed ==
  \A w \in Warps :
    warp[w].at \in {"read", "write"} ~> warp[w].at = "idle" \/ overtaken
=============================================================================
