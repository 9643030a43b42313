------------------------------- MODULE MPMCQueue -------------------------------
(***************************************************************************)
(* DynamicMPMCQueue, the lock-free ring behind the asynchronous logger     *)
(* (internal/async_logger.cpp), one atomic access per step.                *)
(*                                                                         *)
(* Positions are naturals: they are 64 bits wide in the code and do not    *)
(* wrap in the life of a process.  Atomic accesses are sequentially        *)
(* consistent here.                                                        *)
(***************************************************************************)
EXTENDS Integers

CONSTANTS Threads,   \* threads that push and pop
          Messages,
          Capacity,  \* m_capacity
          MaxPushes  \* no push starts once this many have won a position

\* What validated_capacity accepts.
ASSUME CapacityAssumption ==
  /\ Capacity \in Nat
  /\ Capacity >= 2
  /\ \E k \in 1 .. Capacity : 2 ^ k = Capacity

ASSUME BoundAssumption == MaxPushes \in Nat

VARIABLES m_enqueue_pos,
          m_dequeue_pos,
          sequence,      \* slot -> Slot::sequence
          data,          \* slot -> Slot::data
          pc,
          pos,           \* thread -> its local pos
          item           \* thread -> the message it pushes, or popped last

vars == <<m_enqueue_pos, m_dequeue_pos, sequence, data, pc, pos, item>>

Slots == 0 .. (Capacity - 1)
None == "none"
ASSUME NoneAssumption == None \notin Messages

\* pos & m_mask, for a power of two.
Slot(p) == p % Capacity

\* A pusher owns its slot after its compare-exchange, and so does a popper.
Pushers == {th \in Threads : pc[th] \in {"store", "publish"}}
Poppers == {th \in Threads : pc[th] \in {"move", "free"}}

PCs == {"idle", "push", "push_look", "push_cas", "store", "publish",
        "pop", "pop_look", "pop_cas", "move", "free"}

TypeOK ==
  /\ m_enqueue_pos \in Nat
  /\ m_dequeue_pos \in Nat
  /\ sequence \in [Slots -> Nat]
  /\ data \in [Slots -> Messages \cup {None}]
  /\ pc \in [Threads -> PCs]
  /\ pos \in [Threads -> Nat]
  /\ item \in [Threads -> Messages \cup {None}]

Init ==
  /\ m_enqueue_pos = 0
  /\ m_dequeue_pos = 0
  /\ sequence = [s \in Slots |-> s]
  /\ data = [s \in Slots |-> None]
  /\ pc = [th \in Threads |-> "idle"]
  /\ pos = [th \in Threads |-> 0]
  /\ item = [th \in Threads |-> None]

Goto(th, from, to) == /\ pc[th] = from
                      /\ pc' = [pc EXCEPT ![th] = to]

-----------------------------------------------------------------------------
(* try_push *)

StartPush(th, m) ==
  /\ m_enqueue_pos < MaxPushes
  /\ Goto(th, "idle", "push")
  /\ item' = [item EXCEPT ![th] = m]
  /\ UNCHANGED <<m_enqueue_pos, m_dequeue_pos, sequence, data, pos>>

LoadEnqueuePos(th) ==
  /\ Goto(th, "push", "push_look")
  /\ pos' = [pos EXCEPT ![th] = m_enqueue_pos]
  /\ UNCHANGED <<m_enqueue_pos, m_dequeue_pos, sequence, data, item>>

\* diff < 0: the slot is still in use one lap earlier, return false.
PushFull(th) ==
  /\ Goto(th, "push_look", "idle")
  /\ sequence[Slot(pos[th])] < pos[th]
  /\ UNCHANGED <<m_enqueue_pos, m_dequeue_pos, sequence, data, pos, item>>

PushFree(th) ==
  /\ Goto(th, "push_look", "push_cas")
  /\ sequence[Slot(pos[th])] = pos[th]
  /\ UNCHANGED <<m_enqueue_pos, m_dequeue_pos, sequence, data, pos, item>>

\* diff > 0: somebody else took the position, load again.
PushStale(th) ==
  /\ Goto(th, "push_look", "push")
  /\ sequence[Slot(pos[th])] > pos[th]
  /\ UNCHANGED <<m_enqueue_pos, m_dequeue_pos, sequence, data, pos, item>>

PushWinsUnconditionally(th) ==
  /\ Goto(th, "push_cas", "store")
  /\ m_enqueue_pos' = pos[th] + 1
  /\ UNCHANGED <<m_dequeue_pos, sequence, data, pos, item>>

PushWins(th) ==
  /\ Goto(th, "push_cas", "store")
  /\ m_enqueue_pos = pos[th]
  /\ m_enqueue_pos' = pos[th] + 1
  /\ UNCHANGED <<m_dequeue_pos, sequence, data, pos, item>>

\* compare_exchange_weak failed, perhaps spuriously; it loads the current position.
PushLoses(th) ==
  /\ Goto(th, "push_cas", "push_look")
  /\ pos' = [pos EXCEPT ![th] = m_enqueue_pos]
  /\ UNCHANGED <<m_enqueue_pos, m_dequeue_pos, sequence, data, item>>

StoreData(th) ==
  /\ Goto(th, "store", "publish")
  /\ data' = [data EXCEPT ![Slot(pos[th])] = item[th]]
  /\ UNCHANGED <<m_enqueue_pos, m_dequeue_pos, sequence, pos, item>>

PublishData(th) ==
  /\ Goto(th, "publish", "idle")
  /\ sequence' = [sequence EXCEPT ![Slot(pos[th])] = pos[th] + 1]
  /\ UNCHANGED <<m_enqueue_pos, m_dequeue_pos, data, pos, item>>

-----------------------------------------------------------------------------
(* try_pop *)

StartPop(th) ==
  /\ Goto(th, "idle", "pop")
  /\ UNCHANGED <<m_enqueue_pos, m_dequeue_pos, sequence, data, pos, item>>

LoadDequeuePos(th) ==
  /\ Goto(th, "pop", "pop_look")
  /\ pos' = [pos EXCEPT ![th] = m_dequeue_pos]
  /\ UNCHANGED <<m_enqueue_pos, m_dequeue_pos, sequence, data, item>>

PopEmpty(th) ==
  /\ Goto(th, "pop_look", "idle")
  /\ sequence[Slot(pos[th])] < pos[th] + 1
  /\ UNCHANGED <<m_enqueue_pos, m_dequeue_pos, sequence, data, pos, item>>

PopReadyOffByOne(th) ==
  /\ Goto(th, "pop_look", "pop_cas")
  /\ sequence[Slot(pos[th])] >= pos[th]
  /\ UNCHANGED <<m_enqueue_pos, m_dequeue_pos, sequence, data, pos, item>>

PopReady(th) ==
  /\ Goto(th, "pop_look", "pop_cas")
  /\ sequence[Slot(pos[th])] = pos[th] + 1
  /\ UNCHANGED <<m_enqueue_pos, m_dequeue_pos, sequence, data, pos, item>>

PopStale(th) ==
  /\ Goto(th, "pop_look", "pop")
  /\ sequence[Slot(pos[th])] > pos[th] + 1
  /\ UNCHANGED <<m_enqueue_pos, m_dequeue_pos, sequence, data, pos, item>>

PopWins(th) ==
  /\ Goto(th, "pop_cas", "move")
  /\ m_dequeue_pos = pos[th]
  /\ m_dequeue_pos' = pos[th] + 1
  /\ UNCHANGED <<m_enqueue_pos, sequence, data, pos, item>>

PopLoses(th) ==
  /\ Goto(th, "pop_cas", "pop_look")
  /\ pos' = [pos EXCEPT ![th] = m_dequeue_pos]
  /\ UNCHANGED <<m_enqueue_pos, m_dequeue_pos, sequence, data, item>>

MoveData(th) ==
  /\ Goto(th, "move", "free")
  /\ item' = [item EXCEPT ![th] = data[Slot(pos[th])]]
  /\ data' = [data EXCEPT ![Slot(pos[th])] = None]
  /\ UNCHANGED <<m_enqueue_pos, m_dequeue_pos, sequence, pos>>

FreeSlot(th) ==
  /\ Goto(th, "free", "idle")
  /\ sequence' = [sequence EXCEPT ![Slot(pos[th])] = pos[th] + Capacity]
  /\ UNCHANGED <<m_enqueue_pos, m_dequeue_pos, data, pos, item>>

-----------------------------------------------------------------------------
Push(th) == \/ LoadEnqueuePos(th) \/ PushFull(th) \/ PushFree(th) \/ PushStale(th)
            \/ PushWins(th) \/ PushLoses(th) \/ StoreData(th) \/ PublishData(th)

Pop(th) == \/ LoadDequeuePos(th) \/ PopEmpty(th) \/ PopReady(th) \/ PopStale(th)
           \/ PopWins(th) \/ PopLoses(th) \/ MoveData(th) \/ FreeSlot(th)

Next == \E th \in Threads : \/ \E m \in Messages : StartPush(th, m)
                            \/ StartPop(th)
                            \/ Push(th) \/ Pop(th)

Spec == Init /\ [][Next]_vars

-----------------------------------------------------------------------------
(* Properties. *)

\* The plain, non-atomic Slot::data is never accessed by two threads at once, whatever
\* mix of pushes and pops is past its compare-exchange.
SlotExclusion ==
  \A th, u \in Pushers \cup Poppers : Slot(pos[th]) = Slot(pos[u]) => th = u

\* size() is exact about positions: never more than a lap ahead, never behind.
WithinOneLap ==
  m_dequeue_pos <= m_enqueue_pos /\ m_enqueue_pos <= m_dequeue_pos + Capacity

\* try_push refuses only if the slot it needs was still in use one lap earlier, and
\* try_pop only if the position it looked at has not been published: with no other call
\* in progress, exactly when the queue is full, respectively empty.
RefusalsAreJustified ==
  [][/\ \A th \in Threads : PushFull(th) =>
          \/ m_dequeue_pos <= pos[th] - Capacity
          \/ \E u \in Poppers : pos[u] = pos[th] - Capacity
     /\ \A th \in Threads : PopEmpty(th) =>
          \/ m_enqueue_pos <= pos[th]
          \/ \E u \in Pushers : pos[u] = pos[th]]_vars

\* The state of the numbered queue: a message is with its pusher until stored, in its
\* slot afterwards; a popped one is in its slot until moved, with its popper afterwards.
PushedItem(p) ==
  IF \E th \in Threads : pc[th] = "store" /\ pos[th] = p
  THEN item[CHOOSE th \in Threads : pc[th] = "store" /\ pos[th] = p]
  ELSE data[Slot(p)]

PoppedItem(th) == IF pc[th] = "move" THEN data[Slot(pos[th])] ELSE item[th]

QueueCells == [p \in m_dequeue_pos .. (m_enqueue_pos - 1) |->
                 [item |-> PushedItem(p), ready |-> sequence[Slot(p)] = p + 1]]

QueueHeld == {[pos |-> pos[th], item |-> PoppedItem(th)] : th \in Poppers}

Queue == INSTANCE LogQueue WITH
  Items <- Messages,
  head <- m_dequeue_pos,
  tail <- m_enqueue_pos,
  cell <- QueueCells,
  held <- QueueHeld

\* The ring implements the numbered queue: what a pop returns is the message of the
\* oldest position, each message is popped once, and none is lost or torn.
ImplementsLogQueue == Queue!QueueSpec

\* async_logger.cpp, try_push and try_pop: the ring is a first-in first-out queue whose refusals
\* have a reason.
QueueContract == ImplementsLogQueue /\ RefusalsAreJustified
=============================================================================
