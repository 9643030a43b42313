------------------------------- MODULE LogQueue -------------------------------
(***************************************************************************)
(* What DynamicMPMCQueue (internal/async_logger_queue.hpp) promises its    *)
(* users: a bounded queue of numbered cells.                               *)
(*                                                                         *)
(* A push takes the next number, and its message can be popped once it is  *)
(* published; a pop takes the oldest cell if that one is published, and    *)
(* keeps its slot until it has moved the message out.  So a full queue is  *)
(* one whose next number still has its slot in use one lap earlier, and a  *)
(* queue that is not empty may refuse a pop.                               *)
(***************************************************************************)
EXTENDS Integers

CONSTANTS Items, Capacity

VARIABLES head,   \* number of the oldest cell, m_dequeue_pos
          tail,   \* number of the next cell, m_enqueue_pos
          cell,   \* the cells in the queue, by number
          held    \* cells popped whose slot is still in use

queueVars == <<head, tail, cell, held>>

QueueInit == head = 0 /\ tail = 0 /\ cell = [p \in {} |-> 0] /\ held = {}

\* The slot of the next number is still in use.
Full == \/ tail = head + Capacity
        \/ \E h \in held : h.pos = tail - Capacity

\* The oldest cell is there and published.
Ready == head < tail /\ cell[head].ready

\* try_push wins a number.
Claim(m) ==
  /\ ~ Full
  /\ tail' = tail + 1
  /\ cell' = [p \in head .. tail |-> IF p = tail THEN [item |-> m, ready |-> FALSE] ELSE cell[p]]
  /\ UNCHANGED <<head, held>>

\* try_push publishes its message.
Publish(n) ==
  /\ n \in head .. (tail - 1)
  /\ cell' = [p \in head .. (tail - 1) |->
                IF p = n THEN [item |-> cell[p].item, ready |-> TRUE] ELSE cell[p]]
  /\ UNCHANGED <<head, tail, held>>

\* try_pop wins the oldest cell.
Take ==
  /\ Ready
  /\ head' = head + 1
  /\ cell' = [p \in (head + 1) .. (tail - 1) |-> cell[p]]
  /\ held' = held \cup {[pos |-> head, item |-> cell[head].item]}
  /\ UNCHANGED tail

\* try_pop has moved the message out and releases the slot.
Free(h) ==
  /\ h \in held
  /\ held' = held \ {h}
  /\ UNCHANGED <<head, tail, cell>>

QueueNext == \/ \E m \in Items : Claim(m)
             \/ \E n \in head .. (tail - 1) : Publish(n)
             \/ Take
             \/ \E h \in held : Free(h)

QueueSpec == QueueInit /\ [][QueueNext]_queueVars
=============================================================================
