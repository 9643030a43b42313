---------------------------- MODULE MPMCQueueProofs ----------------------------
(***************************************************************************)
(* Proofs about MPMCQueue, for any capacity the constructor accepts, any   *)
(* threads and any number of pushes.                                       *)
(*                                                                         *)
(* The invariant follows the window of positions from m_dequeue_pos on     *)
(* that is one lap long: it meets every slot once, and the sequence number *)
(* of a slot tells the state of the position of the window it stands for.  *)
(***************************************************************************)
EXTENDS MPMCQueue, TLAPS

Owners == Pushers \cup Poppers

\* A claimed position is published, or its pusher is still at work.
Claimed ==
  \A p \in m_dequeue_pos .. (m_enqueue_pos - 1) :
    \/ sequence[Slot(p)] = p + 1
    \/ sequence[Slot(p)] = p /\ \E th \in Pushers : pos[th] = p

\* A position not yet claimed has a free slot, or the popper of one lap earlier has it.
Open ==
  \A p \in m_enqueue_pos .. (m_dequeue_pos + Capacity - 1) :
    \/ sequence[Slot(p)] = p
    \/ sequence[Slot(p)] = p - Capacity + 1 /\ \E th \in Poppers : pos[th] = p - Capacity

OwnersOK ==
  /\ \A th \in Pushers : /\ m_dequeue_pos <= pos[th] /\ pos[th] < m_enqueue_pos
                         /\ sequence[Slot(pos[th])] = pos[th]
  /\ \A th \in Poppers : /\ pos[th] < m_dequeue_pos /\ m_enqueue_pos <= pos[th] + Capacity
                         /\ sequence[Slot(pos[th])] = pos[th] + 1
  /\ \A th, u \in Owners : pos[th] = pos[u] => th = u

\* What a thread that looked at a slot knows while nobody wins the position it looked at,
\* and that the slot of a position that was won never falls behind that position.
Looking ==
  \A th \in Threads :
    /\ pc[th] \in {"push_look", "push_cas"} => pos[th] <= m_enqueue_pos
    /\ pc[th] = "push_cas" /\ pos[th] = m_enqueue_pos => sequence[Slot(pos[th])] = pos[th]
    /\ pc[th] \in {"pop_look", "pop_cas"} => pos[th] <= m_dequeue_pos
    /\ pc[th] = "pop_cas" /\ pos[th] = m_dequeue_pos => sequence[Slot(pos[th])] = pos[th] + 1
    /\ pc[th] = "push_look" /\ pos[th] < m_enqueue_pos => sequence[Slot(pos[th])] >= pos[th]
    /\ pc[th] = "push_cas" /\ pos[th] < m_enqueue_pos => sequence[Slot(pos[th])] >= pos[th]
    /\ pc[th] = "pop_look" /\ pos[th] < m_dequeue_pos => sequence[Slot(pos[th])] >= pos[th] + 1
    /\ pc[th] = "pop_cas" /\ pos[th] < m_dequeue_pos => sequence[Slot(pos[th])] >= pos[th] + 1
    /\ pc[th] \in {"push", "push_look", "push_cas", "store", "publish"} => item[th] \in Messages

QInv == TypeOK /\ WithinOneLap /\ Claimed /\ Open /\ OwnersOK /\ Looking

-----------------------------------------------------------------------------
(* The slots of a lap. *)

LEMMA SmallMultiple ==
  \A k \in Int : Capacity * k < Capacity /\ -Capacity < Capacity * k => k = 0
<1>1. \A k \in Int : k >= 1 => Capacity * k >= Capacity
  BY CapacityAssumption
<1>2. \A k \in Int : k <= -1 => Capacity * k <= -Capacity
  BY CapacityAssumption
<1> QED
  BY <1>1, <1>2, CapacityAssumption

\* pos & m_mask is the remainder of a position on division by the capacity.
LEMMA SlotIsRemainder ==
  \A p \in Nat : \E a \in Int : p = Capacity * a + Slot(p) /\ Slot(p) \in Slots
<1>1. \A p \in Nat : /\ p = Capacity * (p \div Capacity) + Slot(p)
                     /\ p \div Capacity \in Int
                     /\ Slot(p) \in Slots
  BY CapacityAssumption DEF Slot, Slots
<1> QED
  BY Zenon, <1>1

\* Positions less than a lap apart share a slot only if they are equal.
LEMMA SlotInjective ==
  \A p, q \in Nat : Slot(p) = Slot(q) /\ p - q < Capacity /\ q - p < Capacity => p = q
<1> SUFFICES ASSUME NEW p \in Nat, NEW q \in Nat, Slot(p) = Slot(q),
                    p - q < Capacity, q - p < Capacity
             PROVE  p = q
  OBVIOUS
<1>1. PICK a \in Int : p = Capacity * a + Slot(p) /\ Slot(p) \in Slots
  BY Zenon, SlotIsRemainder
<1>2. PICK b \in Int : q = Capacity * b + Slot(q)
  BY Zenon, SlotIsRemainder
<1>3. /\ Slot(p) \in Int /\ Capacity * a \in Int /\ Capacity * b \in Int
      /\ Capacity * (a - b) \in Int
  BY <1>1, CapacityAssumption DEF Slots
<1>4. p - q = Capacity * a - Capacity * b
  BY <1>1, <1>2, <1>3
<1>5. Capacity * (a - b) = Capacity * a - Capacity * b
  BY CapacityAssumption
<1>6. a - b = 0
  BY <1>3, <1>4, <1>5, SmallMultiple, CapacityAssumption
<1>7. a = b
  BY <1>6
<1> QED
  BY Zenon, <1>1, <1>2, <1>7

\* A position and the one a lap later share their slot.
LEMMA SlotPeriodic == \A p \in Nat : Slot(p + Capacity) = Slot(p)
<1> SUFFICES ASSUME NEW p \in Nat
             PROVE  Slot(p + Capacity) = Slot(p)
  OBVIOUS
<1> DEFINE q == p + Capacity
<1>1. q \in Nat
  BY CapacityAssumption
<1>2. PICK a \in Int : p = Capacity * a + Slot(p) /\ Slot(p) \in Slots
  BY Zenon, SlotIsRemainder
<1>3. PICK b \in Int : q = Capacity * b + Slot(q) /\ Slot(q) \in Slots
  BY Zenon, <1>1, SlotIsRemainder
<1>4. /\ Slot(p) \in Int /\ Slot(q) \in Int /\ Capacity * a \in Int /\ Capacity * b \in Int
      /\ Capacity * ((a - b) + 1) \in Int
  BY <1>2, <1>3, CapacityAssumption DEF Slots
<1>5. Capacity * ((a - b) + 1) = Capacity * a - Capacity * b + Capacity
  BY CapacityAssumption
<1>6. Capacity * ((a - b) + 1) = Slot(q) - Slot(p)
  BY <1>2, <1>3, <1>4, <1>5, CapacityAssumption
<1>7. (a - b) + 1 = 0
  BY <1>2, <1>3, <1>4, <1>6, SmallMultiple, CapacityAssumption DEF Slots
<1>8. Slot(q) - Slot(p) = 0
  BY <1>6, <1>7, CapacityAssumption
<1> QED
  BY <1>4, <1>8

\* The facts about slots that the proofs use.
SlotFacts ==
  /\ \A p \in Nat : Slot(p) \in Slots
  /\ \A p, q \in Nat : Slot(p) = Slot(q) /\ p - q < Capacity /\ q - p < Capacity => p = q
  /\ \A p \in Nat : Slot(p + Capacity) = Slot(p)
  /\ Capacity \in Nat /\ Capacity >= 2

LEMMA SlotFactsHold == SlotFacts
<1>1. \A p \in Nat : Slot(p) \in Slots
  BY Zenon, SlotIsRemainder
<1> QED
  BY Zenon, <1>1, SlotInjective, SlotPeriodic, CapacityAssumption DEF SlotFacts

-----------------------------------------------------------------------------
(* The invariant. *)

\* All owners are within one lap, so two of them never share a slot.
LEMMA OwnersApart ==
  ASSUME QInv, NEW th \in Owners, NEW u \in Owners, Slot(pos[th]) = Slot(pos[u])
  PROVE  th = u
<1>1. /\ pos[th] \in Nat /\ pos[u] \in Nat /\ m_enqueue_pos \in Nat /\ m_dequeue_pos \in Nat
      /\ m_enqueue_pos <= m_dequeue_pos + Capacity /\ m_dequeue_pos <= m_enqueue_pos
  BY Zenon DEF QInv, TypeOK, WithinOneLap, Owners, Pushers, Poppers
<1>2. \A o \in Owners : pos[o] \in Nat => pos[o] < m_enqueue_pos /\ m_enqueue_pos <= pos[o] + Capacity
  BY <1>1, SlotFactsHold DEF QInv, OwnersOK, Owners, SlotFacts
<1>3. pos[th] = pos[u]
  BY <1>1, <1>2, SlotFactsHold DEF SlotFacts
<1> QED
  BY Zenon, <1>3 DEF QInv, OwnersOK

LEMMA InitEstablishesQInv == Init => QInv
<1> SUFFICES ASSUME Init PROVE QInv
  OBVIOUS
<1>1. TypeOK
  BY CapacityAssumption DEF Init, TypeOK, Slots, PCs
<1>2. WithinOneLap /\ Claimed /\ OwnersOK /\ Looking
  BY CapacityAssumption DEF Init, WithinOneLap, Claimed, OwnersOK, Looking, Owners, Pushers, Poppers
<1>3. Open
  <2> SUFFICES ASSUME NEW p \in 0 .. (Capacity - 1) PROVE sequence[Slot(p)] = p
    BY CapacityAssumption DEF Open, Init
  <2>1. Slot(p) = p
    <3>1. Slot(p) \in Nat /\ p \in Nat /\ Slot(p) < Capacity /\ p < Capacity
      BY SlotFactsHold DEF SlotFacts, Slots
    <3>2. PICK a \in Int : p = Capacity * a + Slot(p)
      BY Zenon, <3>1, SlotIsRemainder
    <3>3. Capacity * a \in Int
      BY CapacityAssumption
    <3>4. a = 0
      BY <3>1, <3>2, <3>3, SmallMultiple, CapacityAssumption
    <3> QED
      BY <3>1, <3>2, <3>4, CapacityAssumption
  <2> QED
    BY Zenon, <2>1, CapacityAssumption DEF Init, Slots
<1> QED
  BY Zenon, <1>1, <1>2, <1>3 DEF QInv

\* A step that wins no position and releases no slot.
Quiet ==
  /\ UNCHANGED <<m_enqueue_pos, m_dequeue_pos, sequence>>
  /\ Pushers' = Pushers
  /\ Poppers' = Poppers
  /\ \A th \in Owners : pos'[th] = pos[th]

LEMMA QuietKeepsQInv ==
  ASSUME QInv, TypeOK', Quiet, Looking'
  PROVE  QInv'
<1>1. Owners' = Owners
  BY Zenon DEF Quiet, Owners
<1>2. WithinOneLap'
  BY Zenon DEF Quiet, QInv, WithinOneLap
<1>3. Claimed' /\ Open'
  BY DEF Quiet, QInv, Claimed, Open, Owners
<1>4. OwnersOK'
  BY <1>1 DEF Quiet, QInv, OwnersOK, Owners
<1> QED
  BY Zenon, <1>2, <1>3, <1>4 DEF QInv

LEMMA QuietSteps ==
  ASSUME QInv, NEW th \in Threads,
         \/ \E m \in Messages : StartPush(th, m)
         \/ LoadEnqueuePos(th) \/ PushFull(th) \/ PushFree(th) \/ PushStale(th) \/ PushLoses(th)
         \/ StoreData(th)
         \/ StartPop(th)
         \/ LoadDequeuePos(th) \/ PopEmpty(th) \/ PopReady(th) \/ PopStale(th) \/ PopLoses(th)
         \/ MoveData(th)
  PROVE  TypeOK' /\ Quiet /\ Looking'
<1> USE SlotFactsHold DEF QInv, Goto, TypeOK, SlotFacts, Quiet, Owners, Pushers, Poppers, PCs, Looking
<1>1. ASSUME NEW m \in Messages, StartPush(th, m) PROVE TypeOK' /\ Quiet /\ Looking'
  BY Zenon, <1>1 DEF StartPush
<1>2. ASSUME LoadEnqueuePos(th) PROVE TypeOK' /\ Quiet /\ Looking'
  BY <1>2 DEF LoadEnqueuePos
<1>3. ASSUME PushFull(th) PROVE TypeOK' /\ Quiet /\ Looking'
  BY Zenon, <1>3 DEF PushFull
<1>4. ASSUME PushFree(th) PROVE TypeOK' /\ Quiet /\ Looking'
  BY Zenon, <1>4 DEF PushFree
<1>5. ASSUME PushStale(th) PROVE TypeOK' /\ Quiet /\ Looking'
  BY Zenon, <1>5 DEF PushStale
<1>6. ASSUME PushLoses(th) PROVE TypeOK' /\ Quiet /\ Looking'
  BY <1>6 DEF PushLoses
<1>7. ASSUME StoreData(th) PROVE TypeOK' /\ Quiet /\ Looking'
  BY Zenon, <1>7 DEF StoreData
<1>8. ASSUME StartPop(th) PROVE TypeOK' /\ Quiet /\ Looking'
  BY Zenon, <1>8 DEF StartPop
<1>9. ASSUME LoadDequeuePos(th) PROVE TypeOK' /\ Quiet /\ Looking'
  BY <1>9 DEF LoadDequeuePos
<1>10. ASSUME PopEmpty(th) PROVE TypeOK' /\ Quiet /\ Looking'
  BY Zenon, <1>10 DEF PopEmpty
<1>11. ASSUME PopReady(th) PROVE TypeOK' /\ Quiet /\ Looking'
  BY Zenon, <1>11 DEF PopReady
<1>12. ASSUME PopStale(th) PROVE TypeOK' /\ Quiet /\ Looking'
  BY Zenon, <1>12 DEF PopStale
<1>13. ASSUME PopLoses(th) PROVE TypeOK' /\ Quiet /\ Looking'
  BY <1>13 DEF PopLoses
<1>14. ASSUME MoveData(th) PROVE TypeOK' /\ Quiet /\ Looking'
  BY Zenon, <1>14 DEF MoveData
<1> QED
  BY Zenon, <1>1, <1>2, <1>3, <1>4, <1>5, <1>6, <1>7, <1>8, <1>9, <1>10, <1>11, <1>12, <1>13, <1>14

\* Winning m_enqueue_pos: its slot is free, so the position was open.
LEMMA PushWinsStep ==
  ASSUME QInv, NEW th \in Threads, PushWins(th)
  PROVE  QInv'
<1> DEFINE e == m_enqueue_pos
           d == m_dequeue_pos
<1>1. /\ e \in Nat /\ d \in Nat /\ d <= e /\ e <= d + Capacity /\ pos[th] = e
      /\ e' = e + 1 /\ d' = d /\ sequence[Slot(e)] = e /\ sequence' = sequence /\ pos' = pos
      /\ Capacity \in Nat /\ Capacity >= 2
  BY Zenon, SlotFactsHold DEF QInv, TypeOK, WithinOneLap, Looking, PushWins, Goto, SlotFacts
<1>2. Pushers' = Pushers \cup {th} /\ Poppers' = Poppers /\ th \notin Owners
  BY Zenon DEF QInv, TypeOK, PushWins, Goto, Pushers, Poppers, Owners
<1>3. e < d + Capacity
  <2> SUFFICES ASSUME e = d + Capacity PROVE FALSE
    BY <1>1
  <2>1. Slot(e) = Slot(d) /\ d \in d .. (e - 1)
    BY <1>1, SlotFactsHold DEF SlotFacts
  <2>2. sequence[Slot(d)] = d + 1 \/ sequence[Slot(d)] = d
    BY Zenon, <2>1 DEF QInv, Claimed
  <2> QED
    BY <1>1, <2>1, <2>2
<1>4. TypeOK' /\ WithinOneLap'
  BY <1>1, <1>3 DEF QInv, TypeOK, WithinOneLap, PushWins, Goto, PCs
<1>5. Claimed'
  <2> SUFFICES ASSUME NEW p \in d .. e
               PROVE  \/ sequence[Slot(p)] = p + 1
                      \/ sequence[Slot(p)] = p /\ \E u \in Pushers' : pos[u] = p
    BY <1>1 DEF Claimed
  <2>1. CASE p = e
    BY Zenon, <1>1, <1>2, <2>1
  <2>2. CASE p # e
    BY <1>1, <1>2, <2>2 DEF QInv, Claimed
  <2> QED
    BY Zenon, <2>1, <2>2
<1>6. Open'
  BY <1>1, <1>2 DEF QInv, Open
<1>7. OwnersOK'
  <2>1. ASSUME NEW u \in Poppers PROVE e + 1 <= pos[u] + Capacity
    <3>1. /\ pos[u] \in Nat /\ pos[u] < d /\ e <= pos[u] + Capacity
          /\ sequence[Slot(pos[u])] = pos[u] + 1
      BY Zenon, <2>1 DEF QInv, OwnersOK, TypeOK, Poppers
    <3>2. pos[u] + Capacity # e
      BY <1>1, <3>1, SlotFactsHold DEF SlotFacts
    <3> QED
      BY <1>1, <3>1, <3>2
  <2>2. \A u \in Owners : pos[u] # e
    BY <1>1 DEF QInv, OwnersOK, TypeOK, Owners, Pushers, Poppers
  <2>3. \A u \in Pushers' : /\ d <= pos[u] /\ pos[u] < e + 1 /\ sequence[Slot(pos[u])] = pos[u]
    BY <1>1, <1>2 DEF QInv, OwnersOK, TypeOK, Pushers
  <2>4. \A u \in Poppers' : /\ pos[u] < d /\ e + 1 <= pos[u] + Capacity
                            /\ sequence[Slot(pos[u])] = pos[u] + 1
    BY Zenon, <1>1, <1>2, <2>1 DEF QInv, OwnersOK
  <2>5. \A u, v \in Owners' : pos[u] = pos[v] => u = v
    BY Zenon, <1>1, <1>2, <2>2 DEF QInv, OwnersOK, Owners
  <2> QED
    BY Zenon, <1>1, <2>3, <2>4, <2>5 DEF OwnersOK
<1>8. Looking'
  BY <1>1 DEF QInv, Looking, TypeOK, PushWins, Goto
<1> QED
  BY Zenon, <1>4, <1>5, <1>6, <1>7, <1>8 DEF QInv

\* Winning m_dequeue_pos: its slot is published, so the position was claimed.
LEMMA PopWinsStep ==
  ASSUME QInv, NEW th \in Threads, PopWins(th)
  PROVE  QInv'
<1> DEFINE e == m_enqueue_pos
           d == m_dequeue_pos
<1>1. /\ e \in Nat /\ d \in Nat /\ d <= e /\ e <= d + Capacity /\ pos[th] = d
      /\ d' = d + 1 /\ e' = e /\ sequence[Slot(d)] = d + 1 /\ sequence' = sequence /\ pos' = pos
      /\ Capacity \in Nat /\ Capacity >= 2
  BY Zenon, SlotFactsHold DEF QInv, TypeOK, WithinOneLap, Looking, PopWins, Goto, SlotFacts
<1>2. Poppers' = Poppers \cup {th} /\ Pushers' = Pushers /\ th \notin Owners
  BY Zenon DEF QInv, TypeOK, PopWins, Goto, Pushers, Poppers, Owners
<1>3. d < e
  <2> SUFFICES ASSUME d = e PROVE FALSE
    BY <1>1
  <2>1. d \in e .. (d + Capacity - 1)
    BY <1>1
  <2>2. sequence[Slot(d)] = d \/ sequence[Slot(d)] = d - Capacity + 1
    BY Zenon, <2>1 DEF QInv, Open
  <2> QED
    BY <1>1, <2>2
<1>4. TypeOK' /\ WithinOneLap'
  BY <1>1, <1>3 DEF QInv, TypeOK, WithinOneLap, PopWins, Goto, PCs
<1>5. Claimed'
  BY <1>1, <1>2 DEF QInv, Claimed
<1>6. Open'
  <2> SUFFICES ASSUME NEW p \in e .. (d + Capacity)
               PROVE  \/ sequence[Slot(p)] = p
                      \/ /\ sequence[Slot(p)] = p - Capacity + 1
                         /\ \E u \in Poppers' : pos[u] = p - Capacity
    BY <1>1 DEF Open
  <2>1. CASE p = d + Capacity
    <3>1. Slot(p) = Slot(d) /\ p - Capacity = d
      BY <1>1, <2>1, SlotFactsHold DEF SlotFacts
    <3> QED
      BY Zenon, <1>1, <1>2, <3>1
  <2>2. CASE p # d + Capacity
    BY <1>1, <1>2, <2>2 DEF QInv, Open
  <2> QED
    BY Zenon, <2>1, <2>2
<1>7. OwnersOK'
  <2>1. ASSUME NEW u \in Pushers PROVE d + 1 <= pos[u]
    <3>1. pos[u] \in Nat /\ d <= pos[u] /\ pos[u] < e /\ sequence[Slot(pos[u])] = pos[u]
      BY Zenon, <2>1 DEF QInv, OwnersOK, TypeOK, Pushers
    <3> QED
      BY <1>1, <3>1
  <2>2. \A u \in Owners : pos[u] # d
    BY <1>1, <2>1 DEF QInv, OwnersOK, TypeOK, Owners, Pushers, Poppers
  <2>3. \A u \in Poppers' : /\ pos[u] < d + 1 /\ e <= pos[u] + Capacity
                            /\ sequence[Slot(pos[u])] = pos[u] + 1
    BY <1>1, <1>2 DEF QInv, OwnersOK, TypeOK, Poppers
  <2>4. \A u \in Pushers' : /\ d + 1 <= pos[u] /\ pos[u] < e /\ sequence[Slot(pos[u])] = pos[u]
    BY Zenon, <1>1, <1>2, <2>1 DEF QInv, OwnersOK
  <2>5. \A u, v \in Owners' : pos[u] = pos[v] => u = v
    BY Zenon, <1>1, <1>2, <2>2 DEF QInv, OwnersOK, Owners
  <2> QED
    BY Zenon, <1>1, <2>3, <2>4, <2>5 DEF OwnersOK
<1>8. Looking'
  BY <1>1 DEF QInv, Looking, TypeOK, PopWins, Goto
<1> QED
  BY Zenon, <1>4, <1>5, <1>6, <1>7, <1>8 DEF QInv

\* Publishing changes the slot of one claimed position.
LEMMA PublishDataStep ==
  ASSUME QInv, NEW th \in Threads, PublishData(th)
  PROVE  QInv'
<1> DEFINE e == m_enqueue_pos
           d == m_dequeue_pos
           n == pos[th]
<1>1. /\ e \in Nat /\ d \in Nat /\ d <= e /\ e <= d + Capacity /\ n \in Nat
      /\ d' = d /\ e' = e /\ pos' = pos /\ Slot(n) \in Slots
      /\ sequence' = [sequence EXCEPT ![Slot(n)] = n + 1] /\ sequence \in [Slots -> Nat]
      /\ Capacity \in Nat /\ Capacity >= 2
  BY Zenon, SlotFactsHold DEF QInv, TypeOK, WithinOneLap, PublishData, Goto, SlotFacts
<1>2. /\ th \in Pushers /\ Pushers' = Pushers \ {th} /\ Poppers' = Poppers
      /\ d <= n /\ n < e /\ sequence[Slot(n)] = n
  BY Zenon DEF QInv, TypeOK, OwnersOK, PublishData, Goto, Pushers, Poppers
<1>3. TypeOK' /\ WithinOneLap'
  BY <1>1 DEF QInv, TypeOK, WithinOneLap, PublishData, Goto, PCs
<1>4. ASSUME NEW p \in d .. (d + Capacity - 1), p # n
      PROVE  sequence'[Slot(p)] = sequence[Slot(p)]
  BY <1>1, <1>2, <1>4, SlotFactsHold DEF SlotFacts
<1>5. Claimed'
  <2> SUFFICES ASSUME NEW p \in d .. (e - 1)
               PROVE  \/ sequence'[Slot(p)] = p + 1
                      \/ sequence'[Slot(p)] = p /\ \E u \in Pushers' : pos[u] = p
    BY Zenon, <1>1 DEF Claimed
  <2>1. CASE p = n
    BY Zenon, <1>1, <2>1
  <2>2. CASE p # n
    <3>1. sequence'[Slot(p)] = sequence[Slot(p)]
      BY <1>1, <1>4, <2>2
    <3> QED
      BY Zenon, <1>2, <2>2, <3>1 DEF QInv, Claimed
  <2> QED
    BY Zenon, <2>1, <2>2
<1>6. Open'
  <2> SUFFICES ASSUME NEW p \in e .. (d + Capacity - 1)
               PROVE  \/ sequence'[Slot(p)] = p
                      \/ /\ sequence'[Slot(p)] = p - Capacity + 1
                         /\ \E u \in Poppers : pos[u] = p - Capacity
    BY Zenon, <1>1, <1>2 DEF Open
  <2>1. sequence'[Slot(p)] = sequence[Slot(p)]
    BY <1>1, <1>2, <1>4
  <2> QED
    BY Zenon, <2>1 DEF QInv, Open
<1>7. OwnersOK'
  <2>1. ASSUME NEW u \in Owners, u # th PROVE sequence'[Slot(pos[u])] = sequence[Slot(pos[u])]
    <3>1. Slot(pos[u]) # Slot(n) /\ Slot(pos[u]) \in Slots
      BY Zenon, <1>2, <2>1, OwnersApart, SlotFactsHold DEF Owners, Pushers, Poppers, SlotFacts, QInv, TypeOK
    <3> QED
      BY Zenon, <1>1, <3>1
  <2>2. Owners' = Owners \ {th}
    BY Zenon, <1>2 DEF Owners, Pushers, Poppers
  <2> QED
    BY Zenon, <1>1, <1>2, <2>1, <2>2 DEF QInv, OwnersOK, Owners
<1>8. Looking'
  <2>1. ASSUME NEW u \in Threads, pc[u] = "push_cas", pos[u] = e
        PROVE  sequence'[Slot(pos[u])] = pos[u]
    <3>1. sequence[Slot(e)] = e /\ Slot(e) \in Slots
      BY Zenon, <1>1, <2>1, SlotFactsHold DEF QInv, Looking, SlotFacts
    <3>2. Slot(e) # Slot(n)
      BY <1>1, <1>2, <3>1
    <3> QED
      BY Zenon, <1>1, <2>1, <3>1, <3>2
  <2>2. ASSUME NEW u \in Threads, pc[u] = "pop_cas", pos[u] = d
        PROVE  sequence'[Slot(pos[u])] = pos[u] + 1
    <3>1. sequence[Slot(d)] = d + 1 /\ Slot(d) \in Slots
      BY Zenon, <1>1, <2>2, SlotFactsHold DEF QInv, Looking, SlotFacts
    <3>2. Slot(d) # Slot(n)
      BY <1>1, <1>2, <3>1, SlotFactsHold DEF SlotFacts
    <3> QED
      BY Zenon, <1>1, <2>2, <3>1, <3>2
  <2>3. \A q \in Slots : sequence'[q] >= sequence[q] /\ sequence[q] \in Nat /\ sequence'[q] \in Nat
    BY <1>1, <1>2
  <2>4. \A u \in Threads : Slot(pos[u]) \in Slots /\ pos[u] \in Nat
    BY Zenon, SlotFactsHold DEF SlotFacts, QInv, TypeOK
  <2>5. ASSUME NEW u \in Threads
        PROVE  /\ sequence[Slot(pos[u])] >= pos[u] => sequence'[Slot(pos[u])] >= pos[u]
               /\ sequence[Slot(pos[u])] >= pos[u] + 1 => sequence'[Slot(pos[u])] >= pos[u] + 1
    BY <2>3, <2>4
  <2> QED
    BY Zenon, <1>1, <2>1, <2>2, <2>5 DEF QInv, Looking, TypeOK, PublishData, Goto
<1> QED
  BY Zenon, <1>3, <1>5, <1>6, <1>7, <1>8 DEF QInv

\* Releasing a slot makes it free for the position one lap later.
LEMMA FreeSlotStep ==
  ASSUME QInv, NEW th \in Threads, FreeSlot(th)
  PROVE  QInv'
<1> DEFINE e == m_enqueue_pos
           d == m_dequeue_pos
           n == pos[th]
<1>1. /\ e \in Nat /\ d \in Nat /\ d <= e /\ e <= d + Capacity /\ n \in Nat
      /\ d' = d /\ e' = e /\ pos' = pos /\ Slot(n) \in Slots /\ Slot(n + Capacity) = Slot(n)
      /\ sequence' = [sequence EXCEPT ![Slot(n)] = n + Capacity] /\ sequence \in [Slots -> Nat]
      /\ Capacity \in Nat /\ Capacity >= 2
  BY Zenon, SlotFactsHold DEF QInv, TypeOK, WithinOneLap, FreeSlot, Goto, SlotFacts
<1>2. /\ th \in Poppers /\ Poppers' = Poppers \ {th} /\ Pushers' = Pushers
      /\ n < d /\ e <= n + Capacity /\ sequence[Slot(n)] = n + 1
  BY Zenon DEF QInv, TypeOK, OwnersOK, FreeSlot, Goto, Pushers, Poppers
<1>3. TypeOK' /\ WithinOneLap'
  BY <1>1 DEF QInv, TypeOK, WithinOneLap, FreeSlot, Goto, PCs
<1>4. ASSUME NEW p \in d .. (d + Capacity - 1), p # n + Capacity
      PROVE  sequence'[Slot(p)] = sequence[Slot(p)]
  <2>1. Slot(p) # Slot(n + Capacity)
    BY <1>1, <1>2, <1>4, SlotFactsHold DEF SlotFacts
  <2> QED
    BY <1>1, <2>1, SlotFactsHold DEF SlotFacts
<1>5. Claimed'
  <2> SUFFICES ASSUME NEW p \in d .. (e - 1)
               PROVE  \/ sequence'[Slot(p)] = p + 1
                      \/ sequence'[Slot(p)] = p /\ \E u \in Pushers : pos[u] = p
    BY Zenon, <1>1, <1>2 DEF Claimed
  <2>1. sequence'[Slot(p)] = sequence[Slot(p)]
    BY <1>1, <1>2, <1>4
  <2> QED
    BY Zenon, <2>1 DEF QInv, Claimed
<1>6. Open'
  <2> SUFFICES ASSUME NEW p \in e .. (d + Capacity - 1)
               PROVE  \/ sequence'[Slot(p)] = p
                      \/ /\ sequence'[Slot(p)] = p - Capacity + 1
                         /\ \E u \in Poppers' : pos[u] = p - Capacity
    BY Zenon, <1>1 DEF Open
  <2>1. CASE p = n + Capacity
    BY Zenon, <1>1, <2>1
  <2>2. CASE p # n + Capacity
    <3>1. sequence'[Slot(p)] = sequence[Slot(p)]
      BY <1>1, <1>4, <2>2
    <3>2. n # p - Capacity
      BY <1>1, <2>2
    <3> QED
      BY Zenon, <1>2, <3>1, <3>2 DEF QInv, Open
  <2> QED
    BY Zenon, <2>1, <2>2
<1>7. OwnersOK'
  <2>1. ASSUME NEW u \in Owners, u # th PROVE sequence'[Slot(pos[u])] = sequence[Slot(pos[u])]
    <3>1. Slot(pos[u]) # Slot(n) /\ Slot(pos[u]) \in Slots
      BY Zenon, <1>2, <2>1, OwnersApart, SlotFactsHold DEF Owners, Pushers, Poppers, SlotFacts, QInv, TypeOK
    <3> QED
      BY Zenon, <1>1, <3>1
  <2>2. Owners' = Owners \ {th}
    BY Zenon, <1>2 DEF Owners, Pushers, Poppers
  <2> QED
    BY Zenon, <1>1, <1>2, <2>1, <2>2 DEF QInv, OwnersOK, Owners
<1>8. Looking'
  <2>1. ASSUME NEW u \in Threads, pc[u] = "push_cas", pos[u] = e
        PROVE  sequence'[Slot(pos[u])] = pos[u]
    <3>1. sequence[Slot(e)] = e /\ Slot(e) \in Slots
      BY Zenon, <1>1, <2>1, SlotFactsHold DEF QInv, Looking, SlotFacts
    <3>2. Slot(e) # Slot(n)
      BY <1>1, <1>2, <3>1, SlotFactsHold DEF SlotFacts
    <3> QED
      BY Zenon, <1>1, <2>1, <3>1, <3>2
  <2>2. ASSUME NEW u \in Threads, pc[u] = "pop_cas", pos[u] = d
        PROVE  sequence'[Slot(pos[u])] = pos[u] + 1
    <3>1. sequence[Slot(d)] = d + 1 /\ Slot(d) \in Slots
      BY Zenon, <1>1, <2>2, SlotFactsHold DEF QInv, Looking, SlotFacts
    <3>2. Slot(d) # Slot(n)
      BY <1>1, <1>2, <3>1
    <3> QED
      BY Zenon, <1>1, <2>2, <3>1, <3>2
  <2>3. \A q \in Slots : sequence'[q] >= sequence[q] /\ sequence[q] \in Nat /\ sequence'[q] \in Nat
    BY <1>1, <1>2
  <2>4. \A u \in Threads : Slot(pos[u]) \in Slots /\ pos[u] \in Nat
    BY Zenon, SlotFactsHold DEF SlotFacts, QInv, TypeOK
  <2>5. ASSUME NEW u \in Threads
        PROVE  /\ sequence[Slot(pos[u])] >= pos[u] => sequence'[Slot(pos[u])] >= pos[u]
               /\ sequence[Slot(pos[u])] >= pos[u] + 1 => sequence'[Slot(pos[u])] >= pos[u] + 1
    BY <2>3, <2>4
  <2> QED
    BY Zenon, <1>1, <2>1, <2>2, <2>5 DEF QInv, Looking, TypeOK, FreeSlot, Goto
<1> QED
  BY Zenon, <1>3, <1>5, <1>6, <1>7, <1>8 DEF QInv

LEMMA NextKeepsQInv == QInv /\ [Next]_vars => QInv'
<1> SUFFICES ASSUME QInv, [Next]_vars PROVE QInv'
  OBVIOUS
<1>1. CASE UNCHANGED vars
  BY <1>1 DEF vars, QInv, TypeOK, WithinOneLap, Claimed, Open, OwnersOK, Looking, Owners, Pushers, Poppers
<1>2. CASE Next
  <2>1. PICK th \in Threads : \/ \E m \in Messages : StartPush(th, m)
                              \/ StartPop(th) \/ Push(th) \/ Pop(th)
    BY Zenon, <1>2 DEF Next
  <2> QED
    BY Zenon, <2>1, QuietSteps, QuietKeepsQInv, PushWinsStep, PopWinsStep, PublishDataStep, FreeSlotStep
       DEF Push, Pop
<1> QED
  BY Zenon, <1>1, <1>2

\* The invariant holds in every reachable state.
THEOREM QueueInvariantHolds == Spec => []QInv
  BY InitEstablishesQInv, NextKeepsQInv, PTL DEF Spec

\* Type correctness.
THEOREM QueueTypeCorrect == Spec => []TypeOK
  BY QueueInvariantHolds, PTL DEF QInv

\* Slot::data is never accessed by two threads at once.
THEOREM SlotsAreExclusive == Spec => []SlotExclusion
<1>1. QInv => SlotExclusion
  BY Zenon, OwnersApart DEF SlotExclusion, Owners
<1> QED
  BY <1>1, QueueInvariantHolds, PTL

\* The two positions are never more than a lap apart.
THEOREM PositionsStayWithinOneLap == Spec => []WithinOneLap
  BY QueueInvariantHolds, PTL DEF QInv

\* try_push refuses only for a slot still in use, try_pop only for a position not published.
THEOREM RefusalsHaveAReason == Spec => RefusalsAreJustified
<1>1. ASSUME QInv, NEW th \in Threads, PushFull(th)
      PROVE  \/ m_dequeue_pos <= pos[th] - Capacity
             \/ \E u \in Poppers : pos[u] = pos[th] - Capacity
  <2>1. /\ pos[th] \in Nat /\ m_enqueue_pos \in Nat /\ m_dequeue_pos \in Nat
        /\ pos[th] <= m_enqueue_pos /\ Capacity \in Nat /\ Slot(pos[th]) \in Slots
        /\ sequence[Slot(pos[th])] \in Nat /\ sequence[Slot(pos[th])] < pos[th]
        /\ ~ (pos[th] < m_enqueue_pos)
    BY <1>1, SlotFactsHold DEF QInv, TypeOK, Looking, PushFull, Goto, SlotFacts
  <2>2. CASE pos[th] < m_dequeue_pos + Capacity
    <3>1. pos[th] \in m_enqueue_pos .. (m_dequeue_pos + Capacity - 1)
      BY <2>1, <2>2
    <3> QED
      BY <1>1, <2>1, <3>1 DEF QInv, Open
  <2> QED
    BY <2>1, <2>2
<1>2. ASSUME QInv, NEW th \in Threads, PopEmpty(th)
      PROVE  m_enqueue_pos <= pos[th] \/ \E u \in Pushers : pos[u] = pos[th]
  <2>1. /\ pos[th] \in Nat /\ m_enqueue_pos \in Nat /\ m_dequeue_pos \in Nat
        /\ pos[th] <= m_dequeue_pos /\ Slot(pos[th]) \in Slots
        /\ sequence[Slot(pos[th])] \in Nat /\ sequence[Slot(pos[th])] < pos[th] + 1
        /\ ~ (pos[th] < m_dequeue_pos)
    BY <1>2, SlotFactsHold DEF QInv, TypeOK, Looking, PopEmpty, Goto, SlotFacts
  <2>2. CASE pos[th] < m_enqueue_pos
    <3>1. pos[th] \in m_dequeue_pos .. (m_enqueue_pos - 1)
      BY <2>1, <2>2
    <3> QED
      BY <1>2, <2>1, <3>1 DEF QInv, Claimed
  <2> QED
    BY <2>1, <2>2
<1> DEFINE Justified ==
             /\ \A th \in Threads : PushFull(th) =>
                  \/ m_dequeue_pos <= pos[th] - Capacity
                  \/ \E u \in Poppers : pos[u] = pos[th] - Capacity
             /\ \A th \in Threads : PopEmpty(th) =>
                  \/ m_enqueue_pos <= pos[th]
                  \/ \E u \in Pushers : pos[u] = pos[th]
<1>3. QInv /\ [Next]_vars => [Justified]_vars
  BY Zenon, <1>1, <1>2
<1> QED
  BY <1>3, QueueInvariantHolds, PTL DEF Spec, RefusalsAreJustified

-----------------------------------------------------------------------------
(* The ring implements the numbered queue. *)

Storing(th, p) == pc[th] = "store" /\ pos[th] = p

\* The choice in PushedItem is determined: a position has one pusher.
LEMMA PushedItemFacts ==
  ASSUME QInv, NEW p
  PROVE  /\ \A th \in Threads : Storing(th, p) => PushedItem(p) = item[th]
         /\ (\A th \in Threads : ~ Storing(th, p)) => PushedItem(p) = data[Slot(p)]
<1>1. ASSUME NEW th \in Threads, Storing(th, p) PROVE PushedItem(p) = item[th]
  <2> DEFINE c == CHOOSE u \in Threads : pc[u] = "store" /\ pos[u] = p
  <2>1. c \in Threads /\ Storing(c, p)
    BY Zenon, <1>1 DEF Storing
  <2>2. c = th
    BY Zenon, <1>1, <2>1 DEF Storing, QInv, OwnersOK, Owners, Pushers
  <2> QED
    BY Zenon, <1>1, <2>2 DEF PushedItem, Storing
<1>2. ASSUME \A th \in Threads : ~ Storing(th, p) PROVE PushedItem(p) = data[Slot(p)]
  BY Zenon, <1>2 DEF PushedItem, Storing
<1> QED
  BY Zenon, <1>1, <1>2

LEMMA PushedItemFactsNext ==
  ASSUME QInv', NEW p
  PROVE  /\ \A th \in Threads : Storing(th, p)' => PushedItem(p)' = item'[th]
         /\ (\A th \in Threads : ~ Storing(th, p)') => PushedItem(p)' = data'[Slot(p)]
<1>1. ASSUME NEW th \in Threads, Storing(th, p)' PROVE PushedItem(p)' = item'[th]
  <2> DEFINE c == CHOOSE u \in Threads : pc'[u] = "store" /\ pos'[u] = p
  <2>1. \E u \in Threads : pc'[u] = "store" /\ pos'[u] = p
    BY Zenon, <1>1 DEF Storing
  <2>2. c \in Threads /\ pc'[c] = "store" /\ pos'[c] = p
    BY Zenon, <2>1
  <2>3. c = th
    BY Zenon, <1>1, <2>2 DEF Storing, QInv, OwnersOK, Owners, Pushers
  <2> QED
    BY Zenon, <1>1, <2>1, <2>3 DEF PushedItem, Storing
<1>2. ASSUME \A th \in Threads : ~ Storing(th, p)' PROVE PushedItem(p)' = data'[Slot(p)]
  BY Zenon, <1>2 DEF PushedItem, Storing
<1> QED
  BY Zenon, <1>1, <1>2

\* A message stays what it is if its pusher and its slot stay as they are.
LEMMA PushedItemKept ==
  ASSUME QInv, QInv', NEW p,
         \A th \in Threads : Storing(th, p)' <=> Storing(th, p),
         \A th \in Threads : Storing(th, p) => item'[th] = item[th],
         data'[Slot(p)] = data[Slot(p)]
  PROVE  PushedItem(p)' = PushedItem(p)
  BY PushedItemFacts, PushedItemFactsNext

\* Positions of the queue never use the slot of a popper.
LEMMA QueueAvoidsPoppers ==
  ASSUME QInv, NEW th \in Poppers, NEW p \in m_dequeue_pos .. (m_enqueue_pos - 1)
  PROVE  Slot(p) # Slot(pos[th])
<1>1. /\ pos[th] \in Nat /\ m_dequeue_pos \in Nat /\ m_enqueue_pos \in Nat /\ p \in Nat
      /\ pos[th] < m_dequeue_pos /\ m_enqueue_pos <= pos[th] + Capacity
  BY DEF QInv, TypeOK, OwnersOK, Poppers
<1> QED
  BY <1>1, SlotFactsHold DEF SlotFacts

\* Storing and moving a message, and looking at slots, do not change the queue.
LEMMA QuietStutters ==
  ASSUME QInv, QInv', NEW th \in Threads,
         \/ \E m \in Messages : StartPush(th, m)
         \/ LoadEnqueuePos(th) \/ PushFull(th) \/ PushFree(th) \/ PushStale(th) \/ PushLoses(th)
         \/ StoreData(th)
         \/ StartPop(th)
         \/ LoadDequeuePos(th) \/ PopEmpty(th) \/ PopReady(th) \/ PopStale(th) \/ PopLoses(th)
         \/ MoveData(th)
  PROVE  UNCHANGED <<m_dequeue_pos, m_enqueue_pos, QueueCells, QueueHeld>>
<1>1. Quiet /\ TypeOK
  BY Zenon, QuietSteps DEF QInv
<1>2. ASSUME NEW p \in m_dequeue_pos .. (m_enqueue_pos - 1)
      PROVE  PushedItem(p)' = PushedItem(p)
  <2>1. CASE StoreData(th)
    <3>1. /\ \A u \in Threads : Storing(u, p)' <=> Storing(u, p) /\ u # th
          /\ item' = item /\ pos' = pos /\ pc[th] = "store"
          /\ data' = [data EXCEPT ![Slot(pos[th])] = item[th]] /\ data \in [Slots -> Messages \cup {None}]
      BY Zenon, <1>1, <2>1 DEF StoreData, Goto, Storing, TypeOK
    <3>2. p \in Nat /\ Slot(p) \in Slots /\ pos[th] \in Nat /\ th \in Pushers
      BY <1>1, <3>1, SlotFactsHold DEF SlotFacts, TypeOK, Pushers
    <3>3. CASE pos[th] = p
      <4>1. Storing(th, p) /\ \A u \in Threads : Storing(u, p) => u = th
        BY Zenon, <3>1, <3>3 DEF Storing, QInv, OwnersOK, Owners, Pushers
      <4>2. PushedItem(p) = item[th]
        BY Zenon, <4>1, PushedItemFacts
      <4>3. PushedItem(p)' = data'[Slot(p)]
        BY Zenon, <3>1, <4>1, PushedItemFactsNext
      <4> QED
        BY Zenon, <3>1, <3>2, <3>3, <4>2, <4>3
    <3>4. CASE pos[th] # p
      <4>1. Slot(p) # Slot(pos[th])
        BY <1>1, <3>2, <3>4, SlotFactsHold, SMTT(20) DEF SlotFacts, QInv, WithinOneLap, OwnersOK, TypeOK
      <4>2. data'[Slot(p)] = data[Slot(p)]
        BY Zenon, <3>1, <3>2, <4>1
      <4>3. \A u \in Threads : Storing(u, p)' <=> Storing(u, p)
        BY Zenon, <3>1, <3>4 DEF Storing
      <4> QED
        BY Zenon, <3>1, <4>2, <4>3, PushedItemKept
    <3> QED
      BY Zenon, <3>3, <3>4
  <2>2. CASE MoveData(th)
    <3>1. /\ \A u \in Threads : Storing(u, p)' <=> Storing(u, p)
          /\ \A u \in Threads : Storing(u, p) => item'[u] = item[u]
          /\ data' = [data EXCEPT ![Slot(pos[th])] = None] /\ data \in [Slots -> Messages \cup {None}]
          /\ th \in Poppers
      BY Zenon, <1>1, <2>2 DEF MoveData, Goto, Storing, TypeOK, Poppers
    <3>2. Slot(p) # Slot(pos[th]) /\ Slot(p) \in Slots
      BY <1>1, <3>1, QueueAvoidsPoppers, SlotFactsHold DEF SlotFacts, TypeOK
    <3>3. data'[Slot(p)] = data[Slot(p)]
      BY Zenon, <3>1, <3>2
    <3> QED
      BY Zenon, <3>1, <3>3, PushedItemKept
  <2>3. CASE ~ StoreData(th) /\ ~ MoveData(th)
    <3>1. /\ \A u \in Threads : Storing(u, p)' <=> Storing(u, p)
          /\ \A u \in Threads : Storing(u, p) => item'[u] = item[u]
          /\ data' = data
      BY Zenon, <1>1, <2>3 DEF TypeOK, Goto, Storing, StartPush, LoadEnqueuePos, PushFull, PushFree,
         PushStale, PushLoses, StartPop, LoadDequeuePos, PopEmpty, PopReady, PopStale, PopLoses
    <3> QED
      BY Zenon, <3>1, PushedItemKept
  <2> QED
    BY Zenon, <2>1, <2>2, <2>3
<1>3. QueueCells' = QueueCells
  BY Zenon, <1>1, <1>2 DEF QueueCells, Quiet
<1>4. \A u \in Poppers : pos'[u] = pos[u] /\ PoppedItem(u)' = PoppedItem(u)
  <2>1. CASE MoveData(th)
    <3>1. \A u \in Poppers : u # th => PoppedItem(u)' = PoppedItem(u)
      <4> SUFFICES ASSUME NEW u \in Poppers, u # th PROVE PoppedItem(u)' = PoppedItem(u)
        OBVIOUS
      <4>1. Slot(pos[u]) # Slot(pos[th]) /\ Slot(pos[u]) \in Slots
        BY Zenon, <1>1, <2>1, OwnersApart, SlotFactsHold
           DEF Owners, Poppers, MoveData, Goto, SlotFacts, TypeOK
      <4> QED
        BY Zenon, <1>1, <2>1, <4>1 DEF MoveData, Goto, PoppedItem, TypeOK, Poppers
    <3>2. PoppedItem(th)' = PoppedItem(th)
      BY Zenon, <1>1, <2>1 DEF MoveData, Goto, PoppedItem, TypeOK
    <3> QED
      BY Zenon, <1>1, <2>1, <3>1, <3>2 DEF Quiet, Owners
  <2>2. CASE StoreData(th)
    <3>1. \A u \in Poppers : Slot(pos[u]) # Slot(pos[th]) /\ Slot(pos[u]) \in Slots
      BY Zenon, <1>1, <2>2, OwnersApart, SlotFactsHold
         DEF Owners, Poppers, Pushers, StoreData, Goto, SlotFacts, TypeOK
    <3> QED
      BY Zenon, <1>1, <2>2, <3>1 DEF StoreData, Goto, PoppedItem, TypeOK, Poppers
  <2>3. CASE ~ StoreData(th) /\ ~ MoveData(th)
    BY Zenon, <1>1, <2>3 DEF TypeOK, Goto, Poppers, PoppedItem, StartPush, LoadEnqueuePos, PushFull, PushFree,
       PushStale, PushLoses, StartPop, LoadDequeuePos, PopEmpty, PopReady, PopStale, PopLoses
  <2> QED
    BY Zenon, <2>1, <2>2, <2>3
<1>5. QueueHeld' = QueueHeld
  BY Zenon, <1>1, <1>4 DEF QueueHeld, Quiet
<1> QED
  BY Zenon, <1>1, <1>3, <1>5 DEF Quiet

\* Winning a position to push at claims the next cell.
LEMMA PushWinsClaims ==
  ASSUME QInv, QInv', NEW th \in Threads, PushWins(th)
  PROVE  item[th] \in Messages /\ Queue!Claim(item[th])
<1> DEFINE d == m_dequeue_pos
           e == m_enqueue_pos
<1>1. /\ d \in Nat /\ e \in Nat /\ Capacity \in Nat /\ e = pos[th] /\ m_enqueue_pos' = e + 1 /\ m_dequeue_pos' = d
      /\ pc' = [pc EXCEPT ![th] = "store"] /\ pc \in [Threads -> PCs] /\ pc[th] = "push_cas"
      /\ sequence' = sequence /\ data' = data /\ pos' = pos /\ item' = item
      /\ item[th] \in Messages
  BY Zenon, CapacityAssumption DEF QInv, TypeOK, PushWins, Goto, Looking
<1>2. Poppers' = Poppers
  BY Zenon, <1>1 DEF Poppers
<1>3. QueueHeld' = QueueHeld
  BY Zenon, <1>1, <1>2 DEF QueueHeld, PoppedItem, Poppers
<1>4. ~ Queue!Full
  <2>1. e + 1 <= d + Capacity
    BY Zenon, <1>1 DEF QInv, WithinOneLap
  <2>2. \A u \in Poppers : pos[u] # e - Capacity
    <3>1. \A u \in Poppers : pos[u] \in Nat /\ e + 1 <= pos[u] + Capacity
      BY Zenon, <1>1, <1>2 DEF QInv, OwnersOK, TypeOK, Poppers
    <3> QED
      BY <1>1, <3>1
  <2>3. \A h \in QueueHeld : h.pos # e - Capacity
    BY <2>2 DEF QueueHeld
  <2> QED
    BY <1>1, <2>1, <2>3 DEF Queue!Full
<1>5. \A p \in d .. (e - 1) : PushedItem(p)' = PushedItem(p)
  <2> SUFFICES ASSUME NEW p \in d .. (e - 1) PROVE PushedItem(p)' = PushedItem(p)
    OBVIOUS
  <2>1. p # pos[th]
    BY <1>1
  <2>2. \A u \in Threads : Storing(u, p)' <=> Storing(u, p)
    BY Zenon, <1>1, <2>1 DEF Storing
  <2> QED
    BY Zenon, <1>1, <2>2, PushedItemKept
<1>6. \A p : p = e => PushedItem(p)' = item[th]
  <2>1. pc'[th] = "store" /\ pos'[th] = e
    BY Zenon, <1>1
  <2>2. \A p : p = e => Storing(th, p)'
    BY Zenon, <2>1 DEF Storing
  <2>3. \A p : p = e => PushedItem(p)' = item'[th]
    BY Zenon, <2>2, PushedItemFactsNext
  <2> QED
    BY Zenon, <1>1, <2>3
<1>7. sequence[Slot(e)] # e + 1
  BY <1>1 DEF QInv, Looking, TypeOK
<1>8. QueueCells' = [p \in d .. e |-> IF p = e THEN [item |-> item[th], ready |-> FALSE] ELSE QueueCells[p]]
  <2>1. QueueCells' = [p \in d .. e |-> [item |-> PushedItem(p)', ready |-> sequence[Slot(p)] = p + 1]]
    BY <1>1 DEF QueueCells
  <2>2. \A p \in d .. e : p # e => QueueCells[p] = [item |-> PushedItem(p)', ready |-> sequence[Slot(p)] = p + 1]
    BY <1>1, <1>5 DEF QueueCells
  <2> QED
    BY Zenon, <2>1, <2>2, <1>6, <1>7
<1> QED
  BY Zenon, <1>1, <1>3, <1>4, <1>8 DEF Queue!Claim

LEMMA CellFields ==
  ASSUME NEW a, NEW b, NEW c, c = [item |-> a, ready |-> b]
  PROVE  c.item = a /\ c.ready = b
OBVIOUS

\* Publishing makes the pusher's cell ready.
LEMMA PublishDataPublishes ==
  ASSUME QInv, QInv', NEW th \in Threads, PublishData(th)
  PROVE  \E n \in m_dequeue_pos .. (m_enqueue_pos - 1) : Queue!Publish(n)
<1> DEFINE d == m_dequeue_pos
           e == m_enqueue_pos
           n == pos[th]
<1>1. /\ d \in Nat /\ e \in Nat /\ n \in Nat /\ m_enqueue_pos' = e /\ m_dequeue_pos' = d
      /\ pc' = [pc EXCEPT ![th] = "idle"] /\ pc \in [Threads -> PCs] /\ pc[th] = "publish"
      /\ sequence' = [sequence EXCEPT ![Slot(n)] = n + 1] /\ sequence \in [Slots -> Nat]
      /\ data' = data /\ pos' = pos /\ item' = item
  BY Zenon DEF QInv, TypeOK, PublishData, Goto
<1>2. n \in d .. (e - 1) /\ th \in Pushers
  BY <1>1 DEF QInv, OwnersOK, Pushers
<1>3. Poppers' = Poppers
  BY Zenon, <1>1 DEF Poppers
<1>4. QueueHeld' = QueueHeld
  BY Zenon, <1>1, <1>3 DEF QueueHeld, PoppedItem, Poppers
<1>5. \A p \in d .. (e - 1) : PushedItem(p)' = PushedItem(p)
  <2> SUFFICES ASSUME NEW p \in d .. (e - 1) PROVE PushedItem(p)' = PushedItem(p)
    OBVIOUS
  <2>1. \A u \in Threads : Storing(u, p)' <=> Storing(u, p)
    BY Zenon, <1>1 DEF Storing
  <2> QED
    BY Zenon, <1>1, <2>1, PushedItemKept
<1>6. \A p \in d .. (e - 1) : /\ p # n => sequence'[Slot(p)] = sequence[Slot(p)]
                             /\ sequence'[Slot(n)] = n + 1
  <2> SUFFICES ASSUME NEW p \in d .. (e - 1)
               PROVE  /\ p # n => sequence'[Slot(p)] = sequence[Slot(p)]
                      /\ sequence'[Slot(n)] = n + 1
    OBVIOUS
  <2>1. p \in Nat /\ Slot(p) \in Slots /\ Slot(n) \in Slots
    BY <1>1, SlotFactsHold DEF SlotFacts
  <2>2. p # n => Slot(p) # Slot(n)
    BY <1>1, <1>2, <2>1, SlotFactsHold DEF SlotFacts, QInv, WithinOneLap
  <2> QED
    BY Zenon, <1>1, <2>1, <2>2
<1>7. QueueCells' = [p \in d .. (e - 1) |->
                       IF p = n THEN [item |-> QueueCells[p].item, ready |-> TRUE] ELSE QueueCells[p]]
  <2>1. QueueCells' = [p \in d .. (e - 1) |-> [item |-> PushedItem(p)', ready |-> sequence'[Slot(p)] = p + 1]]
    BY Zenon, <1>1 DEF QueueCells
  <2>2. \A p \in d .. (e - 1) : QueueCells[p] = [item |-> PushedItem(p), ready |-> sequence[Slot(p)] = p + 1]
    BY Zenon DEF QueueCells
  <2>3. ASSUME NEW p \in d .. (e - 1)
        PROVE  [item |-> PushedItem(p)', ready |-> sequence'[Slot(p)] = p + 1] =
                 IF p = n THEN [item |-> QueueCells[p].item, ready |-> TRUE] ELSE QueueCells[p]
    <3>1. CASE p = n
      <4>1. QueueCells[p].item = PushedItem(p)
        <5>1. QueueCells[p] = [item |-> PushedItem(p), ready |-> sequence[Slot(p)] = p + 1]
          BY Zenon, <2>2
        <5> QED
          BY <5>1, CellFields, Zenon
      <4>2. (sequence'[Slot(p)] = p + 1) = TRUE
        BY Zenon, <1>6, <3>1
      <4> QED
        BY Zenon, <1>5, <3>1, <4>1, <4>2
    <3>2. CASE p # n
      BY Zenon, <1>5, <1>6, <2>2, <3>2
    <3> QED
      BY Zenon, <3>1, <3>2
  <2> QED
    BY Zenon, <2>1, <2>3
<1> QED
  BY Zenon, <1>1, <1>2, <1>4, <1>7 DEF Queue!Publish

\* Winning a position to pop at takes the oldest cell.
LEMMA PopWinsTakes ==
  ASSUME QInv, QInv', NEW th \in Threads, PopWins(th)
  PROVE  Queue!Take
<1> DEFINE d == m_dequeue_pos
           e == m_enqueue_pos
<1>1. /\ d \in Nat /\ e \in Nat /\ d = pos[th] /\ m_enqueue_pos' = e /\ m_dequeue_pos' = d + 1
      /\ pc' = [pc EXCEPT ![th] = "move"] /\ pc \in [Threads -> PCs] /\ pc[th] = "pop_cas"
      /\ sequence' = sequence /\ data' = data /\ pos' = pos /\ item' = item
  BY Zenon DEF QInv, TypeOK, PopWins, Goto
<1>2. d < e
  BY <1>1 DEF QInv, WithinOneLap
<1>3. sequence[Slot(d)] = d + 1
  BY Zenon, <1>1 DEF QInv, Looking
<1>4. Queue!Ready
  <2>1. QueueCells[d] = [item |-> PushedItem(d), ready |-> sequence[Slot(d)] = d + 1]
    BY <1>1, <1>2 DEF QueueCells
  <2>2. QueueCells[d].ready
    <3>1. (sequence[Slot(d)] = d + 1) = TRUE
      BY Zenon, <1>3
    <3>2. QueueCells[d] = [item |-> PushedItem(d), ready |-> TRUE]
      BY Zenon, <2>1, <3>1
    <3> QED
      BY <3>2
  <2> QED
    BY Zenon, <1>2, <2>2 DEF Queue!Ready
<1>5. \A p \in d .. (e - 1) : PushedItem(p)' = PushedItem(p)
  <2> SUFFICES ASSUME NEW p \in d .. (e - 1) PROVE PushedItem(p)' = PushedItem(p)
    OBVIOUS
  <2>1. \A u \in Threads : Storing(u, p)' <=> Storing(u, p)
    BY Zenon, <1>1 DEF Storing
  <2> QED
    BY Zenon, <1>1, <2>1, PushedItemKept
<1>6. QueueCells' = [p \in (d + 1) .. (e - 1) |-> QueueCells[p]]
  BY <1>1, <1>5 DEF QueueCells
<1>7. QueueCells[d].item = data[Slot(d)]
  <2>1. \A u \in Threads : ~ Storing(u, d)
    <3> SUFFICES ASSUME NEW u \in Threads, Storing(u, d) PROVE FALSE
      OBVIOUS
    <3> QED
      BY <1>1, <1>3 DEF Storing, QInv, OwnersOK, Pushers
  <2>2. PushedItem(d) = data[Slot(d)]
    BY Zenon, <2>1, PushedItemFacts
  <2> QED
    BY <1>1, <1>2, <2>2 DEF QueueCells
<1>8. Poppers' = Poppers \cup {th} /\ th \notin Poppers
  BY Zenon, <1>1 DEF Poppers
<1>9. /\ \A u \in Poppers : PoppedItem(u)' = PoppedItem(u)
      /\ PoppedItem(th)' = data[Slot(d)]
  BY Zenon, <1>1, <1>8 DEF PoppedItem, Poppers
<1>10. QueueHeld' = QueueHeld \cup {[pos |-> d, item |-> data[Slot(d)]]}
  BY Zenon, <1>1, <1>8, <1>9 DEF QueueHeld
<1> QED
  BY Zenon, <1>1, <1>4, <1>6, <1>7, <1>10 DEF Queue!Take

\* Storing the next lap's sequence number frees the popper's cell.
LEMMA FreeSlotFrees ==
  ASSUME QInv, QInv', NEW th \in Threads, FreeSlot(th)
  PROVE  \E h \in QueueHeld : Queue!Free(h)
<1> DEFINE d == m_dequeue_pos
           e == m_enqueue_pos
           h == [pos |-> pos[th], item |-> PoppedItem(th)]
<1>1. /\ d \in Nat /\ e \in Nat /\ pos[th] \in Nat /\ m_enqueue_pos' = e /\ m_dequeue_pos' = d
      /\ pc' = [pc EXCEPT ![th] = "idle"] /\ pc \in [Threads -> PCs] /\ pc[th] = "free"
      /\ sequence' = [sequence EXCEPT ![Slot(pos[th])] = pos[th] + Capacity] /\ sequence \in [Slots -> Nat]
      /\ data' = data /\ pos' = pos /\ item' = item
  BY Zenon DEF QInv, TypeOK, FreeSlot, Goto
<1>2. Poppers' = Poppers \ {th} /\ th \in Poppers
  BY Zenon, <1>1 DEF Poppers
<1>3. \A p \in d .. (e - 1) : PushedItem(p)' = PushedItem(p) /\ sequence'[Slot(p)] = sequence[Slot(p)]
  <2> SUFFICES ASSUME NEW p \in d .. (e - 1)
               PROVE  PushedItem(p)' = PushedItem(p) /\ sequence'[Slot(p)] = sequence[Slot(p)]
    OBVIOUS
  <2>1. \A u \in Threads : Storing(u, p)' <=> Storing(u, p)
    BY Zenon, <1>1 DEF Storing
  <2>2. Slot(p) # Slot(pos[th]) /\ Slot(p) \in Slots
    BY <1>1, <1>2, QueueAvoidsPoppers, SlotFactsHold DEF SlotFacts
  <2>3. PushedItem(p)' = PushedItem(p)
    BY Zenon, <1>1, <2>1, PushedItemKept
  <2> QED
    BY Zenon, <1>1, <2>2, <2>3
<1>4. QueueCells' = QueueCells
  BY Zenon, <1>1, <1>3 DEF QueueCells
<1>5. \A u \in Poppers : u # th => PoppedItem(u)' = PoppedItem(u) /\ pos[u] # pos[th]
  BY Zenon, <1>1, <1>2 DEF PoppedItem, Poppers, QInv, OwnersOK, Owners
<1>6. QueueHeld' = QueueHeld \ {h} /\ h \in QueueHeld
  <2>1. QueueHeld' = {[pos |-> pos[u], item |-> PoppedItem(u)] : u \in Poppers \ {th}}
    BY Zenon, <1>1, <1>2, <1>5 DEF QueueHeld
  <2>2. \A u \in Poppers \ {th} : [pos |-> pos[u], item |-> PoppedItem(u)] # h
    BY Zenon, <1>5
  <2>3. QueueHeld = {[pos |-> pos[u], item |-> PoppedItem(u)] : u \in Poppers \ {th}} \cup {h}
    BY Zenon, <1>2 DEF QueueHeld
  <2> QED
    BY Zenon, <2>1, <2>2, <2>3
<1> QED
  BY Zenon, <1>1, <1>4, <1>6 DEF Queue!Free

\* Every execution of the ring is one of the numbered queue: try_pop returns the messages
\* in the order of the positions try_push won, each once, whole and none lost.
THEOREM RingImplementsLogQueue == Spec => ImplementsLogQueue
<1>1. Init => Queue!QueueInit
  BY DEF Init, Queue!QueueInit, QueueCells, QueueHeld, Poppers
<1>2. ASSUME QInv, QInv', [Next]_vars PROVE [Queue!QueueNext]_(Queue!queueVars)
  <2>1. CASE UNCHANGED vars
    BY Zenon, <2>1 DEF vars, Queue!queueVars, QueueCells, QueueHeld, PushedItem, PoppedItem, Poppers
  <2>2. ASSUME NEW th \in Threads,
               \/ \E m \in Messages : StartPush(th, m)
               \/ LoadEnqueuePos(th) \/ PushFull(th) \/ PushFree(th) \/ PushStale(th) \/ PushLoses(th)
               \/ StoreData(th)
               \/ StartPop(th)
               \/ LoadDequeuePos(th) \/ PopEmpty(th) \/ PopReady(th) \/ PopStale(th) \/ PopLoses(th)
               \/ MoveData(th)
        PROVE  UNCHANGED Queue!queueVars
    BY Zenon, <1>2, <2>2, QuietStutters DEF Queue!queueVars
  <2>3. ASSUME NEW th \in Threads, PushWins(th) PROVE Queue!QueueNext
    BY Zenon, <1>2, <2>3, PushWinsClaims DEF Queue!QueueNext
  <2>4. ASSUME NEW th \in Threads, PublishData(th) PROVE Queue!QueueNext
    BY Zenon, <1>2, <2>4, PublishDataPublishes DEF Queue!QueueNext
  <2>5. ASSUME NEW th \in Threads, PopWins(th) PROVE Queue!QueueNext
    BY Zenon, <1>2, <2>5, PopWinsTakes DEF Queue!QueueNext
  <2>6. ASSUME NEW th \in Threads, FreeSlot(th) PROVE Queue!QueueNext
    BY Zenon, <1>2, <2>6, FreeSlotFrees DEF Queue!QueueNext
  <2> QED
    BY Zenon, <1>2, <2>1, <2>2, <2>3, <2>4, <2>5, <2>6 DEF Next, Push, Pop
<1> QED
  BY <1>1, <1>2, QueueInvariantHolds, PTL DEF Spec, ImplementsLogQueue, Queue!QueueSpec

\* The ring keeps the contract of a queue for any capacity, threads and number of laps.
THEOREM RingKeepsContract == Spec => QueueContract
  BY Zenon, RingImplementsLogQueue, RefusalsHaveAReason DEF QueueContract
=============================================================================
