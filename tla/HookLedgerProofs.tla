--------------------------- MODULE HookLedgerProofs ---------------------------
(***************************************************************************)
(* Proofs about HookLedger, for any number of targets, threads and hooks.  *)
(*                                                                         *)
(* The argument: a thread that holds the slot of a target is at the front  *)
(* of its queue, so there is at most one.  Reservations of one target get  *)
(* their turn in the order of their ids, so a hook is created above all    *)
(* that are allocated on its target; a teardown that found nothing newer   *)
(* stays topmost while it holds the slot.  Therefore the armed hooks of a  *)
(* target form a chain, newest first, hanging from its prologue.           *)
(***************************************************************************)
EXTENDS HookLedger, TLAPS

Installing == {"reserving", "reserved", "saving", "created", "unwound", "unreserving"}
Closing    == {"closing", "leaking", "restoring", "freeing", "releasing"}
\* States in which the hook of a thread has, respectively lacks, a trampoline.
Allocated   == {"saving", "created", "closing", "leaking", "restoring", "freeing"}
Unallocated == {"reserving", "reserved", "unwound", "releasing", "unreserving"}
\* States in which no newer hook of the target may be allocated.
OnTop == {"reserving", "reserved", "saving", "created", "restoring"}

CurOK ==
  \A th \in Threads :
    /\ pc[th] # "idle" => /\ cur[th] \in Ids
                          /\ cur[th] < m_next_id
                          /\ cur[th] \in order[target[cur[th]]]
    /\ pc[th] \in Installing => handle[cur[th]] = "none"
    /\ pc[th] \in Closing => handle[cur[th]] = "closing"
    /\ pc[th] \in Allocated => cur[th] \in trampolines
    /\ pc[th] \in Unallocated => cur[th] \notin trampolines
    /\ pc[th] \in {"saving", "freeing"} => cur[th] \notin armed

Distinct ==
  \A th1, th2 \in Threads : pc[th1] # "idle" /\ pc[th2] # "idle" /\ cur[th1] = cur[th2] => th1 = th2

Fresh ==
  \A id \in Ids : id >= m_next_id => /\ handle[id] = "none"
                                     /\ id \notin trampolines
                                     /\ id \notin strict
                                     /\ \A t \in Targets : id \notin order[t]

OrderTarget == \A t \in Targets : \A id \in order[t] : target[id] = t

HandleOK ==
  /\ \A id \in Ids : handle[id] \in {"live", "leaked"} => id \in trampolines
  /\ \A id \in trampolines : id \in order[target[id]]

Slot == \A th \in Threads : pc[th] \in Holding => IsFront(target[cur[th]], cur[th])

InQueue(s, id) == \E i \in 1 .. Len(s) : s[i] = id

Queued ==
  \A th \in Threads : pc[th] = "reserving" => InQueue(pending[target[cur[th]]], cur[th])

QueueOrder ==
  \A t \in Targets :
    /\ \A i \in 1 .. Len(pending[t]) : pending[t][i] < m_next_id
    /\ \A i, j \in 1 .. Len(pending[t]) :
         /\ i < j
         /\ handle[pending[t][i]] = "none"
         /\ handle[pending[t][j]] = "none"
         => pending[t][i] < pending[t][j]

Topmost ==
  \A th \in Threads : pc[th] \in OnTop =>
    \A n \in trampolines : target[n] = target[cur[th]] => n <= cur[th]

\* v is the greatest of the set S of hooks, or Pristine if there is none.
GreatestOf(v, S) == \/ v = Pristine /\ S = {}
                    \/ v \in S /\ \A a \in S : a <= v

Chain ==
  /\ \A t \in Targets : GreatestOf(prologue[t], {a \in armed : target[a] = t})
  /\ \A id \in trampolines : GreatestOf(saved[id], {a \in armed : target[a] = target[id] /\ a < id})

AllReached == \A id \in armed : Reached(target[id], id)

StrictFirst ==
  \A id \in strict : \A n \in order[target[id]] : id \in order[target[id]] => id <= n

Control == CurOK /\ Distinct /\ Fresh /\ OrderTarget /\ HandleOK /\ StrictFirst
Queues  == Slot /\ Queued /\ QueueOrder
Code    == Topmost /\ Chain /\ AllReached

IInv == TypeOK /\ Control /\ Queues /\ Code

-----------------------------------------------------------------------------
(* Removing an id from a queue. *)

\* What is left of s in r once e is taken out: the front unless it was e, every other
\* element, all in their order.
IsErased(s, e, r) ==
  /\ r \in Seq(Ids)
  /\ Len(s) > 0 /\ s[1] # e => Len(r) > 0 /\ r[1] = s[1]
  /\ \A i \in 1 .. Len(s) : s[i] # e => \E j \in 1 .. Len(r) : r[j] = s[i]
  /\ \A i \in 1 .. Len(r) : \E k \in 1 .. Len(s) : s[k] = r[i]
  /\ \A i, j \in 1 .. Len(r) : i < j =>
       \E k, l \in 1 .. Len(s) : k < l /\ s[k] = r[i] /\ s[l] = r[j]

\* Erase, which stands for std::find and vector::erase on a queue of the ledger, removes
\* its argument and disturbs nothing else.
LEMMA EraseFacts == \A s \in Seq(Ids) : \A e : IsErased(s, e, Erase(s, e))
<1> SUFFICES ASSUME NEW s \in Seq(Ids), NEW e
             PROVE  IsErased(s, e, Erase(s, e))
  OBVIOUS
<1>1. CASE ~ \E i \in 1 .. Len(s) : s[i] = e
  BY Zenon, <1>1 DEF Erase, IsErased
<1>2. CASE \E i \in 1 .. Len(s) : s[i] = e
  <2> DEFINE k == CHOOSE i \in 1 .. Len(s) : s[i] = e
             r == Erase(s, e)
  <2>1. k \in 1 .. Len(s) /\ s[k] = e
    BY Zenon, <1>2
  <2>2. r = [i \in 1 .. (Len(s) - 1) |-> IF i < k THEN s[i] ELSE s[i + 1]]
    BY Zenon, <1>2 DEF Erase
  <2> HIDE DEF k, r
  <2>3. r \in Seq(Ids) /\ Len(r) = Len(s) - 1
    BY <2>1, <2>2
  <2>4. \A i \in 1 .. Len(r) : r[i] = IF i < k THEN s[i] ELSE s[i + 1]
    BY Zenon, <2>2, <2>3
  <2>5. Len(s) > 0 /\ s[1] # e => Len(r) > 0 /\ r[1] = s[1]
    BY <2>1, <2>3, <2>4
  <2>6. ASSUME NEW i \in 1 .. Len(s), s[i] # e
        PROVE  \E j \in 1 .. Len(r) : r[j] = s[i]
    <3>1. CASE i < k
      BY <2>1, <2>3, <2>4, <3>1
    <3>2. CASE i > k
      BY <2>1, <2>3, <2>4, <3>2, i - 1 \in 1 .. Len(r), r[i - 1] = s[i]
    <3> QED
      BY <2>1, <2>6, <3>1, <3>2
  <2>7. \A i \in 1 .. Len(r) : \E l \in 1 .. Len(s) : s[l] = r[i]
    BY <2>1, <2>3, <2>4
  <2>8. ASSUME NEW i \in 1 .. Len(r), NEW j \in 1 .. Len(r), i < j
        PROVE  \E l, m \in 1 .. Len(s) : l < m /\ s[l] = r[i] /\ s[m] = r[j]
    <3>1. CASE i < k /\ j < k
      BY <2>1, <2>3, <2>4, <2>8, <3>1, r[i] = s[i], r[j] = s[j]
    <3>2. CASE i < k /\ j >= k
      BY <2>1, <2>3, <2>4, <2>8, <3>2, r[i] = s[i], r[j] = s[j + 1], j + 1 \in 1 .. Len(s)
    <3>3. CASE i >= k
      BY <2>1, <2>3, <2>4, <2>8, <3>3, r[i] = s[i + 1], r[j] = s[j + 1],
         i + 1 \in 1 .. Len(s), j + 1 \in 1 .. Len(s)
    <3> QED
      BY <2>1, <2>8, <3>1, <3>2, <3>3
  <2> QED
    BY Zenon, <2>3, <2>5, <2>6, <2>7, <2>8 DEF r, IsErased
<1> QED
  BY Zenon, <1>1, <1>2

-----------------------------------------------------------------------------
(* What a step does to the queues. *)

\* A thread at work never works on a hook some owner holds or has given up.
LEMMA BusyHandle ==
  ASSUME TypeOK, CurOK
  PROVE  \A th \in Threads : pc[th] # "idle" => /\ cur[th] \in Ids
                                                /\ target[cur[th]] \in Targets
                                                /\ handle[cur[th]] \in {"none", "closing"}
  BY Zenon DEF TypeOK, CurOK, PCs, Waiting, Holding, Installing, Closing

\* A step that touches no queue keeps Queues if nobody starts to wait and whoever enters
\* the slot is at the front.
LEMMA QueuesUntouched ==
  ASSUME TypeOK, CurOK, Queues, pending' = pending, m_next_id' \in Nat, m_next_id' >= m_next_id,
         \A id \in Ids : handle'[id] = "none" => handle[id] = "none",
         \A th \in Threads :
           /\ pc'[th] \in Holding => /\ target'[cur'[th]] = target[cur[th]] /\ cur'[th] = cur[th]
                                     /\ pc[th] \in Holding \/ IsFront(target[cur[th]], cur[th])
           /\ pc'[th] = "reserving" => /\ target'[cur'[th]] = target[cur[th]] /\ cur'[th] = cur[th]
                                       /\ pc[th] = "reserving"
  PROVE  Queues'
<1>1. Slot'
  BY Zenon DEF Queues, Slot, IsFront
<1>2. Queued'
  BY Zenon DEF Queues, Queued
<1>3. QueueOrder'
  <2>1. \A t \in Targets : \A i \in 1 .. Len(pending[t]) : pending[t][i] \in Ids
    BY DEF TypeOK
  <2>2. ASSUME NEW t \in Targets, NEW i \in 1 .. Len(pending[t])
        PROVE  pending[t][i] < m_next_id'
    <3>1. pending[t][i] \in Int /\ m_next_id \in Int /\ m_next_id' \in Int
      BY <2>1, ConstantsAssumption DEF TypeOK, Ids
    <3>2. pending[t][i] < m_next_id
      BY Zenon DEF Queues, QueueOrder
    <3> QED
      BY <3>1, <3>2
  <2>3. ASSUME NEW t \in Targets, NEW i \in 1 .. Len(pending[t]), NEW j \in 1 .. Len(pending[t]),
               i < j, handle'[pending[t][i]] = "none", handle'[pending[t][j]] = "none"
        PROVE  pending[t][i] < pending[t][j]
    BY Zenon, <2>1, <2>3 DEF Queues, QueueOrder
  <2> QED
    BY Zenon, <2>2, <2>3 DEF QueueOrder
<1> QED
  BY Zenon, <1>1, <1>2, <1>3 DEF Queues

\* Taking one id out of a queue keeps Queues: no other thread loses its place.
LEMMA QueuesErased ==
  ASSUME TypeOK, CurOK, Queues, NEW t \in Targets, NEW id \in Ids, NEW q,
         pending' = [pending EXCEPT ![t] = q],
         \/ q = Erase(pending[t], id)
         \/ q = <<>> /\ order[t] = {id},
         m_next_id' = m_next_id, target' = target,
         \A i \in Ids : handle'[i] = "none" => handle[i] = "none",
         \A th \in Threads : pc'[th] \in Holding \cup {"reserving"} =>
           pc'[th] = pc[th] /\ cur'[th] = cur[th] /\ cur[th] # id
  PROVE  Queues' /\ pending' \in [Targets -> Seq(Ids)]
<1> DEFINE s == pending[t]
<1>1. s \in Seq(Ids) /\ pending \in [Targets -> Seq(Ids)]
  BY Zenon DEF TypeOK
<1>2. q = Erase(s, id) => IsErased(s, id, q)
  BY Zenon, <1>1, EraseFacts
<1>3. q = Erase(s, id) \/ q = <<>>
  OBVIOUS
<1> HIDE DEF s
<1>4. /\ q \in Seq(Ids)
      /\ \A i \in 1 .. Len(q) : \E k \in 1 .. Len(s) : s[k] = q[i]
      /\ \A i, j \in 1 .. Len(q) : i < j =>
           \E k, l \in 1 .. Len(s) : k < l /\ s[k] = q[i] /\ s[l] = q[j]
  <2>1. CASE q = Erase(s, id)
    BY Zenon, <1>2, <2>1 DEF IsErased
  <2>2. CASE q = <<>>
    <3>1. q \in Seq(Ids) /\ Len(q) = 0
      BY <2>2
    <3> QED
      BY <3>1
  <2> QED
    BY Zenon, <1>3, <2>1, <2>2
<1> USE DEF s
<1>5. ASSUME NEW th \in Threads, pc[th] # "idle", cur[th] # id, target[cur[th]] = t
      PROVE  q = Erase(s, id)
  BY Zenon, <1>5 DEF CurOK
<1>6. Slot'
  <2> SUFFICES ASSUME NEW th \in Threads, pc'[th] \in Holding
               PROVE  IsFront(target[cur[th]], cur[th])'
    BY Zenon DEF Slot
  <2>1. /\ pc[th] \in Holding /\ cur'[th] = cur[th] /\ cur[th] # id
        /\ IsFront(target[cur[th]], cur[th]) /\ target[cur[th]] \in Targets
    BY Zenon, BusyHandle DEF Queues, Slot, Holding
  <2>2. CASE target[cur[th]] = t
    <3>1. q = Erase(s, id)
      BY Zenon, <1>5, <2>1, <2>2 DEF Holding
    <3>2. Len(s) > 0 /\ s[1] = cur[th]
      BY Zenon, <2>1, <2>2 DEF IsFront
    <3> QED
      BY Zenon, <1>1, <1>2, <2>1, <2>2, <3>1, <3>2 DEF IsFront, IsErased
  <2> QED
    BY Zenon, <1>1, <2>1, <2>2 DEF IsFront
<1>7. Queued'
  <2> SUFFICES ASSUME NEW th \in Threads, pc'[th] = "reserving"
               PROVE  InQueue(pending'[target[cur[th]]], cur[th])
    BY Zenon DEF Queued
  <2>1. /\ pc[th] = "reserving" /\ cur'[th] = cur[th] /\ cur[th] # id
        /\ InQueue(pending[target[cur[th]]], cur[th]) /\ target[cur[th]] \in Targets
    BY Zenon, BusyHandle DEF Queues, Queued
  <2>2. CASE target[cur[th]] = t
    <3>1. q = Erase(s, id)
      BY Zenon, <1>5, <2>1, <2>2
    <3>2. PICK i \in 1 .. Len(s) : s[i] = cur[th]
      BY Zenon, <2>1, <2>2 DEF InQueue
    <3>3. \E j \in 1 .. Len(q) : q[j] = s[i]
      BY Zenon, <1>2, <2>1, <3>1, <3>2 DEF IsErased
    <3> QED
      BY Zenon, <1>1, <2>1, <2>2, <3>2, <3>3 DEF InQueue
  <2> QED
    BY Zenon, <1>1, <2>1, <2>2
<1>8. QueueOrder'
  <2> SUFFICES ASSUME NEW u \in Targets
               PROVE  /\ \A i \in 1 .. Len(pending'[u]) : pending'[u][i] < m_next_id
                      /\ \A i, j \in 1 .. Len(pending'[u]) :
                           /\ i < j
                           /\ handle'[pending'[u][i]] = "none"
                           /\ handle'[pending'[u][j]] = "none"
                           => pending'[u][i] < pending'[u][j]
    BY Zenon DEF QueueOrder
  <2>1. CASE u = t
    <3>1. pending'[u] = q
      BY Zenon, <1>1, <2>1
    <3>2. \A i \in 1 .. Len(s) : s[i] < m_next_id /\ s[i] \in Ids
      BY <1>1 DEF Queues, QueueOrder
    <3>3. \A i, j \in 1 .. Len(s) :
            i < j /\ handle[s[i]] = "none" /\ handle[s[j]] = "none" => s[i] < s[j]
      BY Zenon DEF Queues, QueueOrder
    <3>4. ASSUME NEW i \in 1 .. Len(q), NEW j \in 1 .. Len(q), i < j,
                 handle'[q[i]] = "none", handle'[q[j]] = "none"
          PROVE  q[i] < q[j]
      <4>1. PICK k \in 1 .. Len(s), l \in 1 .. Len(s) : k < l /\ s[k] = q[i] /\ s[l] = q[j]
        BY Zenon, <1>4, <3>4
      <4> QED
        BY Zenon, <3>2, <3>3, <3>4, <4>1
    <3>5. \A i \in 1 .. Len(q) : q[i] < m_next_id
      BY Zenon, <1>4, <3>2
    <3> QED
      BY <3>1, <3>4, <3>5
  <2>2. CASE u # t
    <3>1. pending'[u] = pending[u] /\ \A i \in 1 .. Len(pending[u]) : pending[u][i] \in Ids
      BY <1>1, <2>2
    <3>2. \A i \in 1 .. Len(pending[u]) : pending[u][i] < m_next_id
      BY Zenon DEF Queues, QueueOrder
    <3>3. \A i, j \in 1 .. Len(pending[u]) :
            /\ i < j /\ handle[pending[u][i]] = "none" /\ handle[pending[u][j]] = "none"
            => pending[u][i] < pending[u][j]
      BY Zenon DEF Queues, QueueOrder
    <3> QED
      BY <3>1, <3>2, <3>3
  <2> QED
    BY Zenon, <2>1, <2>2
<1> QED
  BY Zenon, <1>1, <1>4, <1>6, <1>7, <1>8 DEF Queues

IsAppended(s, e, q) == /\ q \in Seq(Ids) /\ Len(q) = Len(s) + 1 /\ q[Len(q)] = e
                       /\ \A i \in 1 .. Len(s) : q[i] = s[i]

\* Nobody but a new reservation id of t starts to wait, nobody enters a slot.
Joins(t, id) ==
  \A th \in Threads :
    /\ pc'[th] \in Holding => /\ target'[cur'[th]] = target[cur[th]] /\ cur'[th] = cur[th]
                              /\ pc[th] \in Holding
    /\ pc'[th] = "reserving" =>
         \/ /\ target'[cur'[th]] = target[cur[th]] /\ cur'[th] = cur[th]
            /\ pc[th] = "reserving"
         \/ target'[cur'[th]] = t /\ cur'[th] = id

\* Append, which stands for vector::push_back on a queue of the ledger.
LEMMA AppendFacts == \A s \in Seq(Ids), e \in Ids : IsAppended(s, e, Append(s, e))
  BY DEF IsAppended

\* Joining the end of a queue keeps Queues: an installer joins with the newest id, a
\* teardown with that of a hook which is no longer being installed.
LEMMA QueuesAppended ==
  ASSUME TypeOK, CurOK, Queues, NEW t \in Targets, NEW id \in Ids, NEW q,
         IsAppended(pending[t], id, q), pending' = [pending EXCEPT ![t] = q],
         m_next_id' \in Nat, m_next_id <= m_next_id', id < m_next_id',
         handle'[id] = "none" => id = m_next_id,
         \A i \in Ids : handle'[i] = "none" => handle[i] = "none",
         Joins(t, id)
  PROVE  Queues' /\ pending' \in [Targets -> Seq(Ids)]
<1> DEFINE s == pending[t]
<1>1. s \in Seq(Ids) /\ pending \in [Targets -> Seq(Ids)] /\ m_next_id \in Nat
  BY ConstantsAssumption DEF TypeOK
<1>2. /\ q \in Seq(Ids) /\ Len(q) = Len(s) + 1 /\ q[Len(q)] = id
      /\ \A i \in 1 .. Len(s) : q[i] = s[i]
  BY Zenon DEF IsAppended
<1>3. Slot'
  <2> SUFFICES ASSUME NEW th \in Threads, pc'[th] \in Holding
               PROVE  IsFront(target[cur[th]], cur[th])'
    BY Zenon DEF Slot
  <2>1. /\ pc[th] \in Holding /\ cur'[th] = cur[th] /\ target'[cur'[th]] = target[cur[th]]
        /\ IsFront(target[cur[th]], cur[th]) /\ target[cur[th]] \in Targets
    BY Zenon, BusyHandle DEF Queues, Slot, Holding, Joins
  <2> QED
    BY <1>1, <1>2, <2>1 DEF IsFront
<1>4. Queued'
  <2> SUFFICES ASSUME NEW th \in Threads, pc'[th] = "reserving"
               PROVE  InQueue(pending'[target'[cur'[th]]], cur'[th])
    BY Zenon DEF Queued
  <2>1. CASE target'[cur'[th]] = t /\ cur'[th] = id
    BY <1>1, <1>2, <2>1, Len(q) \in 1 .. Len(q) DEF InQueue
  <2>2. CASE target'[cur'[th]] = target[cur[th]] /\ cur'[th] = cur[th] /\ pc[th] = "reserving"
    <3>1. InQueue(pending[target[cur[th]]], cur[th]) /\ target[cur[th]] \in Targets
      BY Zenon, <2>2, BusyHandle DEF Queues, Queued
    <3>2. CASE target[cur[th]] = t
      <4>1. PICK i \in 1 .. Len(s) : s[i] = cur[th]
        BY Zenon, <3>1, <3>2 DEF InQueue
      <4>2. i \in 1 .. Len(q) /\ q[i] = cur[th]
        BY <1>1, <1>2, <4>1
      <4> QED
        BY Zenon, <1>1, <2>2, <3>2, <4>2 DEF InQueue
    <3> QED
      BY Zenon, <1>1, <2>2, <3>1, <3>2
  <2> QED
    BY Zenon, <2>1, <2>2 DEF Joins
<1>5. QueueOrder'
  <2> SUFFICES ASSUME NEW u \in Targets
               PROVE  /\ \A i \in 1 .. Len(pending'[u]) : pending'[u][i] < m_next_id'
                      /\ \A i, j \in 1 .. Len(pending'[u]) :
                           /\ i < j
                           /\ handle'[pending'[u][i]] = "none"
                           /\ handle'[pending'[u][j]] = "none"
                           => pending'[u][i] < pending'[u][j]
    BY Zenon DEF QueueOrder
  <2>1. /\ \A i \in 1 .. Len(pending[u]) : pending[u][i] < m_next_id /\ pending[u][i] \in Ids
        /\ \A i, j \in 1 .. Len(pending[u]) :
             i < j /\ handle[pending[u][i]] = "none" /\ handle[pending[u][j]] = "none"
             => pending[u][i] < pending[u][j]
    <3>1. \A i \in 1 .. Len(pending[u]) : pending[u][i] \in Ids
      BY <1>1
    <3> QED
      BY Zenon, <3>1 DEF Queues, QueueOrder
  <2>2. CASE u = t
    <3>1. pending'[u] = q
      BY Zenon, <1>1, <2>2
    <3>2. \A i \in 1 .. Len(q) : \/ i \in 1 .. Len(s) /\ q[i] = s[i]
                                 \/ i = Len(q) /\ q[i] = id
      BY <1>1, <1>2
    <3>3. \A i \in 1 .. Len(q) : q[i] < m_next_id'
      BY <1>1, <2>1, <2>2, <3>2 DEF Ids
    <3>4. ASSUME NEW i \in 1 .. Len(q), NEW j \in 1 .. Len(q), i < j,
                 handle'[q[i]] = "none", handle'[q[j]] = "none"
          PROVE  q[i] < q[j]
      <4>1. i \in 1 .. Len(s) /\ q[i] = s[i]
        BY <1>1, <1>2, <3>4
      <4>2. CASE j \in 1 .. Len(s) /\ q[j] = s[j]
        BY Zenon, <2>1, <2>2, <3>4, <4>1, <4>2
      <4>3. CASE q[j] = id
        BY Zenon, <1>1, <2>1, <2>2, <3>4, <4>1, <4>3
      <4> QED
        BY Zenon, <3>2, <4>2, <4>3
    <3> QED
      BY Zenon, <3>1, <3>3, <3>4
  <2>3. CASE u # t
    <3>1. pending'[u] = pending[u]
      BY Zenon, <1>1, <2>3
    <3>2. \A i \in 1 .. Len(pending[u]) : pending[u][i] < m_next_id'
      BY <1>1, <2>1 DEF Ids
    <3> QED
      BY <2>1, <3>1, <3>2
  <2> QED
    BY Zenon, <2>2, <2>3
<1> QED
  BY Zenon, <1>1, <1>2, <1>3, <1>4, <1>5 DEF Queues

-----------------------------------------------------------------------------
(* What a step does to the code bytes. *)

USE DEF Installing, Closing, Allocated, Unallocated, OnTop, Holding, Waiting, Ids, Pristine

\* A step that patches nothing keeps the chain, provided no thread claims to be on top
\* that was not before.
LEMMA CodeUntouched ==
  ASSUME TypeOK, Code, UNCHANGED <<prologue, saved, armed>>, trampolines' \subseteq trampolines,
         \A id \in trampolines : target'[id] = target[id],
         \A th \in Threads : pc'[th] \in OnTop =>
           \/ pc[th] \in OnTop /\ cur'[th] = cur[th] /\ target'[cur'[th]] = target[cur[th]]
           \/ \A n \in trampolines : target[n] = target'[cur'[th]] => n <= cur'[th]
  PROVE  Code'
<1>1. armed \subseteq trampolines
  BY Zenon DEF TypeOK
<1>2. Topmost'
  BY Zenon DEF Code, Topmost
<1>3. Chain'
  <2>1. \A t \in Targets : {a \in armed' : target'[a] = t} = {a \in armed : target[a] = t}
    BY Zenon, <1>1
  <2>2. \A id \in trampolines : {a \in armed' : target'[a] = target'[id] /\ a < id}
                              = {a \in armed : target[a] = target[id] /\ a < id}
    BY Zenon, <1>1
  <2> QED
    BY Zenon, <2>1, <2>2 DEF Code, Chain
<1>4. AllReached'
  BY <1>1 DEF Code, AllReached, Reached
<1> QED
  BY Zenon, <1>2, <1>3, <1>4 DEF Code

\* Enabling the topmost hook of a target puts it at the head of the chain.
LEMMA ArmTop ==
  ASSUME TypeOK, Code, NEW id \in trampolines, BackendEnable(id),
         UNCHANGED <<saved, trampolines, target>>,
         \A n \in trampolines : target[n] = target[id] => n <= id
  PROVE  Chain' /\ AllReached'
<1> DEFINE t == target[id]
           S(u) == {a \in armed : target[a] = u}
           L(n) == {a \in armed : target[a] = target[n] /\ a < n}
<1>1. armed \subseteq trampolines /\ trampolines \subseteq Ids /\ t \in Targets
  BY Zenon DEF TypeOK
<1>2. CASE id \in armed
  BY <1>2, SMTT(20) DEF BackendEnable, Code, Chain, AllReached, Reached
<1>3. CASE id \notin armed
  <2>1. armed' = armed \cup {id} /\ prologue' = [prologue EXCEPT ![t] = id]
    BY Zenon, <1>3 DEF BackendEnable
  <2>2. ASSUME NEW u \in Targets
        PROVE  GreatestOf(prologue'[u], {a \in armed' : target'[a] = u})
    <3>1. CASE u = t
      BY Zenon, <1>1, <2>1, <3>1 DEF GreatestOf, TypeOK
    <3>2. CASE u # t
      <4>1. {a \in armed' : target'[a] = u} = S(u) /\ prologue'[u] = prologue[u]
        BY Zenon, <2>1, <3>2 DEF TypeOK
      <4> QED
        BY Zenon, <4>1 DEF Code, Chain
    <3> QED
      BY Zenon, <3>1, <3>2
  <2>3. ASSUME NEW n \in trampolines
        PROVE  GreatestOf(saved[n], {a \in armed' : target'[a] = target'[n] /\ a < n})
    <3>1. {a \in armed' : target'[a] = target'[n] /\ a < n} = L(n)
      BY <1>1, <2>1
    <3> QED
      BY Zenon, <3>1 DEF Code, Chain
  <2>4. S(t) = L(id)
    <3>1. \A a \in armed : target[a] = t => a < id
      BY <1>1, <1>3
    <3> QED
      BY Zenon, <3>1
  <2>5. saved[id] = prologue[t]
    <3>1. GreatestOf(saved[id], S(t)) /\ GreatestOf(prologue[t], S(t))
      BY Zenon, <1>1, <2>4 DEF Code, Chain
    <3>2. \A a \in S(t) : a \in Nat
      BY <1>1
    <3> QED
      BY <3>1, <3>2 DEF GreatestOf
  <2>6. ASSUME NEW n \in armed'
        PROVE  Reached(target[n], n)'
    <3>1. CASE n = id
      BY Zenon, <1>1, <2>1, <3>1 DEF Reached, TypeOK
    <3>2. CASE n # id /\ prologue[target[n]] # n
      BY Zenon, <2>1, <2>6, <3>2 DEF Code, AllReached, Reached
    <3>3. CASE n # id /\ prologue[target[n]] = n /\ target[n] = t
      BY <1>1, <2>1, <2>5, <2>6, <3>3 DEF Reached
    <3>4. CASE n # id /\ prologue[target[n]] = n /\ target[n] # t
      BY Zenon, <1>1, <2>1, <2>6, <3>4 DEF Reached, TypeOK
    <3> QED
      BY Zenon, <3>1, <3>2, <3>3, <3>4
  <2> QED
    BY Zenon, <2>2, <2>3, <2>6 DEF Chain, AllReached
<1> QED
  BY Zenon, <1>2, <1>3

\* Disabling the topmost hook of a target takes the head off the chain.
LEMMA DisarmTop ==
  ASSUME TypeOK, Code, NEW id \in trampolines, BackendDisable(id), UNCHANGED <<saved, target>>,
         trampolines' \subseteq trampolines,
         \A n \in trampolines : target[n] = target[id] => n <= id
  PROVE  Chain' /\ AllReached'
<1> DEFINE t == target[id]
           S(u) == {a \in armed : target[a] = u}
           L(n) == {a \in armed : target[a] = target[n] /\ a < n}
<1>1. armed \subseteq trampolines /\ trampolines \subseteq Ids /\ t \in Targets
  BY Zenon DEF TypeOK
<1>2. CASE id \notin armed
  BY ZenonT(40), <1>2 DEF BackendDisable, Code, Chain, AllReached, Reached
<1>3. CASE id \in armed
  <2>1. armed' = armed \ {id} /\ prologue' = [prologue EXCEPT ![t] = saved[id]]
    BY Zenon, <1>3 DEF BackendDisable
  <2>2. prologue[t] = id
    <3>1. GreatestOf(prologue[t], S(t)) /\ id \in S(t) /\ \A a \in S(t) : a \in Nat /\ a <= id
      BY <1>1, <1>3 DEF Code, Chain
    <3> QED
      BY <3>1 DEF GreatestOf
  <2>3. ASSUME NEW u \in Targets
        PROVE  GreatestOf(prologue'[u], {a \in armed' : target'[a] = u})
    <3>1. CASE u = t
      <4>1. {a \in armed' : target'[a] = u} = L(id)
        <5>1. \A a \in armed : target[a] = t /\ a # id => a < id
          BY <1>1
        <5>2. ~ (id < id)
          BY <1>1
        <5> QED
          BY Zenon, <2>1, <3>1, <5>1, <5>2
      <4>2. prologue'[u] = saved[id]
        BY Zenon, <2>1, <3>1 DEF TypeOK
      <4> QED
        BY Zenon, <4>1, <4>2 DEF Code, Chain
    <3>2. CASE u # t
      <4>1. {a \in armed' : target'[a] = u} = S(u) /\ prologue'[u] = prologue[u]
        BY Zenon, <2>1, <3>2 DEF TypeOK
      <4> QED
        BY Zenon, <4>1 DEF Code, Chain
    <3> QED
      BY Zenon, <3>1, <3>2
  <2>4. ASSUME NEW n \in trampolines
        PROVE  GreatestOf(saved[n], {a \in armed' : target'[a] = target'[n] /\ a < n})
    <3>1. {a \in armed' : target'[a] = target'[n] /\ a < n} = L(n)
      BY <1>1, <2>1
    <3> QED
      BY Zenon, <3>1 DEF Code, Chain
  <2>5. ASSUME NEW n \in armed'
        PROVE  Reached(target[n], n)'
    <3>1. n \in armed /\ n # id /\ target[n] \in Targets
      BY Zenon, <2>1, <2>5 DEF TypeOK
    <3>2. CASE prologue[target[n]] = n
      BY <2>1, <2>2, <3>1, <3>2 DEF Reached
    <3>3. CASE \E m \in armed : m > n /\ target[m] = target[n] /\ saved[m] = n
      <4>1. PICK m \in armed : m > n /\ target[m] = target[n] /\ saved[m] = n
        BY Zenon, <3>3
      <4>2. CASE m = id
        BY Zenon, <2>1, <3>1, <4>1, <4>2 DEF Reached, TypeOK
      <4>3. CASE m # id
        BY Zenon, <2>1, <4>1, <4>3 DEF Reached
      <4> QED
        BY Zenon, <4>2, <4>3
    <3> QED
      BY Zenon, <3>1, <3>2, <3>3 DEF Code, AllReached, Reached
  <2> QED
    BY Zenon, <2>3, <2>4, <2>5 DEF Chain, AllReached
<1> QED
  BY Zenon, <1>2, <1>3

-----------------------------------------------------------------------------
(* Every action keeps the invariant. *)

\* A reservation joins the order and the queue of its target.
LEMMA ReserveStep ==
  ASSUME IInv, NEW th \in Threads, NEW t \in Targets, NEW r \in BOOLEAN, Reserve(th, t, r)
  PROVE  IInv'
<1>1. TypeOK /\ Control /\ CurOK /\ Queues /\ Code
  BY Zenon DEF IInv, Control
<1>2. Queues' /\ pending' \in [Targets -> Seq(Ids)]
  <2>1. m_next_id \in Ids /\ t \in Targets
    BY <1>1, ConstantsAssumption DEF Reserve, Goto, TypeOK
  <2> DEFINE q == Append(pending[t], m_next_id)
  <2>2. IsAppended(pending[t], m_next_id, q)
    BY Zenon, <1>1, <2>1, AppendFacts DEF TypeOK
  <2>3. pending' = [pending EXCEPT ![t] = q]
    BY Zenon DEF Reserve, Goto
  <2>4. m_next_id' \in Nat /\ m_next_id <= m_next_id' /\ m_next_id < m_next_id'
    BY <1>1, ConstantsAssumption DEF Reserve, Goto, TypeOK, Control, Fresh
  <2>5. handle'[m_next_id] = "none" => m_next_id = m_next_id
    BY Zenon, <1>1 DEF Reserve, Goto, TypeOK
  <2>6. \A i \in Ids : handle'[i] = "none" => handle[i] = "none"
    BY Zenon, <1>1 DEF Reserve, Goto, TypeOK
  <2>7. Joins(t, m_next_id)
    BY <1>1, <2>1 DEF Reserve, Goto, TypeOK, CurOK, Joins
  <2> HIDE DEF q
  <2> QED
    BY Zenon, <1>1, <2>1, <2>2, <2>3, <2>4, <2>5, <2>6, <2>7, QueuesAppended
<1>3. TypeOK'
  <2>1. m_next_id \in Ids
    BY <1>1, BusyHandle, ConstantsAssumption DEF Reserve, TypeOK
  <2>2. /\ m_next_id' \in 1 .. (MaxId + 1) /\ order' \in [Targets -> SUBSET Ids]
        /\ pending' \in [Targets -> Seq(Ids)]
    BY <1>1, <1>2, <2>1, ConstantsAssumption DEF Reserve, Goto, codeVars, TypeOK
  <2>3. /\ prologue' \in [Targets -> Ids \cup {Pristine}] /\ saved' \in [Ids -> Ids \cup {Pristine}]
        /\ trampolines' \in SUBSET Ids /\ armed' \in SUBSET trampolines'
    BY Zenon, <1>1, <2>1 DEF Reserve, Goto, codeVars, TypeOK, CurOK
  <2>4. /\ handle' \in [Ids -> HandleStates] /\ target' \in [Ids -> Targets]
        /\ strict' \in SUBSET Ids
    BY Zenon, <1>1, <2>1 DEF Reserve, Goto, codeVars, TypeOK, HandleStates
  <2>5. /\ pc' \in [Threads -> PCs] /\ cur' \in [Threads -> Ids \cup {0}]
    BY Zenon, <1>1, <2>1 DEF Reserve, Goto, codeVars, TypeOK, PCs, Holding, Waiting
  <2> QED
    BY Zenon, <2>2, <2>3, <2>4, <2>5 DEF TypeOK
<1>4. Control'
  <2>1. CurOK'
    <3>0. m_next_id \in Ids
      BY <1>1, ConstantsAssumption DEF Reserve, Goto, TypeOK
    <3> SUFFICES ASSUME NEW u \in Threads PROVE CurOK!(u)'
      BY Zenon DEF CurOK
    <3>1. CASE u = th
      BY <1>1, <3>0, <3>1 DEF Reserve, Goto, TypeOK, CurOK, Control, Fresh, codeVars
    <3>2. CASE u # th
      BY <1>1, <3>0, <3>2, BusyHandle DEF Reserve, Goto, TypeOK, CurOK, codeVars
    <3> QED
      BY Zenon, <3>1, <3>2
  <2>2. Distinct'
    BY <1>1, ConstantsAssumption, BusyHandle DEF Reserve, Goto, TypeOK, CurOK, Control, Distinct
  <2>3. Fresh' /\ OrderTarget' /\ HandleOK'
    <3>1. Fresh'
      BY <1>1, ConstantsAssumption DEF Reserve, Goto, TypeOK, CurOK, Control, Fresh, ledgerVars, codeVars
    <3>2. OrderTarget'
      BY <1>1, ConstantsAssumption DEF Reserve, Goto, TypeOK, CurOK, Control, Fresh, OrderTarget,
         ledgerVars, codeVars
    <3>3. HandleOK'
      BY <1>1, ConstantsAssumption DEF Reserve, Goto, TypeOK, CurOK, Control, Fresh, OrderTarget, HandleOK,
         ledgerVars, codeVars
    <3> QED
      BY Zenon, <3>1, <3>2, <3>3
  <2>4. StrictFirst'
    BY <1>1, ConstantsAssumption DEF Reserve, Goto, TypeOK, CurOK, Control, Fresh, OrderTarget, StrictFirst,
       ledgerVars
  <2> QED
    BY Zenon, <2>1, <2>2, <2>3, <2>4 DEF Control
<1>5. Code'
  BY <1>1, BusyHandle, CodeUntouched DEF Reserve, Goto, TypeOK, Control, Fresh, HandleOK, ledgerVars, codeVars
<1> QED
  BY Zenon, <1>2, <1>3, <1>4, <1>5 DEF IInv

\* A reservation that could not be queued joins the order only.
LEMMA ReserveRunsOutOfMemoryStep ==
  ASSUME IInv, NEW th \in Threads, NEW t \in Targets, ReserveRunsOutOfMemory(th, t)
  PROVE  IInv'
<1>1. TypeOK /\ Control /\ CurOK /\ Queues /\ Code
  BY Zenon DEF IInv, Control
<1>2. Queues'
  <2>1. /\ pending' = pending /\ m_next_id' \in Nat /\ m_next_id' >= m_next_id
        /\ \A i \in Ids : handle'[i] = "none" => handle[i] = "none"
    BY <1>1, ConstantsAssumption DEF ReserveRunsOutOfMemory, Goto, TypeOK, ledgerVars
  <2>2. ASSUME NEW u \in Threads
        PROVE  /\ pc'[u] \in Holding => /\ target'[cur'[u]] = target[cur[u]] /\ cur'[u] = cur[u]
                                        /\ pc[u] \in Holding \/ IsFront(target[cur[u]], cur[u])
               /\ pc'[u] = "reserving" => /\ target'[cur'[u]] = target[cur[u]] /\ cur'[u] = cur[u]
                                          /\ pc[u] = "reserving"
    BY <1>1 DEF ReserveRunsOutOfMemory, Goto, TypeOK, CurOK
  <2> QED
    BY Zenon, <1>1, <2>1, <2>2, QueuesUntouched
<1>3. TypeOK'
  <2>1. m_next_id \in Ids /\ m_next_id + 1 \in 1 .. (MaxId + 1)
    BY <1>1, ConstantsAssumption DEF ReserveRunsOutOfMemory, Goto, TypeOK
  <2> QED
    BY Zenon, <1>1, <2>1 DEF ReserveRunsOutOfMemory, Goto, TypeOK, PCs, codeVars
<1>4. Control'
  <2>1. CurOK'
    <3>0. m_next_id \in Ids
      BY <1>1, ConstantsAssumption DEF ReserveRunsOutOfMemory, Goto, TypeOK
    <3> SUFFICES ASSUME NEW u \in Threads PROVE CurOK!(u)'
      BY Zenon DEF CurOK
    <3>1. CASE u = th
      BY <1>1, <3>0, <3>1 DEF ReserveRunsOutOfMemory, Goto, TypeOK, CurOK, Control, Fresh, codeVars
    <3>2. CASE u # th
      BY <1>1, <3>0, <3>2, BusyHandle DEF ReserveRunsOutOfMemory, Goto, TypeOK, CurOK, codeVars
    <3> QED
      BY Zenon, <3>1, <3>2
  <2>2. Distinct'
    BY <1>1, ConstantsAssumption, BusyHandle DEF ReserveRunsOutOfMemory, Goto, TypeOK, CurOK, Control, Distinct
  <2>3. Fresh' /\ OrderTarget' /\ HandleOK'
    <3>1. Fresh'
      BY <1>1, ConstantsAssumption DEF ReserveRunsOutOfMemory, Goto, TypeOK, CurOK, Control, Fresh, ledgerVars, codeVars
    <3>2. OrderTarget'
      BY <1>1, ConstantsAssumption DEF ReserveRunsOutOfMemory, Goto, TypeOK, CurOK, Control, Fresh, OrderTarget,
         ledgerVars, codeVars
    <3>3. HandleOK'
      BY <1>1, ConstantsAssumption DEF ReserveRunsOutOfMemory, Goto, TypeOK, CurOK, Control, Fresh, OrderTarget, HandleOK,
         ledgerVars, codeVars
    <3> QED
      BY Zenon, <3>1, <3>2, <3>3
  <2>4. StrictFirst'
    BY <1>1, ConstantsAssumption DEF ReserveRunsOutOfMemory, Goto, TypeOK, CurOK, Control, Fresh, OrderTarget, StrictFirst,
       ledgerVars
  <2> QED
    BY Zenon, <2>1, <2>2, <2>3, <2>4 DEF Control
<1>5. Code'
  BY <1>1, BusyHandle, CodeUntouched DEF ReserveRunsOutOfMemory, Goto, TypeOK, Control, Fresh, HandleOK, ledgerVars, codeVars
<1> QED
  BY Zenon, <1>2, <1>3, <1>4, <1>5 DEF IInv

\* Unreserve, InstallFails, RollBack and ReleaseHook: the id leaves order and queue.
LEMMA ReleaseStep ==
  ASSUME IInv, NEW th \in Threads, NEW from \in {"unreserving", "reserved", "unwound", "releasing"},
         Finish(th, from), release_hook(target[cur[th]], cur[th]),
         handle' \in {handle, [handle EXCEPT ![cur[th]] = "gone"]},
         UNCHANGED <<codeVars, target, strict>>
  PROVE  IInv'
<1>1. TypeOK /\ Control /\ CurOK /\ Queues /\ Code
  BY Zenon DEF IInv, Control
<1>2. Queues' /\ pending' \in [Targets -> Seq(Ids)]
  <2> DEFINE q == IF order[target[cur[th]]] = {cur[th]} THEN <<>> ELSE Erase(pending[target[cur[th]]], cur[th])
  <2>1. cur[th] \in Ids /\ target[cur[th]] \in Targets
    BY Zenon, <1>1, BusyHandle DEF Finish, Goto, release_hook, TypeOK
  <2>2. pending' = [pending EXCEPT ![target[cur[th]]] = q]
    BY Zenon DEF Finish, Goto, release_hook
  <2>3. \A i \in Ids : handle'[i] = "none" => handle[i] = "none"
    BY Zenon, <1>1 DEF Finish, Goto, release_hook, TypeOK
  <2>4. \A u \in Threads : pc'[u] \in Holding \cup {"reserving"} =>
          pc'[u] = pc[u] /\ cur'[u] = cur[u] /\ cur[u] # cur[th]
    BY Zenon, <1>1, BusyHandle DEF Finish, Goto, release_hook, TypeOK, Control, Distinct
  <2>5. q = Erase(pending[target[cur[th]]], cur[th]) \/ (q = <<>> /\ order[target[cur[th]]] = {cur[th]})
    OBVIOUS
  <2>6. m_next_id' = m_next_id /\ target' = target
    BY Zenon DEF Finish, Goto, release_hook
  <2> HIDE DEF q
  <2> QED
    BY Zenon, <1>1, <2>1, <2>2, <2>3, <2>4, <2>5, <2>6, QueuesErased
<1>3. TypeOK'
  <2>1. cur[th] \in Ids /\ target[cur[th]] \in Targets
    BY Zenon, <1>1, BusyHandle, ConstantsAssumption DEF Finish, Goto, TypeOK
  <2>2. /\ m_next_id' \in 1 .. (MaxId + 1) /\ order' \in [Targets -> SUBSET Ids]
        /\ pending' \in [Targets -> Seq(Ids)]
    BY Zenon, <1>1, <1>2, <2>1, ConstantsAssumption DEF Finish, Goto, release_hook, codeVars, TypeOK
  <2>3. /\ prologue' \in [Targets -> Ids \cup {Pristine}] /\ saved' \in [Ids -> Ids \cup {Pristine}]
        /\ trampolines' \in SUBSET Ids /\ armed' \in SUBSET trampolines'
    BY Zenon, <1>1, <2>1 DEF Finish, Goto, release_hook, codeVars, TypeOK, CurOK
  <2>4. /\ handle' \in [Ids -> HandleStates] /\ target' \in [Ids -> Targets]
        /\ strict' \in SUBSET Ids
    BY Zenon, <1>1, <2>1 DEF Finish, Goto, release_hook, codeVars, TypeOK, HandleStates
  <2>5. /\ pc' \in [Threads -> PCs] /\ cur' \in [Threads -> Ids \cup {0}]
    BY Zenon, <1>1, <2>1 DEF Finish, Goto, release_hook, codeVars, TypeOK, PCs, Holding, Waiting
  <2> QED
    BY Zenon, <2>2, <2>3, <2>4, <2>5 DEF TypeOK
<1>4. Control'
  <2>1. CurOK'
    <3> SUFFICES ASSUME NEW u \in Threads PROVE CurOK!(u)'
      BY Zenon DEF CurOK
    <3>1. CASE u = th
      BY Zenon, <1>1, <3>1, BusyHandle DEF Finish, release_hook, Goto, TypeOK, ledgerVars, codeVars
    <3>2. CASE u # th
      BY ZenonT(40), <1>1, <3>2, BusyHandle DEF Finish, release_hook, Goto, TypeOK, Control, CurOK, Distinct,
         ledgerVars, codeVars
    <3> QED
      BY Zenon, <3>1, <3>2
  <2>2. Distinct'
    BY Zenon, <1>1, ConstantsAssumption, BusyHandle DEF Finish, Goto, release_hook, TypeOK, CurOK, Control, Distinct
  <2>3. Fresh' /\ OrderTarget' /\ HandleOK'
    <3>1. Fresh'
      BY <1>1, ConstantsAssumption DEF Finish, Goto, release_hook, TypeOK, CurOK, Control, Fresh, ledgerVars, codeVars
    <3>2. OrderTarget'
      BY <1>1, ConstantsAssumption DEF Finish, Goto, release_hook, TypeOK, CurOK, Control, Fresh, OrderTarget,
         ledgerVars, codeVars
    <3>3. HandleOK'
      BY <1>1, ConstantsAssumption DEF Finish, Goto, release_hook, TypeOK, CurOK, Control, Fresh, OrderTarget, HandleOK,
         ledgerVars, codeVars
    <3> QED
      BY Zenon, <3>1, <3>2, <3>3
  <2>4. StrictFirst'
    BY Zenon, <1>1, ConstantsAssumption DEF Finish, Goto, release_hook, TypeOK, CurOK, Control, Fresh, OrderTarget, StrictFirst,
       ledgerVars
  <2> QED
    BY Zenon, <2>1, <2>2, <2>3, <2>4 DEF Control
<1>5. Code'
  BY Zenon, <1>1, BusyHandle, CodeUntouched DEF Finish, Goto, release_hook, TypeOK, Control, Fresh, HandleOK, ledgerVars, codeVars
<1> QED
  BY Zenon, <1>2, <1>3, <1>4, <1>5 DEF IInv

\* Commit and Leak: the id leaves the queue and stays in the order.
LEMMA LeaveSlotStep ==
  ASSUME IInv, NEW th \in Threads, NEW from \in {"created", "leaking"}, NEW to \in {"live", "leaked"},
         Finish(th, from), commit_hook(target[cur[th]], cur[th]),
         handle' = [handle EXCEPT ![cur[th]] = to],
         UNCHANGED <<codeVars, target, strict>>
  PROVE  IInv'
<1>1. TypeOK /\ Control /\ CurOK /\ Queues /\ Code
  BY Zenon DEF IInv, Control
<1>2. Queues' /\ pending' \in [Targets -> Seq(Ids)]
  <2> DEFINE q == Erase(pending[target[cur[th]]], cur[th])
  <2>1. cur[th] \in Ids /\ target[cur[th]] \in Targets
    BY Zenon, <1>1, BusyHandle DEF Finish, Goto, commit_hook, TypeOK
  <2>2. pending' = [pending EXCEPT ![target[cur[th]]] = q]
    BY Zenon DEF Finish, Goto, commit_hook
  <2>3. \A i \in Ids : handle'[i] = "none" => handle[i] = "none"
    BY Zenon, <1>1 DEF Finish, Goto, commit_hook, TypeOK
  <2>4. \A u \in Threads : pc'[u] \in Holding \cup {"reserving"} =>
          pc'[u] = pc[u] /\ cur'[u] = cur[u] /\ cur[u] # cur[th]
    BY Zenon, <1>1, BusyHandle DEF Finish, Goto, commit_hook, TypeOK, Control, Distinct
  <2>5. q = Erase(pending[target[cur[th]]], cur[th]) \/ (q = <<>> /\ order[target[cur[th]]] = {cur[th]})
    OBVIOUS
  <2>6. m_next_id' = m_next_id /\ target' = target
    BY Zenon DEF Finish, Goto, commit_hook
  <2> HIDE DEF q
  <2> QED
    BY Zenon, <1>1, <2>1, <2>2, <2>3, <2>4, <2>5, <2>6, QueuesErased
<1>3. TypeOK'
  BY Zenon, <1>1, <1>2, ConstantsAssumption DEF Finish, Goto, commit_hook, TypeOK, CurOK, PCs, HandleStates, ledgerVars, codeVars
<1>4. Control'
  <2>1. CurOK'
    BY <1>1, BusyHandle DEF Finish, Goto, commit_hook, TypeOK, Control, CurOK, Distinct,
       ledgerVars, codeVars
  <2>2. Distinct'
    BY Zenon, <1>1, ConstantsAssumption, BusyHandle DEF Finish, Goto, commit_hook, TypeOK, CurOK, Control, Distinct
  <2>3. Fresh' /\ OrderTarget' /\ HandleOK'
    <3>1. Fresh'
      BY Zenon, <1>1, ConstantsAssumption DEF Finish, Goto, commit_hook, TypeOK, CurOK, Control, Fresh, ledgerVars, codeVars
    <3>2. OrderTarget'
      BY Zenon, <1>1, ConstantsAssumption DEF Finish, Goto, commit_hook, TypeOK, CurOK, Control, Fresh, OrderTarget,
         ledgerVars, codeVars
    <3>3. HandleOK'
      BY <1>1, ConstantsAssumption DEF Finish, Goto, commit_hook, TypeOK, CurOK, Control, Fresh, OrderTarget, HandleOK,
         ledgerVars, codeVars
    <3> QED
      BY Zenon, <3>1, <3>2, <3>3
  <2>4. StrictFirst'
    BY Zenon, <1>1, ConstantsAssumption DEF Finish, Goto, commit_hook, TypeOK, CurOK, Control, Fresh, OrderTarget, StrictFirst,
       ledgerVars
  <2> QED
    BY Zenon, <2>1, <2>2, <2>3, <2>4 DEF Control
<1>5. Code'
  BY Zenon, <1>1, BusyHandle, CodeUntouched DEF Finish, Goto, commit_hook, TypeOK, Control, Fresh, HandleOK, ledgerVars, codeVars
<1> QED
  BY Zenon, <1>2, <1>3, <1>4, <1>5 DEF IInv

\* A teardown that could not be queued leaks its hook.
LEMMA TeardownRunsOutOfMemoryStep ==
  ASSUME IInv, NEW id \in Ids, TeardownRunsOutOfMemory(id)
  PROVE  IInv'
<1>1. TypeOK /\ Control /\ CurOK /\ Queues /\ Code
  BY Zenon DEF IInv, Control
<1>2. Queues' /\ pending' \in [Targets -> Seq(Ids)]
  <2> DEFINE q == Erase(pending[target[id]], id)
  <2>1. id \in Ids /\ target[id] \in Targets
    BY Zenon, <1>1, BusyHandle DEF TeardownRunsOutOfMemory, release_teardown_slot, TypeOK
  <2>2. pending' = [pending EXCEPT ![target[id]] = q]
    BY Zenon DEF TeardownRunsOutOfMemory, release_teardown_slot
  <2>3. \A i \in Ids : handle'[i] = "none" => handle[i] = "none"
    BY Zenon, <1>1 DEF TeardownRunsOutOfMemory, release_teardown_slot, TypeOK
  <2>4. \A u \in Threads : pc'[u] \in Holding \cup {"reserving"} =>
          pc'[u] = pc[u] /\ cur'[u] = cur[u] /\ cur[u] # id
    BY Zenon, <1>1, BusyHandle DEF TeardownRunsOutOfMemory, release_teardown_slot, TypeOK, Control, Distinct
  <2>5. q = Erase(pending[target[id]], id) \/ (q = <<>> /\ order[target[id]] = {id})
    OBVIOUS
  <2>6. m_next_id' = m_next_id /\ target' = target
    BY Zenon DEF TeardownRunsOutOfMemory, release_teardown_slot
  <2> HIDE DEF q
  <2> QED
    BY Zenon, <1>1, <2>1, <2>2, <2>3, <2>4, <2>5, <2>6, QueuesErased
<1>3. TypeOK'
  BY Zenon, <1>1, <1>2, ConstantsAssumption DEF TeardownRunsOutOfMemory, release_teardown_slot, TypeOK, CurOK, PCs, HandleStates, ledgerVars, codeVars
<1>4. Control'
  <2>1. CurOK'
    BY Zenon, <1>1, BusyHandle DEF TeardownRunsOutOfMemory, release_teardown_slot, TypeOK, Control, CurOK, Distinct,
       ledgerVars, codeVars
  <2>2. Distinct'
    BY Zenon, <1>1, ConstantsAssumption, BusyHandle DEF TeardownRunsOutOfMemory, release_teardown_slot, TypeOK, CurOK, Control, Distinct
  <2>3. Fresh' /\ OrderTarget' /\ HandleOK'
    <3>1. Fresh'
      BY Zenon, <1>1, ConstantsAssumption DEF TeardownRunsOutOfMemory, release_teardown_slot, TypeOK, CurOK, Control, Fresh, ledgerVars, codeVars
    <3>2. OrderTarget'
      BY Zenon, <1>1, ConstantsAssumption DEF TeardownRunsOutOfMemory, release_teardown_slot, TypeOK, CurOK, Control, Fresh, OrderTarget,
         ledgerVars, codeVars
    <3>3. HandleOK'
      BY <1>1, ConstantsAssumption DEF TeardownRunsOutOfMemory, release_teardown_slot, TypeOK, CurOK, Control, Fresh, OrderTarget, HandleOK,
         ledgerVars, codeVars
    <3> QED
      BY Zenon, <3>1, <3>2, <3>3
  <2>4. StrictFirst'
    BY Zenon, <1>1, ConstantsAssumption DEF TeardownRunsOutOfMemory, release_teardown_slot, TypeOK, CurOK, Control, Fresh, OrderTarget, StrictFirst,
       ledgerVars
  <2> QED
    BY Zenon, <2>1, <2>2, <2>3, <2>4 DEF Control
<1>5. Code'
  BY Zenon, <1>1, BusyHandle, CodeUntouched DEF TeardownRunsOutOfMemory, release_teardown_slot, TypeOK, Control, Fresh, HandleOK, ledgerVars, codeVars
<1> QED
  BY Zenon, <1>2, <1>3, <1>4, <1>5 DEF IInv

\* Hook::release and the fail-closed paths of ~Hook leave all but the handle alone.
LEMMA AbandonStep ==
  ASSUME IInv, NEW id \in Ids, Abandon(id)
  PROVE  IInv'
<1>1. TypeOK /\ Control /\ CurOK /\ Queues /\ Code
  BY Zenon DEF IInv, Control
<1>2. Queues'
  <2>1. /\ pending' = pending /\ m_next_id' \in Nat /\ m_next_id' >= m_next_id
        /\ \A i \in Ids : handle'[i] = "none" => handle[i] = "none"
    BY <1>1, ConstantsAssumption DEF Abandon, TypeOK, ledgerVars
  <2>2. ASSUME NEW u \in Threads
        PROVE  /\ pc'[u] \in Holding => /\ target'[cur'[u]] = target[cur[u]] /\ cur'[u] = cur[u]
                                        /\ pc[u] \in Holding \/ IsFront(target[cur[u]], cur[u])
               /\ pc'[u] = "reserving" => /\ target'[cur'[u]] = target[cur[u]] /\ cur'[u] = cur[u]
                                          /\ pc[u] = "reserving"
    BY Zenon, <1>1 DEF Abandon, TypeOK, CurOK
  <2> QED
    BY Zenon, <1>1, <2>1, <2>2, QueuesUntouched
<1>3. TypeOK'
  BY Zenon, <1>1, <1>2, ConstantsAssumption DEF Abandon, TypeOK, CurOK, PCs, HandleStates, ledgerVars, codeVars
<1>4. Control'
  <2>1. CurOK'
    BY Zenon, <1>1, BusyHandle DEF Abandon, TypeOK, Control, CurOK, Distinct,
       ledgerVars, codeVars
  <2>2. Distinct'
    BY Zenon, <1>1, ConstantsAssumption, BusyHandle DEF Abandon, TypeOK, CurOK, Control, Distinct
  <2>3. Fresh' /\ OrderTarget' /\ HandleOK'
    <3>1. Fresh'
      BY Zenon, <1>1, ConstantsAssumption DEF Abandon, TypeOK, CurOK, Control, Fresh, ledgerVars, codeVars
    <3>2. OrderTarget'
      BY Zenon, <1>1, ConstantsAssumption DEF Abandon, TypeOK, CurOK, Control, Fresh, OrderTarget,
         ledgerVars, codeVars
    <3>3. HandleOK'
      BY <1>1, ConstantsAssumption DEF Abandon, TypeOK, CurOK, Control, Fresh, OrderTarget, HandleOK,
         ledgerVars, codeVars
    <3> QED
      BY Zenon, <3>1, <3>2, <3>3
  <2>4. StrictFirst'
    BY Zenon, <1>1, ConstantsAssumption DEF Abandon, TypeOK, CurOK, Control, Fresh, OrderTarget, StrictFirst,
       ledgerVars
  <2> QED
    BY Zenon, <2>1, <2>2, <2>3, <2>4 DEF Control
<1>5. Code'
  BY Zenon, <1>1, BusyHandle, CodeUntouched DEF Abandon, TypeOK, Control, Fresh, HandleOK, ledgerVars, codeVars
<1> QED
  BY Zenon, <1>2, <1>3, <1>4, <1>5 DEF IInv

\* A teardown joins the queue.
LEMMA BeginTeardownStep ==
  ASSUME IInv, NEW th \in Threads, NEW id \in Ids, BeginTeardown(th, id)
  PROVE  IInv'
<1>1. TypeOK /\ Control /\ CurOK /\ Queues /\ Code
  BY Zenon DEF IInv, Control
<1>2. Queues' /\ pending' \in [Targets -> Seq(Ids)]
  <2>1. id \in Ids /\ target[id] \in Targets
    BY Zenon, <1>1, ConstantsAssumption DEF BeginTeardown, Goto, TypeOK
  <2> DEFINE q == Append(pending[target[id]], id)
  <2>2. IsAppended(pending[target[id]], id, q)
    BY Zenon, <1>1, <2>1, AppendFacts DEF TypeOK
  <2>3. pending' = [pending EXCEPT ![target[id]] = q]
    BY Zenon DEF BeginTeardown, Goto
  <2>4. m_next_id' \in Nat /\ m_next_id <= m_next_id' /\ id < m_next_id'
    BY <1>1, ConstantsAssumption DEF BeginTeardown, Goto, TypeOK, Control, Fresh
  <2>5. handle'[id] = "none" => id = m_next_id
    BY Zenon, <1>1 DEF BeginTeardown, Goto, TypeOK
  <2>6. \A i \in Ids : handle'[i] = "none" => handle[i] = "none"
    BY Zenon, <1>1 DEF BeginTeardown, Goto, TypeOK
  <2>7. Joins(target[id], id)
    BY Zenon, <1>1, <2>1 DEF BeginTeardown, Goto, TypeOK, CurOK, Joins
  <2> HIDE DEF q
  <2> QED
    BY Zenon, <1>1, <2>1, <2>2, <2>3, <2>4, <2>5, <2>6, <2>7, QueuesAppended
<1>3. TypeOK'
  BY Zenon, <1>1, <1>2, ConstantsAssumption DEF BeginTeardown, Goto, TypeOK, CurOK, PCs, HandleStates, ledgerVars, codeVars
<1>4. Control'
  <2>1. CurOK'
    <3> SUFFICES ASSUME NEW u \in Threads PROVE CurOK!(u)'
      BY Zenon DEF CurOK
    <3>1. CASE u = th
      BY <1>1, <3>1, BusyHandle DEF BeginTeardown, Goto, TypeOK, Control, Fresh, HandleOK, ledgerVars, codeVars
    <3>2. CASE u # th
      BY Zenon, <1>1, <3>2, BusyHandle DEF BeginTeardown, Goto, TypeOK, Control, CurOK, Distinct,
         ledgerVars, codeVars
    <3> QED
      BY Zenon, <3>1, <3>2
  <2>2. Distinct'
    <3>1. \A u \in Threads : pc[u] # "idle" => cur[u] # id
      BY Zenon, <1>1, BusyHandle DEF BeginTeardown
    <3> QED
      BY <1>1, <3>1, ConstantsAssumption, BusyHandle DEF BeginTeardown, Goto, TypeOK, CurOK, Control, Distinct
  <2>3. Fresh' /\ OrderTarget' /\ HandleOK'
    <3>1. Fresh'
      BY Zenon, <1>1, ConstantsAssumption DEF BeginTeardown, Goto, TypeOK, CurOK, Control, Fresh, ledgerVars, codeVars
    <3>2. OrderTarget'
      BY Zenon, <1>1, ConstantsAssumption DEF BeginTeardown, Goto, TypeOK, CurOK, Control, Fresh, OrderTarget,
         ledgerVars, codeVars
    <3>3. HandleOK'
      BY <1>1, ConstantsAssumption DEF BeginTeardown, Goto, TypeOK, CurOK, Control, Fresh, OrderTarget, HandleOK,
         ledgerVars, codeVars
    <3> QED
      BY Zenon, <3>1, <3>2, <3>3
  <2>4. StrictFirst'
    BY Zenon, <1>1, ConstantsAssumption DEF BeginTeardown, Goto, TypeOK, CurOK, Control, Fresh, OrderTarget, StrictFirst,
       ledgerVars
  <2> QED
    BY Zenon, <2>1, <2>2, <2>3, <2>4 DEF Control
<1>5. Code'
  BY Zenon, <1>1, BusyHandle, CodeUntouched DEF BeginTeardown, Goto, TypeOK, Control, Fresh, HandleOK, ledgerVars, codeVars
<1> QED
  BY Zenon, <1>2, <1>3, <1>4, <1>5 DEF IInv

\* A reservation at the front of the queue gets the slot.
LEMMA ReservedStep ==
  ASSUME IInv, NEW th \in Threads, Reserved(th)
  PROVE  IInv'
<1>1. TypeOK /\ Control /\ CurOK /\ Queues /\ Code
  BY Zenon DEF IInv, Control
<1>2. Queues'
  <2>1. /\ pending' = pending /\ m_next_id' \in Nat /\ m_next_id' >= m_next_id
        /\ \A i \in Ids : handle'[i] = "none" => handle[i] = "none"
    BY <1>1, ConstantsAssumption DEF Reserved, Goto, TypeOK, ledgerVars
  <2>2. ASSUME NEW u \in Threads
        PROVE  /\ pc'[u] \in Holding => /\ target'[cur'[u]] = target[cur[u]] /\ cur'[u] = cur[u]
                                        /\ pc[u] \in Holding \/ IsFront(target[cur[u]], cur[u])
               /\ pc'[u] = "reserving" => /\ target'[cur'[u]] = target[cur[u]] /\ cur'[u] = cur[u]
                                          /\ pc[u] = "reserving"
    BY Zenon, <1>1 DEF Reserved, Goto, TypeOK, CurOK
  <2> QED
    BY Zenon, <1>1, <2>1, <2>2, QueuesUntouched
<1>3. TypeOK'
  BY Zenon, <1>1, <1>2, ConstantsAssumption DEF Reserved, Goto, TypeOK, CurOK, PCs, HandleStates, ledgerVars, codeVars
<1>4. Control'
  <2>1. CurOK'
    BY Zenon, <1>1, BusyHandle DEF Reserved, Goto, TypeOK, Control, CurOK, Distinct,
       ledgerVars, codeVars
  <2>2. Distinct'
    BY Zenon, <1>1, ConstantsAssumption, BusyHandle DEF Reserved, Goto, TypeOK, CurOK, Control, Distinct
  <2>3. Fresh' /\ OrderTarget' /\ HandleOK'
    <3>1. Fresh'
      BY Zenon, <1>1, ConstantsAssumption DEF Reserved, Goto, TypeOK, CurOK, Control, Fresh, ledgerVars, codeVars
    <3>2. OrderTarget'
      BY Zenon, <1>1, ConstantsAssumption DEF Reserved, Goto, TypeOK, CurOK, Control, Fresh, OrderTarget,
         ledgerVars, codeVars
    <3>3. HandleOK'
      BY Zenon, <1>1, ConstantsAssumption DEF Reserved, Goto, TypeOK, CurOK, Control, Fresh, OrderTarget, HandleOK,
         ledgerVars, codeVars
    <3> QED
      BY Zenon, <3>1, <3>2, <3>3
  <2>4. StrictFirst'
    BY Zenon, <1>1, ConstantsAssumption DEF Reserved, Goto, TypeOK, CurOK, Control, Fresh, OrderTarget, StrictFirst,
       ledgerVars
  <2> QED
    BY Zenon, <2>1, <2>2, <2>3, <2>4 DEF Control
<1>5. Code'
  BY Zenon, <1>1, BusyHandle, CodeUntouched DEF Reserved, Goto, TypeOK, Control, Fresh, HandleOK, ledgerVars, codeVars
<1> QED
  BY Zenon, <1>2, <1>3, <1>4, <1>5 DEF IInv

\* A teardown at the front of the queue gets the slot; it is topmost if nothing is newer.
LEMMA TeardownTurnStep ==
  ASSUME IInv, NEW th \in Threads, TeardownTurn(th)
  PROVE  IInv'
<1>1. TypeOK /\ Control /\ CurOK /\ Queues /\ Code
  BY Zenon DEF IInv, Control
<1>2. Queues'
  <2>1. /\ pending' = pending /\ m_next_id' \in Nat /\ m_next_id' >= m_next_id
        /\ \A i \in Ids : handle'[i] = "none" => handle[i] = "none"
    BY <1>1, ConstantsAssumption DEF TeardownTurn, HasNewer, Goto, TypeOK, ledgerVars
  <2>2. ASSUME NEW u \in Threads
        PROVE  /\ pc'[u] \in Holding => /\ target'[cur'[u]] = target[cur[u]] /\ cur'[u] = cur[u]
                                        /\ pc[u] \in Holding \/ IsFront(target[cur[u]], cur[u])
               /\ pc'[u] = "reserving" => /\ target'[cur'[u]] = target[cur[u]] /\ cur'[u] = cur[u]
                                          /\ pc[u] = "reserving"
    BY Zenon, <1>1 DEF TeardownTurn, HasNewer, Goto, TypeOK, CurOK
  <2> QED
    BY Zenon, <1>1, <2>1, <2>2, QueuesUntouched
<1>3. TypeOK'
  BY Zenon, <1>1, <1>2, ConstantsAssumption DEF TeardownTurn, HasNewer, Goto, TypeOK, CurOK, PCs, HandleStates, ledgerVars, codeVars
<1>4. Control'
  <2>1. CurOK'
    BY Zenon, <1>1, BusyHandle DEF TeardownTurn, HasNewer, Goto, TypeOK, Control, CurOK, Distinct,
       ledgerVars, codeVars
  <2>2. Distinct'
    BY Zenon, <1>1, ConstantsAssumption, BusyHandle DEF TeardownTurn, HasNewer, Goto, TypeOK, CurOK, Control, Distinct
  <2>3. Fresh' /\ OrderTarget' /\ HandleOK'
    <3>1. Fresh'
      BY Zenon, <1>1, ConstantsAssumption DEF TeardownTurn, HasNewer, Goto, TypeOK, CurOK, Control, Fresh, ledgerVars, codeVars
    <3>2. OrderTarget'
      BY Zenon, <1>1, ConstantsAssumption DEF TeardownTurn, HasNewer, Goto, TypeOK, CurOK, Control, Fresh, OrderTarget,
         ledgerVars, codeVars
    <3>3. HandleOK'
      BY Zenon, <1>1, ConstantsAssumption DEF TeardownTurn, HasNewer, Goto, TypeOK, CurOK, Control, Fresh, OrderTarget, HandleOK,
         ledgerVars, codeVars
    <3> QED
      BY Zenon, <3>1, <3>2, <3>3
  <2>4. StrictFirst'
    BY Zenon, <1>1, ConstantsAssumption DEF TeardownTurn, HasNewer, Goto, TypeOK, CurOK, Control, Fresh, OrderTarget, StrictFirst,
       ledgerVars
  <2> QED
    BY Zenon, <2>1, <2>2, <2>3, <2>4 DEF Control
<1>5. Code'
  BY <1>1, BusyHandle, CodeUntouched DEF TeardownTurn, HasNewer, Goto, TypeOK, Control, Fresh, HandleOK, ledgerVars, codeVars
<1> QED
  BY Zenon, <1>2, <1>3, <1>4, <1>5 DEF IInv

\* The backend saves the head of the chain and allocates the trampoline above it.
LEMMA BackendCreateStep ==
  ASSUME IInv, NEW th \in Threads, BackendCreate(th)
  PROVE  IInv'
<1>1. TypeOK /\ Control /\ CurOK /\ Queues /\ Code
  BY Zenon DEF IInv, Control
<1>2. Queues'
  <2>1. /\ pending' = pending /\ m_next_id' \in Nat /\ m_next_id' >= m_next_id
        /\ \A i \in Ids : handle'[i] = "none" => handle[i] = "none"
    BY <1>1, ConstantsAssumption DEF BackendCreate, Goto, TypeOK, ledgerVars
  <2>2. ASSUME NEW u \in Threads
        PROVE  /\ pc'[u] \in Holding => /\ target'[cur'[u]] = target[cur[u]] /\ cur'[u] = cur[u]
                                        /\ pc[u] \in Holding \/ IsFront(target[cur[u]], cur[u])
               /\ pc'[u] = "reserving" => /\ target'[cur'[u]] = target[cur[u]] /\ cur'[u] = cur[u]
                                          /\ pc[u] = "reserving"
    BY Zenon, <1>1 DEF BackendCreate, Goto, TypeOK, CurOK
  <2> QED
    BY Zenon, <1>1, <2>1, <2>2, QueuesUntouched
<1>3. TypeOK'
  <2>1. cur[th] \in Ids /\ target[cur[th]] \in Targets
    BY Zenon, <1>1, BusyHandle, ConstantsAssumption DEF BackendCreate, Goto, TypeOK
  <2>2. /\ m_next_id' \in 1 .. (MaxId + 1) /\ order' \in [Targets -> SUBSET Ids]
        /\ pending' \in [Targets -> Seq(Ids)]
    BY Zenon, <1>1, <1>2, <2>1, ConstantsAssumption DEF BackendCreate, Goto, ledgerVars, TypeOK
  <2>3. /\ prologue' \in [Targets -> Ids \cup {Pristine}] /\ saved' \in [Ids -> Ids \cup {Pristine}]
        /\ trampolines' \in SUBSET Ids /\ armed' \in SUBSET trampolines'
    BY Zenon, <1>1, <2>1 DEF BackendCreate, Goto, ledgerVars, TypeOK, CurOK
  <2>4. /\ handle' \in [Ids -> HandleStates] /\ target' \in [Ids -> Targets]
        /\ strict' \in SUBSET Ids
    BY Zenon, <1>1, <2>1 DEF BackendCreate, Goto, ledgerVars, TypeOK, HandleStates
  <2>5. /\ pc' \in [Threads -> PCs] /\ cur' \in [Threads -> Ids \cup {0}]
    BY Zenon, <1>1, <2>1 DEF BackendCreate, Goto, ledgerVars, TypeOK, PCs, Holding, Waiting
  <2> QED
    BY Zenon, <2>2, <2>3, <2>4, <2>5 DEF TypeOK
<1>4. Control'
  <2>1. CurOK'
    BY Zenon, <1>1, BusyHandle DEF BackendCreate, Goto, TypeOK, Control, CurOK, Distinct,
       ledgerVars, codeVars
  <2>2. Distinct'
    BY Zenon, <1>1, ConstantsAssumption, BusyHandle DEF BackendCreate, Goto, TypeOK, CurOK, Control, Distinct
  <2>3. Fresh' /\ OrderTarget' /\ HandleOK'
    <3>1. Fresh'
      BY Zenon, <1>1, ConstantsAssumption DEF BackendCreate, Goto, TypeOK, CurOK, Control, Fresh, ledgerVars, codeVars
    <3>2. OrderTarget'
      BY Zenon, <1>1, ConstantsAssumption DEF BackendCreate, Goto, TypeOK, CurOK, Control, Fresh, OrderTarget,
         ledgerVars, codeVars
    <3>3. HandleOK'
      BY <1>1, ConstantsAssumption DEF BackendCreate, Goto, TypeOK, CurOK, Control, Fresh, OrderTarget, HandleOK,
         ledgerVars, codeVars
    <3> QED
      BY Zenon, <3>1, <3>2, <3>3
  <2>4. StrictFirst'
    BY Zenon, <1>1, ConstantsAssumption DEF BackendCreate, Goto, TypeOK, CurOK, Control, Fresh, OrderTarget, StrictFirst,
       ledgerVars
  <2> QED
    BY Zenon, <2>1, <2>2, <2>3, <2>4 DEF Control
<1>5. Code'
  <2> DEFINE id == cur[th]
  <2>1. /\ id \in Ids /\ id \notin trampolines /\ id \notin armed /\ pc[th] = "reserved"
        /\ trampolines' = trampolines \cup {id} /\ armed' = armed /\ prologue' = prologue
        /\ target' = target /\ cur' = cur /\ saved' = [saved EXCEPT ![id] = prologue[target[id]]]
        /\ \A u \in Threads : u # th => pc'[u] = pc[u]
        /\ handle[id] = "none" /\ target[id] \in Targets
    BY Zenon, <1>1 DEF BackendCreate, Goto, TypeOK, CurOK
  <2>2. ASSUME NEW u \in Threads, u # th, pc[u] \in OnTop, target[cur[u]] = target[id]
        PROVE  id <= cur[u]
    <3>1. cur[u] \in Ids /\ cur[u] # id /\ IsFront(target[id], id)
      BY Zenon, <1>1, <2>1, <2>2 DEF CurOK, Control, Distinct, Queues, Slot
    <3>2. pc[u] \notin Holding
      BY Zenon, <1>1, <2>2, <3>1 DEF Queues, Slot, IsFront
    <3>3. pc[u] = "reserving" /\ handle[cur[u]] = "none"
      BY Zenon, <1>1, <2>2, <3>2 DEF CurOK
    <3>4. PICK i \in 1 .. Len(pending[target[id]]) : pending[target[id]][i] = cur[u]
      BY Zenon, <1>1, <2>2, <3>3 DEF Queues, Queued, InQueue
    <3>5. 1 < i /\ 1 \in 1 .. Len(pending[target[id]]) /\ pending[target[id]][1] = id
      BY <1>1, <2>1, <3>1, <3>4 DEF IsFront, TypeOK
    <3>6. id < cur[u]
      BY Zenon, <1>1, <2>1, <3>3, <3>4, <3>5 DEF Queues, QueueOrder
    <3> QED
      BY <2>1, <3>1, <3>6
  <2>3. Topmost'
    <3> SUFFICES ASSUME NEW u \in Threads, pc'[u] \in OnTop, NEW n \in trampolines',
                        target[n] = target[cur[u]]
                 PROVE  n <= cur[u]
      BY Zenon, <2>1 DEF Topmost
    <3>1. pc[u] \in OnTop
      BY Zenon, <2>1
    <3>2. CASE n \in trampolines
      BY Zenon, <1>1, <3>1, <3>2 DEF Code, Topmost
    <3>3. CASE n = id
      BY <2>1, <2>2, <3>1, <3>3
    <3> QED
      BY Zenon, <2>1, <3>2, <3>3
  <2>4. Chain'
    <3>1. ASSUME NEW n \in trampolines'
          PROVE  GreatestOf(saved'[n], {a \in armed : target[a] = target[n] /\ a < n})
      <4>1. CASE n \in trampolines
        BY Zenon, <1>1, <2>1, <4>1 DEF Code, Chain, TypeOK
      <4>2. CASE n = id
        <5>1. \A a \in armed : target[a] = target[id] => a < id
          BY <1>1, <2>1 DEF Code, Topmost, TypeOK
        <5>2. {a \in armed : target[a] = target[id] /\ a < id} = {a \in armed : target[a] = target[id]}
          BY Zenon, <5>1
        <5>3. saved'[id] = prologue[target[id]]
          BY Zenon, <1>1, <2>1 DEF TypeOK
        <5> QED
          BY Zenon, <1>1, <2>1, <4>2, <5>2, <5>3 DEF Code, Chain
      <4> QED
        BY Zenon, <2>1, <4>1, <4>2
    <3> QED
      BY Zenon, <1>1, <2>1, <3>1 DEF Code, Chain
  <2>5. AllReached'
    BY <1>1, <2>1 DEF Code, AllReached, Reached, TypeOK
  <2> QED
    BY Zenon, <2>3, <2>4, <2>5 DEF Code
<1> QED
  BY Zenon, <1>2, <1>3, <1>4, <1>5 DEF IInv

\* The backend arms the hook it created.
LEMMA BackendPatchStep ==
  ASSUME IInv, NEW th \in Threads, BackendPatch(th)
  PROVE  IInv'
<1>1. TypeOK /\ Control /\ CurOK /\ Queues /\ Code
  BY Zenon DEF IInv, Control
<1>2. Queues'
  <2>1. /\ pending' = pending /\ m_next_id' \in Nat /\ m_next_id' >= m_next_id
        /\ \A i \in Ids : handle'[i] = "none" => handle[i] = "none"
    BY <1>1, ConstantsAssumption DEF BackendPatch, Goto, TypeOK, ledgerVars
  <2>2. ASSUME NEW u \in Threads
        PROVE  /\ pc'[u] \in Holding => /\ target'[cur'[u]] = target[cur[u]] /\ cur'[u] = cur[u]
                                        /\ pc[u] \in Holding \/ IsFront(target[cur[u]], cur[u])
               /\ pc'[u] = "reserving" => /\ target'[cur'[u]] = target[cur[u]] /\ cur'[u] = cur[u]
                                          /\ pc[u] = "reserving"
    BY Zenon, <1>1 DEF BackendPatch, Goto, TypeOK, CurOK
  <2> QED
    BY Zenon, <1>1, <2>1, <2>2, QueuesUntouched
<1>3. TypeOK'
  <2>1. cur[th] \in Ids /\ target[cur[th]] \in Targets
    BY Zenon, <1>1, BusyHandle, ConstantsAssumption DEF BackendPatch, Goto, TypeOK
  <2>2. /\ m_next_id' \in 1 .. (MaxId + 1) /\ order' \in [Targets -> SUBSET Ids]
        /\ pending' \in [Targets -> Seq(Ids)]
    BY Zenon, <1>1, <1>2, <2>1, ConstantsAssumption DEF BackendPatch, Goto, BackendEnable, ledgerVars, TypeOK
  <2>3. /\ prologue' \in [Targets -> Ids \cup {Pristine}] /\ saved' \in [Ids -> Ids \cup {Pristine}]
        /\ trampolines' \in SUBSET Ids /\ armed' \in SUBSET trampolines'
    BY Zenon, <1>1, <2>1 DEF BackendPatch, Goto, BackendEnable, ledgerVars, TypeOK, CurOK
  <2>4. /\ handle' \in [Ids -> HandleStates] /\ target' \in [Ids -> Targets]
        /\ strict' \in SUBSET Ids
    BY Zenon, <1>1, <2>1 DEF BackendPatch, Goto, BackendEnable, ledgerVars, TypeOK, HandleStates
  <2>5. /\ pc' \in [Threads -> PCs] /\ cur' \in [Threads -> Ids \cup {0}]
    BY Zenon, <1>1, <2>1 DEF BackendPatch, Goto, BackendEnable, ledgerVars, TypeOK, PCs, Holding, Waiting
  <2> QED
    BY Zenon, <2>2, <2>3, <2>4, <2>5 DEF TypeOK
<1>4. Control'
  <2>1. CurOK'
    BY Zenon, <1>1, BusyHandle DEF BackendPatch, Goto, BackendEnable, TypeOK, Control, CurOK, Distinct,
       ledgerVars, codeVars
  <2>2. Distinct'
    BY Zenon, <1>1, ConstantsAssumption, BusyHandle DEF BackendPatch, Goto, BackendEnable, TypeOK, CurOK, Control, Distinct
  <2>3. Fresh' /\ OrderTarget' /\ HandleOK'
    <3>1. Fresh'
      BY Zenon, <1>1, ConstantsAssumption DEF BackendPatch, Goto, BackendEnable, TypeOK, CurOK, Control, Fresh, ledgerVars, codeVars
    <3>2. OrderTarget'
      BY Zenon, <1>1, ConstantsAssumption DEF BackendPatch, Goto, BackendEnable, TypeOK, CurOK, Control, Fresh, OrderTarget,
         ledgerVars, codeVars
    <3>3. HandleOK'
      BY Zenon, <1>1, ConstantsAssumption DEF BackendPatch, Goto, BackendEnable, TypeOK, CurOK, Control, Fresh, OrderTarget, HandleOK,
         ledgerVars, codeVars
    <3> QED
      BY Zenon, <3>1, <3>2, <3>3
  <2>4. StrictFirst'
    BY Zenon, <1>1, ConstantsAssumption DEF BackendPatch, Goto, BackendEnable, TypeOK, CurOK, Control, Fresh, OrderTarget, StrictFirst,
       ledgerVars
  <2> QED
    BY Zenon, <2>1, <2>2, <2>3, <2>4 DEF Control
<1>5. Code'
  <2>1. Topmost'
    BY Zenon, <1>1 DEF BackendPatch, Goto, TypeOK, Code, Topmost
  <2>2. Chain' /\ AllReached'
    BY Zenon, <1>1, ArmTop DEF BackendPatch, Goto, TypeOK, Code, Topmost, Control, CurOK, HandleOK
  <2> QED
    BY Zenon, <2>1, <2>2 DEF Code
<1> QED
  BY Zenon, <1>2, <1>3, <1>4, <1>5 DEF IInv

\* A failed install disarms and frees what it created.
LEMMA UnwindStep ==
  ASSUME IInv, NEW th \in Threads, Unwind(th)
  PROVE  IInv'
<1>1. TypeOK /\ Control /\ CurOK /\ Queues /\ Code
  BY Zenon DEF IInv, Control
<1>2. Queues'
  <2>1. /\ pending' = pending /\ m_next_id' \in Nat /\ m_next_id' >= m_next_id
        /\ \A i \in Ids : handle'[i] = "none" => handle[i] = "none"
    BY <1>1, ConstantsAssumption DEF Unwind, Goto, TypeOK, ledgerVars
  <2>2. ASSUME NEW u \in Threads
        PROVE  /\ pc'[u] \in Holding => /\ target'[cur'[u]] = target[cur[u]] /\ cur'[u] = cur[u]
                                        /\ pc[u] \in Holding \/ IsFront(target[cur[u]], cur[u])
               /\ pc'[u] = "reserving" => /\ target'[cur'[u]] = target[cur[u]] /\ cur'[u] = cur[u]
                                          /\ pc[u] = "reserving"
    BY Zenon, <1>1 DEF Unwind, Goto, TypeOK, CurOK
  <2> QED
    BY Zenon, <1>1, <2>1, <2>2, QueuesUntouched
<1>3. TypeOK'
  BY Zenon, <1>1, <1>2, ConstantsAssumption DEF Unwind, Goto, BackendDisable, TypeOK, CurOK, PCs, HandleStates, ledgerVars, codeVars
<1>4. Control'
  <2>1. CurOK'
    BY Zenon, <1>1, BusyHandle DEF Unwind, Goto, BackendDisable, TypeOK, Control, CurOK, Distinct,
       ledgerVars, codeVars
  <2>2. Distinct'
    BY Zenon, <1>1, ConstantsAssumption, BusyHandle DEF Unwind, Goto, BackendDisable, TypeOK, CurOK, Control, Distinct
  <2>3. Fresh' /\ OrderTarget' /\ HandleOK'
    <3>1. Fresh'
      BY Zenon, <1>1, ConstantsAssumption DEF Unwind, Goto, BackendDisable, TypeOK, CurOK, Control, Fresh, ledgerVars, codeVars
    <3>2. OrderTarget'
      BY Zenon, <1>1, ConstantsAssumption DEF Unwind, Goto, BackendDisable, TypeOK, CurOK, Control, Fresh, OrderTarget,
         ledgerVars, codeVars
    <3>3. HandleOK'
      BY Zenon, <1>1, ConstantsAssumption DEF Unwind, Goto, BackendDisable, TypeOK, CurOK, Control, Fresh, OrderTarget, HandleOK,
         ledgerVars, codeVars
    <3> QED
      BY Zenon, <3>1, <3>2, <3>3
  <2>4. StrictFirst'
    BY Zenon, <1>1, ConstantsAssumption DEF Unwind, Goto, BackendDisable, TypeOK, CurOK, Control, Fresh, OrderTarget, StrictFirst,
       ledgerVars
  <2> QED
    BY Zenon, <2>1, <2>2, <2>3, <2>4 DEF Control
<1>5. Code'
  <2>1. Topmost'
    BY Zenon, <1>1 DEF Unwind, Goto, TypeOK, Code, Topmost
  <2>2. Chain' /\ AllReached'
    BY Zenon, <1>1, DisarmTop DEF Unwind, Goto, TypeOK, Code, Topmost, Control, CurOK, HandleOK
  <2> QED
    BY Zenon, <2>1, <2>2 DEF Code
<1> QED
  BY Zenon, <1>2, <1>3, <1>4, <1>5 DEF IInv

\* A teardown that is topmost disarms its hook.
LEMMA RestoreStep ==
  ASSUME IInv, NEW th \in Threads, Restore(th)
  PROVE  IInv'
<1>1. TypeOK /\ Control /\ CurOK /\ Queues /\ Code
  BY Zenon DEF IInv, Control
<1>2. Queues'
  <2>1. /\ pending' = pending /\ m_next_id' \in Nat /\ m_next_id' >= m_next_id
        /\ \A i \in Ids : handle'[i] = "none" => handle[i] = "none"
    BY <1>1, ConstantsAssumption DEF Restore, Goto, TypeOK, ledgerVars
  <2>2. ASSUME NEW u \in Threads
        PROVE  /\ pc'[u] \in Holding => /\ target'[cur'[u]] = target[cur[u]] /\ cur'[u] = cur[u]
                                        /\ pc[u] \in Holding \/ IsFront(target[cur[u]], cur[u])
               /\ pc'[u] = "reserving" => /\ target'[cur'[u]] = target[cur[u]] /\ cur'[u] = cur[u]
                                          /\ pc[u] = "reserving"
    BY Zenon, <1>1 DEF Restore, Goto, TypeOK, CurOK
  <2> QED
    BY Zenon, <1>1, <2>1, <2>2, QueuesUntouched
<1>3. TypeOK'
  BY Zenon, <1>1, <1>2, ConstantsAssumption DEF Restore, Goto, BackendDisable, TypeOK, CurOK, PCs, HandleStates, ledgerVars, codeVars
<1>4. Control'
  <2>1. CurOK'
    BY Zenon, <1>1, BusyHandle DEF Restore, Goto, BackendDisable, TypeOK, Control, CurOK, Distinct,
       ledgerVars, codeVars
  <2>2. Distinct'
    BY Zenon, <1>1, ConstantsAssumption, BusyHandle DEF Restore, Goto, BackendDisable, TypeOK, CurOK, Control, Distinct
  <2>3. Fresh' /\ OrderTarget' /\ HandleOK'
    <3>1. Fresh'
      BY Zenon, <1>1, ConstantsAssumption DEF Restore, Goto, BackendDisable, TypeOK, CurOK, Control, Fresh, ledgerVars, codeVars
    <3>2. OrderTarget'
      BY Zenon, <1>1, ConstantsAssumption DEF Restore, Goto, BackendDisable, TypeOK, CurOK, Control, Fresh, OrderTarget,
         ledgerVars, codeVars
    <3>3. HandleOK'
      BY Zenon, <1>1, ConstantsAssumption DEF Restore, Goto, BackendDisable, TypeOK, CurOK, Control, Fresh, OrderTarget, HandleOK,
         ledgerVars, codeVars
    <3> QED
      BY Zenon, <3>1, <3>2, <3>3
  <2>4. StrictFirst'
    BY Zenon, <1>1, ConstantsAssumption DEF Restore, Goto, BackendDisable, TypeOK, CurOK, Control, Fresh, OrderTarget, StrictFirst,
       ledgerVars
  <2> QED
    BY Zenon, <2>1, <2>2, <2>3, <2>4 DEF Control
<1>5. Code'
  <2>1. Topmost'
    BY Zenon, <1>1 DEF Restore, Goto, TypeOK, Code, Topmost
  <2>2. Chain' /\ AllReached'
    BY Zenon, <1>1, DisarmTop DEF Restore, Goto, TypeOK, Code, Topmost, Control, CurOK, HandleOK
  <2> QED
    BY Zenon, <2>1, <2>2 DEF Code
<1> QED
  BY Zenon, <1>2, <1>3, <1>4, <1>5 DEF IInv

\* A teardown frees the trampoline of a disarmed hook.
LEMMA FreeTrampolineStep ==
  ASSUME IInv, NEW th \in Threads, FreeTrampoline(th)
  PROVE  IInv'
<1>1. TypeOK /\ Control /\ CurOK /\ Queues /\ Code
  BY Zenon DEF IInv, Control
<1>2. Queues'
  <2>1. /\ pending' = pending /\ m_next_id' \in Nat /\ m_next_id' >= m_next_id
        /\ \A i \in Ids : handle'[i] = "none" => handle[i] = "none"
    BY <1>1, ConstantsAssumption DEF FreeTrampoline, Goto, TypeOK, ledgerVars
  <2>2. ASSUME NEW u \in Threads
        PROVE  /\ pc'[u] \in Holding => /\ target'[cur'[u]] = target[cur[u]] /\ cur'[u] = cur[u]
                                        /\ pc[u] \in Holding \/ IsFront(target[cur[u]], cur[u])
               /\ pc'[u] = "reserving" => /\ target'[cur'[u]] = target[cur[u]] /\ cur'[u] = cur[u]
                                          /\ pc[u] = "reserving"
    BY Zenon, <1>1 DEF FreeTrampoline, Goto, TypeOK, CurOK
  <2> QED
    BY Zenon, <1>1, <2>1, <2>2, QueuesUntouched
<1>3. TypeOK'
  BY Zenon, <1>1, <1>2, ConstantsAssumption DEF FreeTrampoline, Goto, TypeOK, CurOK, PCs, HandleStates, ledgerVars, codeVars
<1>4. Control'
  <2>1. CurOK'
    BY Zenon, <1>1, BusyHandle DEF FreeTrampoline, Goto, TypeOK, Control, CurOK, Distinct,
       ledgerVars, codeVars
  <2>2. Distinct'
    BY Zenon, <1>1, ConstantsAssumption, BusyHandle DEF FreeTrampoline, Goto, TypeOK, CurOK, Control, Distinct
  <2>3. Fresh' /\ OrderTarget' /\ HandleOK'
    <3>1. Fresh'
      BY Zenon, <1>1, ConstantsAssumption DEF FreeTrampoline, Goto, TypeOK, CurOK, Control, Fresh, ledgerVars, codeVars
    <3>2. OrderTarget'
      BY Zenon, <1>1, ConstantsAssumption DEF FreeTrampoline, Goto, TypeOK, CurOK, Control, Fresh, OrderTarget,
         ledgerVars, codeVars
    <3>3. HandleOK'
      BY Zenon, <1>1, ConstantsAssumption DEF FreeTrampoline, Goto, TypeOK, CurOK, Control, Fresh, OrderTarget, HandleOK,
         ledgerVars, codeVars
    <3> QED
      BY Zenon, <3>1, <3>2, <3>3
  <2>4. StrictFirst'
    BY Zenon, <1>1, ConstantsAssumption DEF FreeTrampoline, Goto, TypeOK, CurOK, Control, Fresh, OrderTarget, StrictFirst,
       ledgerVars
  <2> QED
    BY Zenon, <2>1, <2>2, <2>3, <2>4 DEF Control
<1>5. Code'
  BY Zenon, <1>1, BusyHandle, CodeUntouched DEF FreeTrampoline, Goto, TypeOK, Control, Fresh, HandleOK, ledgerVars, codeVars
<1> QED
  BY Zenon, <1>2, <1>3, <1>4, <1>5 DEF IInv

\* Enabling the sole layer of a target.
LEMMA EnableStep ==
  ASSUME IInv, NEW id \in Ids, SoleLayer(id), Enable(id)
  PROVE  IInv'
<1>1. TypeOK /\ Control /\ CurOK /\ Queues /\ Code
  BY Zenon DEF IInv, Control
<1>2. Queues'
  <2>1. /\ pending' = pending /\ m_next_id' \in Nat /\ m_next_id' >= m_next_id
        /\ \A i \in Ids : handle'[i] = "none" => handle[i] = "none"
    BY <1>1, ConstantsAssumption DEF Enable, TypeOK, ledgerVars
  <2>2. ASSUME NEW u \in Threads
        PROVE  /\ pc'[u] \in Holding => /\ target'[cur'[u]] = target[cur[u]] /\ cur'[u] = cur[u]
                                        /\ pc[u] \in Holding \/ IsFront(target[cur[u]], cur[u])
               /\ pc'[u] = "reserving" => /\ target'[cur'[u]] = target[cur[u]] /\ cur'[u] = cur[u]
                                          /\ pc[u] = "reserving"
    BY Zenon, <1>1 DEF Enable, TypeOK, CurOK
  <2> QED
    BY Zenon, <1>1, <2>1, <2>2, QueuesUntouched
<1>3. TypeOK'
  <2>1. target[id] \in Targets /\ id \in trampolines
    BY Zenon, <1>1, BusyHandle, ConstantsAssumption DEF Enable, Control, HandleOK, TypeOK
  <2>2. /\ m_next_id' \in 1 .. (MaxId + 1) /\ order' \in [Targets -> SUBSET Ids]
        /\ pending' \in [Targets -> Seq(Ids)]
    BY Zenon, <1>1, <1>2, <2>1, ConstantsAssumption DEF Enable, BackendEnable, ledgerVars, TypeOK
  <2>3. /\ prologue' \in [Targets -> Ids \cup {Pristine}] /\ saved' \in [Ids -> Ids \cup {Pristine}]
        /\ trampolines' \in SUBSET Ids /\ armed' \in SUBSET trampolines'
    BY Zenon, <1>1, <2>1 DEF Enable, BackendEnable, ledgerVars, TypeOK, CurOK
  <2>4. /\ handle' \in [Ids -> HandleStates] /\ target' \in [Ids -> Targets]
        /\ strict' \in SUBSET Ids
    BY Zenon, <1>1, <2>1 DEF Enable, BackendEnable, ledgerVars, TypeOK, HandleStates
  <2>5. /\ pc' \in [Threads -> PCs] /\ cur' \in [Threads -> Ids \cup {0}]
    BY Zenon, <1>1, <2>1 DEF Enable, BackendEnable, ledgerVars, TypeOK, PCs, Holding, Waiting
  <2> QED
    BY Zenon, <2>2, <2>3, <2>4, <2>5 DEF TypeOK
<1>4. Control'
  <2>1. CurOK'
    BY Zenon, <1>1, BusyHandle DEF Enable, BackendEnable, TypeOK, Control, CurOK, Distinct,
       ledgerVars, codeVars
  <2>2. Distinct'
    BY Zenon, <1>1, ConstantsAssumption, BusyHandle DEF Enable, BackendEnable, TypeOK, CurOK, Control, Distinct
  <2>3. Fresh' /\ OrderTarget' /\ HandleOK'
    <3>1. Fresh'
      BY Zenon, <1>1, ConstantsAssumption DEF Enable, BackendEnable, TypeOK, CurOK, Control, Fresh, ledgerVars, codeVars
    <3>2. OrderTarget'
      BY Zenon, <1>1, ConstantsAssumption DEF Enable, BackendEnable, TypeOK, CurOK, Control, Fresh, OrderTarget,
         ledgerVars, codeVars
    <3>3. HandleOK'
      BY Zenon, <1>1, ConstantsAssumption DEF Enable, BackendEnable, TypeOK, CurOK, Control, Fresh, OrderTarget, HandleOK,
         ledgerVars, codeVars
    <3> QED
      BY Zenon, <3>1, <3>2, <3>3
  <2>4. StrictFirst'
    BY Zenon, <1>1, ConstantsAssumption DEF Enable, BackendEnable, TypeOK, CurOK, Control, Fresh, OrderTarget, StrictFirst,
       ledgerVars
  <2> QED
    BY Zenon, <2>1, <2>2, <2>3, <2>4 DEF Control
<1>5. Code'
  <2>1. Topmost'
    BY Zenon, <1>1 DEF Enable, SoleLayer, TypeOK, Code, Topmost
  <2>2. Chain' /\ AllReached'
    BY <1>1, ArmTop DEF Enable, SoleLayer, TypeOK, Code, Topmost, Control, CurOK, HandleOK
  <2> QED
    BY Zenon, <2>1, <2>2 DEF Code
<1> QED
  BY Zenon, <1>2, <1>3, <1>4, <1>5 DEF IInv

\* Disabling the sole layer of a target.
LEMMA DisableStep ==
  ASSUME IInv, NEW id \in Ids, SoleLayer(id), Disable(id)
  PROVE  IInv'
<1>1. TypeOK /\ Control /\ CurOK /\ Queues /\ Code
  BY Zenon DEF IInv, Control
<1>2. Queues'
  <2>1. /\ pending' = pending /\ m_next_id' \in Nat /\ m_next_id' >= m_next_id
        /\ \A i \in Ids : handle'[i] = "none" => handle[i] = "none"
    BY <1>1, ConstantsAssumption DEF Disable, TypeOK, ledgerVars
  <2>2. ASSUME NEW u \in Threads
        PROVE  /\ pc'[u] \in Holding => /\ target'[cur'[u]] = target[cur[u]] /\ cur'[u] = cur[u]
                                        /\ pc[u] \in Holding \/ IsFront(target[cur[u]], cur[u])
               /\ pc'[u] = "reserving" => /\ target'[cur'[u]] = target[cur[u]] /\ cur'[u] = cur[u]
                                          /\ pc[u] = "reserving"
    BY Zenon, <1>1 DEF Disable, TypeOK, CurOK
  <2> QED
    BY Zenon, <1>1, <2>1, <2>2, QueuesUntouched
<1>3. TypeOK'
  BY Zenon, <1>1, <1>2, ConstantsAssumption DEF Disable, BackendDisable, TypeOK, CurOK, PCs, HandleStates, ledgerVars, codeVars
<1>4. Control'
  <2>1. CurOK'
    BY Zenon, <1>1, BusyHandle DEF Disable, BackendDisable, TypeOK, Control, CurOK, Distinct,
       ledgerVars, codeVars
  <2>2. Distinct'
    BY Zenon, <1>1, ConstantsAssumption, BusyHandle DEF Disable, BackendDisable, TypeOK, CurOK, Control, Distinct
  <2>3. Fresh' /\ OrderTarget' /\ HandleOK'
    <3>1. Fresh'
      BY Zenon, <1>1, ConstantsAssumption DEF Disable, BackendDisable, TypeOK, CurOK, Control, Fresh, ledgerVars, codeVars
    <3>2. OrderTarget'
      BY Zenon, <1>1, ConstantsAssumption DEF Disable, BackendDisable, TypeOK, CurOK, Control, Fresh, OrderTarget,
         ledgerVars, codeVars
    <3>3. HandleOK'
      BY Zenon, <1>1, ConstantsAssumption DEF Disable, BackendDisable, TypeOK, CurOK, Control, Fresh, OrderTarget, HandleOK,
         ledgerVars, codeVars
    <3> QED
      BY Zenon, <3>1, <3>2, <3>3
  <2>4. StrictFirst'
    BY Zenon, <1>1, ConstantsAssumption DEF Disable, BackendDisable, TypeOK, CurOK, Control, Fresh, OrderTarget, StrictFirst,
       ledgerVars
  <2> QED
    BY Zenon, <2>1, <2>2, <2>3, <2>4 DEF Control
<1>5. Code'
  <2>1. Topmost'
    BY Zenon, <1>1 DEF Disable, SoleLayer, TypeOK, Code, Topmost
  <2>2. Chain' /\ AllReached'
    BY <1>1, DisarmTop DEF Disable, SoleLayer, TypeOK, Code, Topmost, Control, CurOK, HandleOK
  <2> QED
    BY Zenon, <2>1, <2>2 DEF Code
<1> QED
  BY Zenon, <1>2, <1>3, <1>4, <1>5 DEF IInv

-----------------------------------------------------------------------------
(* The theorems. *)

\* The fresh ledger: no reservation, every prologue pristine.
LEMMA InitEstablishesIInv == Init => IInv
<1> SUFFICES ASSUME Init PROVE IInv
  OBVIOUS
<1>1. TypeOK
  <2>1. (CHOOSE t \in Targets : TRUE) \in Targets
    BY Zenon, ConstantsAssumption
  <2>2. target \in [Ids -> Targets]
    BY Zenon, <2>1 DEF Init
  <2>3. m_next_id \in 1 .. (MaxId + 1) /\ pending \in [Targets -> Seq(Ids)]
    BY ConstantsAssumption DEF Init
  <2> QED
    BY Zenon, <2>2, <2>3 DEF Init, TypeOK, HandleStates, PCs
<1>2. Control
  BY Zenon DEF Init, Control, CurOK, Distinct, Fresh, OrderTarget, HandleOK, StrictFirst
<1>3. Queues
  BY DEF Init, Queues, Slot, Queued, QueueOrder
<1>4. Code
  BY Zenon DEF Init, Code, Topmost, Chain, GreatestOf, AllReached
<1> QED
  BY Zenon, <1>1, <1>2, <1>3, <1>4 DEF IInv

\* Every step of the install verbs, of ~Hook and of the ledger keeps the invariant.
LEMMA NextKeepsIInv == IInv /\ [Next]_vars => IInv'
<1> SUFFICES ASSUME IInv, [Next]_vars PROVE IInv'
  OBVIOUS
<1>1. CASE UNCHANGED vars
  <2> USE <1>1 DEF vars, ledgerVars, codeVars, IInv
  <2>1. TypeOK'
    BY Zenon DEF TypeOK
  <2>2. Control'
    BY Zenon DEF Control, CurOK, Distinct, Fresh, OrderTarget, HandleOK, StrictFirst
  <2>3. Queues'
    BY Zenon DEF Queues, Slot, IsFront, Queued, QueueOrder
  <2>4. Code'
    BY Zenon DEF Code, Topmost, Chain, AllReached, Reached
  <2> QED
    BY Zenon, <2>1, <2>2, <2>3, <2>4
<1>2. ASSUME NEW th \in Threads, Start(th) PROVE IInv'
  BY Zenon, <1>2, ReserveStep, ReserveRunsOutOfMemoryStep, BeginTeardownStep DEF Start
<1>3. ASSUME NEW th \in Threads, Continue(th) PROVE IInv'
  <2>1. CASE Unreserve(th)
    BY Zenon, <2>1, ReleaseStep DEF Unreserve
  <2>2. CASE InstallFails(th)
    BY Zenon, <2>2, ReleaseStep DEF InstallFails
  <2>3. CASE RollBack(th)
    BY Zenon, <2>3, ReleaseStep DEF RollBack
  <2>4. CASE ReleaseHook(th)
    BY Zenon, <2>4, ReleaseStep DEF ReleaseHook
  <2>5. CASE Commit(th)
    BY Zenon, <2>5, LeaveSlotStep DEF Commit
  <2>6. CASE Leak(th)
    BY Zenon, <2>6, LeaveSlotStep DEF Leak, release_teardown_slot, commit_hook
  <2>7. CASE Reserved(th) \/ TeardownTurn(th)
    BY Zenon, <2>7, ReservedStep, TeardownTurnStep
  <2>8. CASE BackendCreate(th) \/ BackendPatch(th) \/ Unwind(th)
    BY Zenon, <2>8, BackendCreateStep, BackendPatchStep, UnwindStep
  <2>9. CASE Restore(th) \/ FreeTrampoline(th)
    BY Zenon, <2>9, RestoreStep, FreeTrampolineStep
  <2> QED
    BY Zenon, <1>3, <2>1, <2>2, <2>3, <2>4, <2>5, <2>6, <2>7, <2>8, <2>9 DEF Continue
<1>4. ASSUME NEW id \in Ids,
             \/ Abandon(id) \/ TeardownRunsOutOfMemory(id)
             \/ SoleLayer(id) /\ (Enable(id) \/ Disable(id))
      PROVE  IInv'
  BY Zenon, <1>4, AbandonStep, TeardownRunsOutOfMemoryStep, EnableStep, DisableStep
<1> QED
  BY Zenon, <1>1, <1>2, <1>3, <1>4 DEF Next

\* The inductive invariant holds throughout every history of installs and teardowns.
THEOREM InvariantHolds == Spec => []IInv
  BY InitEstablishesIInv, NextKeepsIInv, PTL DEF Spec

\* The ledger, the queues and the code bytes stay well formed.
THEOREM TypeCorrect == Spec => []TypeOK
<1>1. IInv => TypeOK
  BY Zenon DEF IInv
<1> QED
  BY <1>1, InvariantHolds, PTL

\* At most one thread at a time reads or writes the prologue of a target.
THEOREM PatchingIsExclusive == Spec => []PatchExclusion
<1>1. IInv => PatchExclusion
  BY DEF IInv, Control, Distinct, Queues, Slot, IsFront, PatchExclusion, Patching
<1> QED
  BY <1>1, InvariantHolds, PTL

\* No prologue and no trampoline of this kit ever leads into a freed trampoline.
THEOREM NothingDangles == Spec => []NoDanglingJump
<1>1. IInv => NoDanglingJump
  BY Zenon DEF IInv, TypeOK, Code, Chain, GreatestOf, NoDanglingJump
<1> QED
  BY <1>1, InvariantHolds, PTL

\* A target without a ledger entry carries its original bytes.
THEOREM UntrackedTargetsArePristine == Spec => []UntrackedIsPristine
<1>1. IInv => UntrackedIsPristine
  BY Zenon DEF IInv, TypeOK, Control, HandleOK, Code, Chain, GreatestOf, UntrackedIsPristine
<1> QED
  BY <1>1, InvariantHolds, PTL

\* No install or teardown of another layer cuts an enabled hook out of the chain.
THEOREM EnabledHooksStayReached == Spec => []LiveHooksAreReached
<1>1. IInv => LiveHooksAreReached
  BY Zenon DEF IInv, Code, AllReached, LiveHooksAreReached
<1> QED
  BY <1>1, InvariantHolds, PTL

\* A hook installed with fail_if_already_hooked sits directly on the original bytes.
THEOREM StrictHooksSitAtTheBottom == Spec => []StrictNeverLayers
<1>1. IInv => StrictNeverLayers
  <2> SUFFICES ASSUME IInv, NEW id \in strict, id \in trampolines
               PROVE  saved[id] = Pristine
    BY Zenon DEF StrictNeverLayers
  <2>1. \A a \in armed : target[a] = target[id] => id <= a
    BY Zenon DEF IInv, TypeOK, Control, HandleOK, StrictFirst
  <2>2. \A a \in armed : target[a] = target[id] => ~ (a < id)
    BY <2>1 DEF IInv, TypeOK
  <2>3. {a \in armed : target[a] = target[id] /\ a < id} = {}
    BY Zenon, <2>2
  <2> QED
    BY Zenon, <2>3 DEF IInv, Code, Chain, GreatestOf
<1> QED
  BY <1>1, InvariantHolds, PTL

\* All of the above for every number of threads, targets and reservations.
THEOREM PatchesStaySound == Spec => []PatchesAreSound
  BY TypeCorrect, PatchingIsExclusive, NothingDangles, UntrackedTargetsArePristine,
     StrictHooksSitAtTheBottom, PTL DEF PatchesAreSound
=============================================================================
