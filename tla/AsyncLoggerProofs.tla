--------------------------- MODULE AsyncLoggerProofs ---------------------------
(***************************************************************************)
(* Proofs about AsyncLogger, for any number of producers and messages, any *)
(* capacity and batch size, all overflow policies, and shutdowns with and  *)
(* without the loader lock.                                                *)
(*                                                                         *)
(* The argument follows a message.  From the moment its number is taken it *)
(* is in one place: with its producer, in a cell of the queue, with the    *)
(* producer that evicts it, in a batch, in the file, or among the evicted  *)
(* or refused; these sets are disjoint (Apart), and every step moves       *)
(* messages between two of them.                                           *)
(*                                                                         *)
(* On top of it LInv has three invariants: the pending count is the number *)
(* of messages in the places that are counted (Exact), a writer that       *)
(* sleeps over a published message has a producer on its way to wake it    *)
(* (Alert), and file, batch and queue together are ordered for each        *)
(* producer (Ordered).                                                     *)
(***************************************************************************)
EXTENDS AsyncLogger, TLAPS

\* Where a producer is while its message is its own.
OwnPCs == {"sync", "count", "push", "undo", "recount", "retry", "evict", "evicting", "repush",
           "giveup", "drop"}
ProducerPCs == OwnPCs \cup {"idle", "publish", "notify", "wake"}
WriterPCs == {"loop", "empty", "emptied", "pop", "popping", "write", "uncount", "signal", "park",
              "pending?", "running?", "asleep", "unpark", "zero", "done"}
StopperPCs == {"idle", "stop", "wake", "join", "pop", "popping", "write", "zero", "done", "freed",
               "leaked"}
FlusherPCs == {"idle", "lock", "asleep", "flushed", "late"}

Consumers == {Writer, Stopper}
Messages == Producers \X Nat

\* The messages that producers have begun to log.
Logged == {m \in Messages : 1 <= m[2] /\ m[2] <= sent[m[1]]}

PcTypes ==
  /\ pc \in [Procs -> ProducerPCs \cup WriterPCs \cup StopperPCs \cup FlusherPCs]
  /\ pc[Writer] \in WriterPCs /\ pc[Stopper] \in StopperPCs /\ pc[Flusher] \in FlusherPCs
  /\ \A p \in Producers : pc[p] \in ProducerPCs

QueueTypes ==
  /\ head \in Nat /\ tail \in Nat /\ head <= tail /\ tail <= head + Capacity
  /\ cell \in [head .. (tail - 1) -> [item : Messages, ready : BOOLEAN]]
  /\ held \in SUBSET [pos : Nat, item : Messages]

FlagTypes ==
  /\ overflow_policy \in Policies
  /\ m_running \in BOOLEAN /\ m_shutdown_requested \in BOOLEAN /\ m_writer_waiting \in BOOLEAN
  /\ m_writer_detached \in BOOLEAN /\ parking \in BOOLEAN
  /\ m_pending_messages \in 0 .. (2 ^ Width - 1)
  /\ asleep \subseteq {Writer, Flusher}
  /\ enq \in Nat

DataTypes ==
  /\ m_dropped_messages \in Nat
  /\ batch \in [Consumers -> Seq(Messages)]
  /\ \A w \in Consumers : Len(batch[w]) <= BatchSize
  /\ sent \in [Producers -> Nat] /\ num \in [Producers -> Nat]
  /\ \A p \in Producers : sent[p] <= Quota[p] /\ (pc[p] # "idle" => sent[p] >= 1)
  /\ written \in Seq(Messages)
  /\ m_file_stream \in {"good", "bad"}

\* Everything that is somewhere was logged.
HeldItems == {h.item : h \in held}

Known ==
  /\ InQueue \subseteq Logged /\ HeldItems \subseteq Logged /\ Range(written) \subseteq Logged
  /\ accepted \subseteq Logged /\ refused \subseteq Logged /\ evicted \subseteq Logged
  /\ \A w \in Consumers : Range(batch[w]) \subseteq Logged
  /\ snapshot \subseteq accepted

Types == PcTypes /\ QueueTypes /\ FlagTypes /\ DataTypes /\ Known

\* Who runs, who holds m_flush_mutex, who sleeps.
Control ==
  /\ m_running <=> pc[Stopper] \in {"idle", "stop"}
  /\ m_shutdown_requested <=> pc[Stopper] # "idle"
  /\ parking <=> pc[Writer] \in {"pending?", "running?", "unpark"}
  /\ pc[Writer] \in {"pending?", "running?", "asleep", "unpark"} => m_writer_waiting
  /\ Writer \in asleep => pc[Writer] = "asleep" /\ pc[Stopper] \in {"idle", "stop", "wake"}
  /\ pc[Writer] \in {"empty", "emptied", "zero", "done"} => ~ m_running
  /\ pc[Stopper] \in {"idle", "stop", "wake", "join"} => batch[Stopper] = <<>>
  /\ pc[Stopper] \in {"pop", "popping", "write", "zero", "done", "freed"} /\ ~ m_writer_detached
       => pc[Writer] = "done"
  /\ pc[Stopper] = "freed" => ~ m_writer_detached
  /\ \A p \in Producers : pc[p] = "sync" => m_shutdown_requested \/ overflow_policy = "SyncFallback"
  /\ \A w \in Consumers : pc[w] = "popping" => Len(batch[w]) > 0

\* p evicts the message in h; w has h in its batch.
Evicts(p, h) == pc[p] = "evicting" /\ num[p] = h.pos
Pops(w, h) == pc[w] = "popping" /\ Len(batch[w]) > 0 /\ h.item = batch[w][Len(batch[w])]

\* A popped cell belongs to one popper, a claimed one to its producer until it is published.
Slots ==
  /\ \A h \in held : h.pos < head
  /\ \A g, h \in held : g.pos = h.pos \/ g.item = h.item => g = h
  /\ \A h \in held : (\E p \in Producers : Evicts(p, h)) \/ (\E w \in Consumers : Pops(w, h))
  /\ \A p \in Producers : pc[p] = "evicting" => num[p] < head
  /\ \A p, q \in Producers : pc[p] = "evicting" /\ pc[q] = "evicting" /\ num[p] = num[q] => p = q
  /\ \A p \in Producers : pc[p] = "publish" =>
       num[p] \in DOMAIN cell /\ ~ cell[num[p]].ready /\ cell[num[p]].item = Message(p)

\* The places a message may be in.
Own == {Message(p) : p \in {q \in Producers : pc[q] \in OwnPCs}}
Evicting == {h.item : h \in {g \in held : \E p \in Producers : Evicts(p, g)}}
InBatch(w) == IF w = Writer /\ pc[Writer] \in {"uncount", "signal"} THEN {} ELSE Range(batch[w])
InFile == Range(written)

PlaceNames == {"own", "queue", "evicting", "writer", "stopper", "file", "evicted", "refused"}
Place(a) == CASE a = "own"      -> Own
              [] a = "queue"    -> InQueue
              [] a = "evicting" -> Evicting
              [] a = "writer"   -> InBatch(Writer)
              [] a = "stopper"  -> InBatch(Stopper)
              [] a = "file"     -> InFile
              [] a = "evicted"  -> evicted
              [] a = "refused"  -> refused

Once(s) == \A i, j \in DOMAIN s : s[i] = s[j] => i = j

\* A message is in one place, and there once.
Apart == \A a, b \in PlaceNames : a # b => Place(a) \cap Place(b) = {}
OnceEach == /\ \A i, j \in DOMAIN cell : cell[i].item = cell[j].item => i = j
            /\ \A w \in Consumers : Once(batch[w])
            /\ Once(written)

\* Where an accepted message may be while the file is good.
Somewhere == InFile \cup evicted \cup InQueue \cup Range(batch[Writer]) \cup Range(batch[Stopper])
               \cup HeldItems

\* Where a producer is once its message has a cell.
PushedPCs == {"publish", "notify", "wake"}

Accounts ==
  /\ accepted \cap refused = {}
  /\ \A p \in Producers : pc[p] # "idle" => Message(p) \notin accepted \cup refused
  /\ IsFiniteSet(refused \cup evicted)
  /\ m_file_stream = "good" =>
       /\ accepted \subseteq Somewhere
       /\ \A p \in Producers : pc[p] \in PushedPCs => Message(p) \in Somewhere
       /\ pc[Writer] \in {"uncount", "signal"} => Range(batch[Writer]) \subseteq InFile
       /\ m_dropped_messages = Cardinality(refused \cup evicted)

\* Where a producer is before its message has a cell.
PushPCs == {"count", "push", "undo", "recount", "retry", "evict", "evicting", "repush"}

\* Once the writer has seen the queue empty for the last time, a producer pushes once more at most.
Late ==
  pc[Writer] \in {"emptied", "zero", "done"} =>
    /\ enq <= tail
    /\ pc[Writer] # "emptied" => enq <= head
    /\ \A i \in DOMAIN cell : i >= enq => pc[cell[i].item[1]] \notin PushPCs
    /\ \A i, j \in DOMAIN cell :
         i >= enq /\ j >= enq /\ cell[i].item[1] = cell[j].item[1] => i = j

AInv == Types /\ Control /\ Slots /\ Apart /\ OnceEach /\ Accounts /\ Late

-----------------------------------------------------------------------------
(* Sequences. *)

\* What appending does to a sequence and to its elements.
LEMMA RangeAppend ==
  ASSUME NEW S, NEW s \in Seq(S), NEW e \in S
  PROVE  /\ Append(s, e) \in Seq(S) /\ Len(s) \in Nat /\ Len(Append(s, e)) = Len(s) + 1
         /\ Range(Append(s, e)) = Range(s) \cup {e}
         /\ \A i \in 1 .. Len(s) : Append(s, e)[i] = s[i]
         /\ Append(s, e)[Len(s) + 1] = e
         /\ DOMAIN s = 1 .. Len(s) /\ DOMAIN Append(s, e) = 1 .. (Len(s) + 1)
<1>1. /\ Append(s, e) \in Seq(S) /\ Len(Append(s, e)) = Len(s) + 1
      /\ \A i \in 1 .. Len(s) : Append(s, e)[i] = s[i]
      /\ Append(s, e)[Len(s) + 1] = e
      /\ DOMAIN s = 1 .. Len(s) /\ DOMAIN Append(s, e) = 1 .. (Len(s) + 1) /\ Len(s) \in Nat
  OBVIOUS
<1>2. /\ \A i \in 1 .. (Len(s) + 1) : i \in 1 .. Len(s) \/ i = Len(s) + 1
      /\ \A i \in 1 .. Len(s) : i \in 1 .. (Len(s) + 1)
      /\ Len(s) + 1 \in 1 .. (Len(s) + 1)
  BY <1>1
<1>3. Range(Append(s, e)) = Range(s) \cup {e}
  <2>1. ASSUME NEW x \in Range(Append(s, e)) PROVE x \in Range(s) \cup {e}
    BY Zenon, <1>1, <1>2 DEF Range
  <2>2. ASSUME NEW x \in Range(s) PROVE x \in Range(Append(s, e))
    BY Zenon, <1>1, <1>2 DEF Range
  <2>3. e \in Range(Append(s, e))
    BY Zenon, <1>1, <1>2 DEF Range
  <2> QED
    BY Zenon, <2>1, <2>2, <2>3
<1> QED
  BY Zenon, <1>1, <1>3

\* The indices of a concatenation.
Joined(s, t) ==
  /\ Len(s) \in Nat /\ DOMAIN s = 1 .. Len(s) /\ DOMAIN t = 1 .. Len(t)
  /\ DOMAIN (s \o t) = 1 .. (Len(s) + Len(t))
  /\ \A i \in 1 .. (Len(s) + Len(t)) :
       \/ i \in 1 .. Len(s) /\ (s \o t)[i] = s[i]
       \/ i > Len(s) /\ i - Len(s) \in 1 .. Len(t) /\ (s \o t)[i] = t[i - Len(s)]
  /\ \A i \in 1 .. Len(s) : i \in 1 .. (Len(s) + Len(t)) /\ (s \o t)[i] = s[i]
  /\ \A i \in 1 .. Len(t) :
       Len(s) + i \in 1 .. (Len(s) + Len(t)) /\ (s \o t)[Len(s) + i] = t[i]

\* Where the elements of a concatenation come from.
LEMMA ConcatIndices ==
  ASSUME NEW S, NEW s \in Seq(S), NEW t \in Seq(S)
  PROVE  s \o t \in Seq(S) /\ Joined(s, t)
<1>1. /\ s \o t \in Seq(S)
      /\ DOMAIN s = 1 .. Len(s) /\ DOMAIN t = 1 .. Len(t)
      /\ Len(s) \in Nat /\ Len(t) \in Nat
      /\ DOMAIN (s \o t) = 1 .. (Len(s) + Len(t))
      /\ \A i \in 1 .. (Len(s) + Len(t)) :
           (s \o t)[i] = IF i <= Len(s) THEN s[i] ELSE t[i - Len(s)]
  OBVIOUS
<1> QED
  BY <1>1 DEF Joined

\* The elements of a concatenation.
LEMMA RangeConcat ==
  ASSUME NEW S, NEW s \in Seq(S), NEW t \in Seq(S)
  PROVE  s \o t \in Seq(S) /\ Range(s \o t) = Range(s) \cup Range(t)
<1>0. s \o t \in Seq(S) /\ Joined(s, t) /\ DOMAIN s = 1 .. Len(s) /\ DOMAIN t = 1 .. Len(t)
  BY ConcatIndices DEF Joined
<1>1. ASSUME NEW x \in Range(s \o t) PROVE x \in Range(s) \cup Range(t)
  BY Zenon, <1>0 DEF Range, Joined
<1>2. ASSUME NEW x \in Range(s) PROVE x \in Range(s \o t)
  <2>1. PICK i \in 1 .. Len(s) : x = s[i]
    BY Zenon, <1>0 DEF Range
  <2>2. i \in DOMAIN (s \o t) /\ x = (s \o t)[i]
    BY Zenon, <1>0, <2>1 DEF Joined
  <2> QED
    BY Zenon, <2>2 DEF Range
<1>3. ASSUME NEW x \in Range(t) PROVE x \in Range(s \o t)
  <2>1. PICK i \in 1 .. Len(t) : x = t[i]
    BY Zenon, <1>0 DEF Range
  <2>2. Len(s) + i \in DOMAIN (s \o t) /\ x = (s \o t)[Len(s) + i]
    BY Zenon, <1>0, <2>1 DEF Joined
  <2> QED
    BY Zenon, <2>2 DEF Range
<1> QED
  BY Zenon, <1>0, <1>1, <1>2, <1>3

\* A new element.
LEMMA OnceAppend ==
  ASSUME NEW S, NEW s \in Seq(S), NEW e \in S, Once(s), e \notin Range(s)
  PROVE  Once(Append(s, e))
<1>1. \A i \in 1 .. Len(s) : s[i] # e
  BY Zenon, RangeAppend DEF Range
<1> QED
  BY <1>1, RangeAppend DEF Once

\* Two sequences with no element in common.
LEMMA OnceConcat ==
  ASSUME NEW S, NEW s \in Seq(S), NEW t \in Seq(S), Once(s), Once(t), Range(s) \cap Range(t) = {}
  PROVE  Once(s \o t)
<1>0. Joined(s, t)
  BY ConcatIndices
<1>1. \A i \in 1 .. Len(s), j \in 1 .. Len(t) : s[i] # t[j]
  BY Zenon, <1>0 DEF Range, Joined
<1>2. SUFFICES ASSUME NEW i \in 1 .. (Len(s) + Len(t)), NEW j \in 1 .. (Len(s) + Len(t)),
                      (s \o t)[i] = (s \o t)[j]
               PROVE  i = j
  BY Zenon, <1>0 DEF Once, Joined
<1>3. CASE i \in 1 .. Len(s) /\ (s \o t)[i] = s[i] /\ j \in 1 .. Len(s) /\ (s \o t)[j] = s[j]
  BY Zenon, <1>0, <1>2, <1>3 DEF Once, Joined
<1>4. CASE /\ i - Len(s) \in 1 .. Len(t) /\ (s \o t)[i] = t[i - Len(s)]
           /\ j - Len(s) \in 1 .. Len(t) /\ (s \o t)[j] = t[j - Len(s)]
  <2>1. i - Len(s) = j - Len(s)
    BY Zenon, <1>0, <1>2, <1>4 DEF Once, Joined
  <2>2. Len(s) \in Nat /\ i \in Int /\ j \in Int
    BY <1>0 DEF Joined
  <2> QED
    BY <2>1, <2>2
<1> QED
  BY <1>0, <1>1, <1>2, <1>3, <1>4 DEF Joined

-----------------------------------------------------------------------------
(* Processes, messages and places. *)

\* The processes are different ones.
LEMMA ProcsApart ==
  /\ Writer \in Procs /\ Stopper \in Procs /\ Flusher \in Procs /\ Producers \subseteq Procs
  /\ Writer \in Consumers /\ Stopper \in Consumers /\ Consumers \subseteq Procs
  /\ Writer # Stopper /\ Writer # Flusher /\ Stopper # Flusher
  /\ Writer \notin Producers /\ Stopper \notin Producers /\ Flusher \notin Producers
BY LoggerAssumption DEF Procs, Consumers, Writer, Stopper, Flusher

\* Only x moves.
Alone(x) == \A y \in Procs : y # x => pc'[y] = pc[y]

\* A step of one process.
LEMMA PcMoves ==
  ASSUME PcTypes, NEW x \in Procs, NEW to, pc' = [pc EXCEPT ![x] = to]
  PROVE  pc'[x] = to /\ Alone(x)
BY DEF PcTypes, Alone

\* The message a producer logs is one of those it has begun to log, and no other producer's.
LEMMA MessageLogged ==
  ASSUME DataTypes, NEW p \in Producers
  PROVE  /\ Message(p) \in Messages /\ Message(p)[1] = p /\ Message(p)[2] = sent[p]
         /\ pc[p] # "idle" => Message(p) \in Logged
         /\ \A q \in Producers : Message(q) = Message(p) => q = p
BY DEF DataTypes, Message, Messages, Logged

\* enqueue takes the next number.
LEMMA LoggedGrows ==
  ASSUME DataTypes, NEW p \in Producers, sent' = [sent EXCEPT ![p] = sent[p] + 1]
  PROVE  /\ Logged \subseteq Logged' /\ Message(p)' \in Logged' \ Logged
         /\ sent' \in [Producers -> Nat] /\ sent'[p] = sent[p] + 1
         /\ \A q \in Producers : q # p => sent'[q] = sent[q] /\ Message(q)' = Message(q)
<1>1. /\ sent' \in [Producers -> Nat] /\ sent'[p] = sent[p] + 1
      /\ \A q \in Producers : q # p => sent'[q] = sent[q]
      /\ \A q \in Producers : sent[q] \in Nat /\ sent[q] <= sent'[q]
  BY DEF DataTypes
<1>2. Logged \subseteq Logged'
  BY <1>1 DEF Logged, Messages
<1>3. Message(p)' \in Logged' \ Logged
  BY <1>1 DEF Logged, Message, Messages
<1>4. \A q \in Producers : q # p => Message(q)' = Message(q)
  BY Zenon, <1>1 DEF Message
<1> QED
  BY Zenon, <1>1, <1>2, <1>3, <1>4

\* A step that leaves messages where they are but for those in X, which it puts into one place.
LEMMA ApartMoves ==
  ASSUME Apart, NEW to \in PlaceNames, NEW X,
         \A a \in PlaceNames : a # to => Place(a)' \subseteq Place(a) \ X,
         Place(to)' \subseteq Place(to) \cup X
  PROVE  Apart'
<1> SUFFICES ASSUME NEW a \in PlaceNames, NEW b \in PlaceNames, a # b
             PROVE  Place(a)' \cap Place(b)' = {}
  BY Zenon DEF Apart
<1>1. Place(a) \cap Place(b) = {}
  BY Zenon DEF Apart
<1> QED
  BY Zenon, <1>1

\* The same with the messages of one other place.
LEMMA ApartFrom ==
  ASSUME Apart, NEW from \in PlaceNames, NEW to \in PlaceNames, NEW X,
         from # to, X \subseteq Place(from), Place(from)' \subseteq Place(from) \ X,
         \A a \in PlaceNames \ {from, to} : Place(a)' \subseteq Place(a),
         Place(to)' \subseteq Place(to) \cup X
  PROVE  Apart'
<1>1. \A a \in PlaceNames : a # to => Place(a)' \subseteq Place(a) \ X
  BY Zenon DEF Apart
<1> QED
  BY Zenon, <1>1, ApartMoves

\* The places by name.
LEMMA PlacesAre ==
  /\ Place("own") = Own /\ Place("queue") = InQueue /\ Place("evicting") = Evicting
  /\ Place("writer") = InBatch(Writer) /\ Place("stopper") = InBatch(Stopper)
  /\ Place("file") = InFile /\ Place("evicted") = evicted /\ Place("refused") = refused
BY DEF Place

-----------------------------------------------------------------------------
(* Steps that move no message, and those that do. *)

\* A step that keeps every message where it is.
Still ==
  /\ UNCHANGED <<head, tail, cell, held, batch, written, m_dropped_messages, accepted, refused,
                 evicted, sent, num>>
  /\ \A p \in Producers : \/ pc'[p] = pc[p]
                          \/ /\ pc[p] \in OwnPCs \ {"evicting"}
                             /\ pc'[p] \in OwnPCs \ {"evicting"}
  /\ \A w \in Consumers : pc'[w] = "popping" <=> pc[w] = "popping"
  /\ pc'[Writer] \in {"uncount", "signal"} <=> pc[Writer] \in {"uncount", "signal"}
  /\ m_file_stream' \in {m_file_stream, "bad"}
  /\ snapshot' \in {snapshot, accepted}

\* The steps that move one, or end a push.
Moving ==
  \/ \E p \in Producers :
       \/ Enqueue(p) \/ WriteSync(p) \/ PushClaims(p) \/ PushPublishes(p) \/ LookForWriter(p)
       \/ WakeWriter(p) \/ DropNew(p) \/ EvictTakes(p) \/ EvictFrees(p)
  \/ \E w \in Consumers : PopTakes(w) \/ PopFrees(w) \/ WriteBatch(w)
  \/ SignalFlushed

\* The overflow policies, by name.
LEMMA PolicySteps ==
  ASSUME FlagTypes
  PROVE  /\ [DropNewest |-> "drop", DropOldest |-> "evict", Block |-> "recount",
             SyncFallback |-> "sync"][overflow_policy] \in {"drop", "evict", "recount", "sync"}
         /\ [DropNewest |-> "drop", DropOldest |-> "evict", Block |-> "recount",
             SyncFallback |-> "sync"][overflow_policy] = "sync" => overflow_policy = "SyncFallback"
BY LoggerAssumption DEF FlagTypes

\* What these steps of a producer do.
LEMMA ProducerStillDoes ==
  ASSUME Types, NEW p \in Producers,
         Count(p) \/ PushRefused(p) \/ BlockTimeout(p) \/ Uncount(p) \/ EvictFinds(p)
  PROVE  /\ UNCHANGED <<head, tail, cell, held, batch, written, m_dropped_messages, accepted, refused,
                        evicted, sent, num, m_file_stream, snapshot>>
         /\ pc[p] \in OwnPCs \ {"evicting"} /\ pc'[p] \in OwnPCs \ {"evicting"} /\ Alone(p)
<1>1. SUFFICES /\ UNCHANGED <<head, tail, cell, held, batch, written, m_dropped_messages, accepted,
                             refused, evicted, sent, num, m_file_stream, snapshot>>
               /\ pc[p] \in OwnPCs \ {"evicting"}
               /\ \E to \in OwnPCs \ {"evicting"} : pc' = [pc EXCEPT ![p] = to]
  BY Zenon, <1>1, PcMoves, ProcsApart DEF Types
<1> USE DEF queueVars, others, fates, counts
<1>2. CASE Count(p)
  BY Zenon, <1>2 DEF Count, OwnPCs
<1>3. CASE PushRefused(p)
  BY Zenon, <1>3 DEF PushRefused, Goto, OwnPCs
<1>4. CASE BlockTimeout(p)
  BY Zenon, <1>4 DEF BlockTimeout, Goto, OwnPCs
<1>5. CASE Uncount(p)
  <2>1. PICK to : pc' = [pc EXCEPT ![p] = to] /\ to \in {"drop", "evict", "recount", "sync"}
    BY Zenon, <1>5, PolicySteps DEF Uncount, Goto, Types
  <2> QED
    BY Zenon, <1>5, <2>1 DEF Uncount, Goto, OwnPCs
<1>6. CASE EvictFinds(p)
  BY Zenon, <1>6 DEF EvictFinds, Goto, OwnPCs
<1> QED
  BY Zenon, <1>2, <1>3, <1>4, <1>5, <1>6

\* Steps of the writer, the stopper and the flusher that keep all messages where they are.
LEMMA ConsumerStill ==
  ASSUME PcTypes, NEW x \in {Writer, Stopper, Flusher}, NEW to,
         UNCHANGED <<head, tail, cell, held, batch, written, m_dropped_messages, accepted, refused,
                     evicted, sent, num, m_file_stream>>,
         snapshot' \in {snapshot, accepted},
         pc' = [pc EXCEPT ![x] = to],
         pc[x] # "popping" /\ to # "popping",
         x = Writer => (to \in {"uncount", "signal"} <=> pc[x] \in {"uncount", "signal"})
  PROVE  Still
<1>1. pc'[x] = to /\ Alone(x)
  BY Zenon, PcMoves, ProcsApart
<1> QED
  BY Zenon, <1>1, ProcsApart DEF Still, Alone

\* These steps of the writer move no message.
LEMMA WriterStill ==
  ASSUME Types,
         \/ PopEnds(Writer) \/ ForceZero(Writer) \/ LoopLooks \/ EmptyLoads \/ EmptyCompares
         \/ UncountBatch \/ Park \/ CheckPending \/ CheckRunning \/ WriterWakes \/ WriterTimeout
         \/ Unpark
  PROVE  Still
<1>1. SUFFICES /\ UNCHANGED <<head, tail, cell, held, batch, written, m_dropped_messages, accepted,
                              refused, evicted, sent, num, m_file_stream, snapshot>>
               /\ \E to \in WriterPCs :
                    /\ pc' = [pc EXCEPT ![Writer] = to]
                    /\ pc[Writer] # "popping" /\ to # "popping"
                    /\ to \in {"uncount", "signal"} <=> pc[Writer] \in {"uncount", "signal"}
  BY Zenon, <1>1, ConsumerStill DEF Types
<1> USE DEF queueVars, writerIdle, production, fates
<1>2. CASE PopEnds(Writer)
  <2>1. PICK to \in {"write", "park"} : pc' = [pc EXCEPT ![Writer] = to]
    BY Zenon, <1>2 DEF PopEnds, Goto
  <2> QED
    BY Zenon, <1>2, <2>1 DEF PopEnds, Goto, WriterPCs
<1>3. CASE ForceZero(Writer)
  BY Zenon, <1>3 DEF ForceZero, Goto, WriterPCs
<1>4. CASE LoopLooks \/ EmptyCompares
  <2>1. PICK to \in {"pop", "empty", "zero"} : pc' = [pc EXCEPT ![Writer] = to]
    BY Zenon, <1>4 DEF LoopLooks, EmptyCompares, Goto
  <2> QED
    BY Zenon, <1>4, <2>1 DEF LoopLooks, EmptyCompares, Goto, WriterPCs
<1>5. CASE EmptyLoads
  BY Zenon, <1>5 DEF EmptyLoads, Goto, WriterPCs
<1>6. CASE UncountBatch
  BY Zenon, <1>6 DEF UncountBatch, Goto, WriterPCs
<1>7. CASE Park \/ WriterWakes
  BY Zenon, <1>7 DEF Park, WriterWakes, Goto, WriterPCs
<1>8. CASE CheckPending \/ CheckRunning
  <2>1. PICK to \in {"unpark", "running?", "asleep"} : pc' = [pc EXCEPT ![Writer] = to]
    BY Zenon, <1>8 DEF CheckPending, CheckRunning, Goto
  <2> QED
    BY Zenon, <1>8, <2>1 DEF CheckPending, CheckRunning, Goto, WriterPCs
<1>9. CASE WriterTimeout \/ Unpark
  BY Zenon, <1>9 DEF WriterTimeout, Unpark, Goto, WriterPCs
<1> QED
  BY Zenon, <1>2, <1>3, <1>4, <1>5, <1>6, <1>7, <1>8, <1>9

\* Nor do these of shutdown.
LEMMA StopperStill ==
  ASSUME Types,
         \/ PopEnds(Stopper) \/ ForceZero(Stopper) \/ RequestShutdown \/ StopRunning \/ WakeForStop
         \/ Join \/ Detach \/ Destroy
  PROVE  Still
<1>1. SUFFICES /\ UNCHANGED <<head, tail, cell, held, batch, written, m_dropped_messages, accepted,
                              refused, evicted, sent, num, m_file_stream, snapshot>>
               /\ \E to \in StopperPCs : /\ pc' = [pc EXCEPT ![Stopper] = to]
                                         /\ pc[Stopper] # "popping" /\ to # "popping"
  BY Zenon, <1>1, ConsumerStill, ProcsApart DEF Types
<1> USE DEF queueVars, stopIdle, production, fates
<1>2. CASE PopEnds(Stopper)
  <2>1. PICK to \in {"write", "zero"} : pc' = [pc EXCEPT ![Stopper] = to]
    BY Zenon, <1>2, ProcsApart DEF PopEnds, Goto
  <2> QED
    BY Zenon, <1>2, <2>1 DEF PopEnds, Goto, StopperPCs
<1>3. CASE ForceZero(Stopper)
  BY Zenon, <1>3 DEF ForceZero, Goto, StopperPCs
<1>4. CASE RequestShutdown \/ StopRunning \/ WakeForStop
  BY Zenon, <1>4 DEF RequestShutdown, StopRunning, WakeForStop, Goto, StopperPCs
<1>5. CASE Join \/ Detach
  BY Zenon, <1>5 DEF Join, Detach, Goto, StopperPCs
<1>6. CASE Destroy
  <2>1. PICK to \in {"leaked", "freed"} : pc' = [pc EXCEPT ![Stopper] = to]
    BY Zenon, <1>6 DEF Destroy, Goto
  <2> QED
    BY Zenon, <1>6, <2>1 DEF Destroy, Goto, StopperPCs
<1> QED
  BY Zenon, <1>2, <1>3, <1>4, <1>5, <1>6

\* Nor those of flush_with_timeout.
LEMMA FlusherStill ==
  ASSUME Types, Flush \/ FlushLooks \/ FlushWakes \/ FlushTimeout
  PROVE  Still
<1>1. SUFFICES /\ UNCHANGED <<head, tail, cell, held, batch, written, m_dropped_messages, accepted,
                              refused, evicted, sent, num, m_file_stream>>
               /\ snapshot' \in {snapshot, accepted}
               /\ \E to \in FlusherPCs : pc' = [pc EXCEPT ![Flusher] = to]
  <2>1. pc[Flusher] # "popping" /\ \A to \in FlusherPCs : to # "popping"
    BY Zenon DEF Types, PcTypes, FlusherPCs
  <2> QED
    BY Zenon, <1>1, <2>1, ConsumerStill, ProcsApart DEF Types
<1> USE DEF queueVars, flushIdle, counts, fates
<1>2. CASE Flush
  <2>1. PICK to \in {"lock", "flushed"} : pc' = [pc EXCEPT ![Flusher] = to]
    BY Zenon, <1>2 DEF Flush
  <2> QED
    BY Zenon, <1>2, <2>1 DEF Flush, FlusherPCs
<1>3. CASE FlushLooks \/ FlushWakes
  BY Zenon, <1>3 DEF FlushLooks, FlushWakes, Goto, FlusherPCs
<1>4. CASE FlushTimeout
  <2>1. PICK to \in {"flushed", "late"} : pc' = [pc EXCEPT ![Flusher] = to]
    BY Zenon, <1>4 DEF FlushTimeout, Goto
  <2> QED
    BY Zenon, <1>4, <2>1 DEF FlushTimeout, FlusherPCs
<1> QED
  BY Zenon, <1>2, <1>3, <1>4

\* Every step moves messages or keeps them where they are.
LEMMA StepKinds ==
  ASSUME Types, [Next]_vars
  PROVE  Moving \/ Still
<1>1. CASE UNCHANGED vars
  BY Zenon, <1>1 DEF vars, Still, queueVars, counts, fates
<1>2. CASE StreamFails
  BY Zenon, <1>2 DEF StreamFails, Still, queueVars, counts, fates
<1>3. CASE \E p \in Producers : Enqueue(p) \/ Produce(p) \/ BlockTimeout(p)
  <2>1. ASSUME NEW p \in Producers,
               Count(p) \/ PushRefused(p) \/ BlockTimeout(p) \/ Uncount(p) \/ EvictFinds(p)
        PROVE  Still
    BY Zenon, <2>1, ProducerStillDoes, ProcsApart DEF Still, Alone, Consumers
  <2> QED
    BY Zenon, <1>3, <2>1 DEF Produce, Moving
<1>4. CASE Drive \/ WriterTimeout
  BY Zenon, <1>4, WriterStill, ProcsApart DEF Drive, Consume, Moving
<1>5. CASE RequestShutdown \/ Stop \/ Detach \/ Destroy
  BY Zenon, <1>5, StopperStill, ProcsApart DEF Stop, Consume, Moving
<1>6. CASE Flush \/ FlushLooks \/ FlushWakes \/ FlushTimeout
  BY Zenon, <1>6, FlusherStill
<1> QED
  BY Zenon, <1>1, <1>2, <1>3, <1>4, <1>5, <1>6 DEF Next

-----------------------------------------------------------------------------
(* Types: where processes are, flags and counters. *)

\* A process that goes to a place of its own keeps the places typed.
LEMMA PcStays ==
  ASSUME PcTypes, NEW x \in Procs, NEW to, pc' = [pc EXCEPT ![x] = to],
         x \in Producers => to \in ProducerPCs,
         x = Writer => to \in WriterPCs,
         x = Stopper => to \in StopperPCs,
         x = Flusher => to \in FlusherPCs
  PROVE  PcTypes'
<1>1. to \in ProducerPCs \cup WriterPCs \cup StopperPCs \cup FlusherPCs
  BY Zenon DEF Procs
<1>2. /\ pc' \in [Procs -> ProducerPCs \cup WriterPCs \cup StopperPCs \cup FlusherPCs]
      /\ pc'[x] = to /\ \A y \in Procs : y # x => pc'[y] = pc[y]
  BY <1>1 DEF PcTypes
<1> QED
  BY Zenon, <1>2, ProcsApart DEF PcTypes

\* Producers keep to their places.
LEMMA ProducerPcs ==
  ASSUME Types, NEW p \in Producers, Enqueue(p) \/ Produce(p) \/ BlockTimeout(p)
  PROVE  PcTypes'
<1>1. SUFFICES \E to \in ProducerPCs : pc' = [pc EXCEPT ![p] = to]
  BY Zenon, <1>1, PcStays, ProcsApart DEF Types
<1>2. CASE Enqueue(p)
  <2>1. PICK to \in {"sync", "count"} : pc' = [pc EXCEPT ![p] = to]
    BY Zenon, <1>2 DEF Enqueue, Goto
  <2> QED
    BY Zenon, <2>1 DEF ProducerPCs, OwnPCs
<1>3. CASE LookForWriter(p)
  <2>1. PICK to \in {"wake", "idle"} : pc' = [pc EXCEPT ![p] = to]
    BY Zenon, <1>3 DEF LookForWriter, Goto
  <2> QED
    BY Zenon, <2>1 DEF ProducerPCs
<1>4. CASE Count(p) \/ PushRefused(p) \/ BlockTimeout(p) \/ Uncount(p) \/ EvictFinds(p)
  <2>1. PICK to : pc' = [pc EXCEPT ![p] = to]
    BY Zenon, <1>4 DEF Count, PushRefused, BlockTimeout, Uncount, EvictFinds, Goto
  <2>2. to = pc'[p] /\ pc'[p] \in OwnPCs
    BY Zenon, <1>4, <2>1, ProducerStillDoes, PcMoves, ProcsApart DEF Types
  <2> QED
    BY Zenon, <2>1, <2>2 DEF ProducerPCs
<1>5. CASE WriteSync(p) \/ PushClaims(p) \/ PushPublishes(p) \/ WakeWriter(p)
  BY Zenon, <1>5 DEF WriteSync, PushClaims, PushPublishes, WakeWriter, Goto, ProducerPCs
<1>6. CASE DropNew(p) \/ EvictTakes(p) \/ EvictFrees(p)
  BY Zenon, <1>6 DEF DropNew, EvictTakes, EvictFrees, Goto, ProducerPCs, OwnPCs
<1> QED
  BY Zenon, <1>2, <1>3, <1>4, <1>5, <1>6 DEF Produce

\* So does the writer.
LEMMA WriterPcs ==
  ASSUME Types, Drive \/ WriterTimeout
  PROVE  PcTypes'
<1>1. SUFFICES \E to \in WriterPCs : pc' = [pc EXCEPT ![Writer] = to]
  BY Zenon, <1>1, PcStays, ProcsApart DEF Types
<1>2. ASSUME NEW to, pc' = [pc EXCEPT ![Writer] = to],
             to \in {"popping", "pop", "write", "park", "zero", "uncount", "done", "empty", "unpark",
                     "running?", "asleep"}
      PROVE  \E t \in WriterPCs : pc' = [pc EXCEPT ![Writer] = t]
  BY Zenon, <1>2 DEF WriterPCs
<1>3. CASE PopTakes(Writer) \/ PopFrees(Writer) \/ PopEnds(Writer)
  BY Zenon, <1>2, <1>3 DEF PopTakes, PopFrees, PopEnds, Goto
<1>4. CASE WriteBatch(Writer) \/ ForceZero(Writer)
  BY Zenon, <1>2, <1>4 DEF WriteBatch, ForceZero, Goto
<1>5. CASE LoopLooks \/ EmptyCompares
  BY Zenon, <1>2, <1>5 DEF LoopLooks, EmptyCompares, Goto
<1>6. CASE EmptyLoads \/ UncountBatch \/ SignalFlushed \/ Park
  BY Zenon, <1>6 DEF EmptyLoads, UncountBatch, SignalFlushed, Park, Goto, WriterPCs
<1>7. CASE CheckPending \/ CheckRunning
  BY Zenon, <1>2, <1>7 DEF CheckPending, CheckRunning, Goto
<1>8. CASE WriterWakes \/ Unpark \/ WriterTimeout
  BY Zenon, <1>8 DEF WriterWakes, Unpark, WriterTimeout, Goto, WriterPCs
<1> QED
  BY Zenon, <1>3, <1>4, <1>5, <1>6, <1>7, <1>8 DEF Drive, Consume

\* So does shutdown.
LEMMA StopperPcs ==
  ASSUME Types, RequestShutdown \/ Stop \/ Detach \/ Destroy
  PROVE  PcTypes'
<1>1. SUFFICES \E to \in StopperPCs : pc' = [pc EXCEPT ![Stopper] = to]
  BY Zenon, <1>1, PcStays, ProcsApart DEF Types
<1>2. ASSUME NEW to, pc' = [pc EXCEPT ![Stopper] = to],
             to \in {"popping", "pop", "write", "zero", "done", "freed", "leaked"}
      PROVE  \E t \in StopperPCs : pc' = [pc EXCEPT ![Stopper] = t]
  BY Zenon, <1>2 DEF StopperPCs
<1>3. CASE PopTakes(Stopper) \/ PopFrees(Stopper) \/ PopEnds(Stopper)
  BY Zenon, <1>2, <1>3, ProcsApart DEF PopTakes, PopFrees, PopEnds, Goto
<1>4. CASE WriteBatch(Stopper) \/ ForceZero(Stopper)
  BY Zenon, <1>2, <1>4, ProcsApart DEF WriteBatch, ForceZero, Goto
<1>5. CASE RequestShutdown \/ StopRunning \/ WakeForStop
  BY Zenon, <1>5 DEF RequestShutdown, StopRunning, WakeForStop, Goto, StopperPCs
<1>6. CASE Join \/ Detach \/ Destroy
  BY Zenon, <1>2, <1>6 DEF Join, Detach, Destroy, Goto
<1> QED
  BY Zenon, <1>3, <1>4, <1>5, <1>6 DEF Stop, Consume

\* So does flush_with_timeout.
LEMMA FlusherPcs ==
  ASSUME Types, Flush \/ FlushLooks \/ FlushWakes \/ FlushTimeout
  PROVE  PcTypes'
<1>1. PICK to \in {"lock", "asleep", "flushed", "late"} : pc' = [pc EXCEPT ![Flusher] = to]
  BY Zenon DEF Flush, FlushLooks, FlushWakes, FlushTimeout, Goto
<1> QED
  BY Zenon, <1>1, PcStays, ProcsApart DEF FlusherPCs, Types

\* Every step takes processes to where they may be.
LEMMA PcTypesStep ==
  ASSUME Types, [Next]_vars
  PROVE  PcTypes'
<1>1. CASE UNCHANGED pc
  BY Zenon, <1>1 DEF Types, PcTypes
<1> QED
  BY Zenon, <1>1, ProducerPcs, WriterPcs, StopperPcs, FlusherPcs DEF Next, StreamFails, vars

\* The size of the system is a number.
Finite == Cardinality(Producers) \in Nat

\* fetch_add and fetch_sub stay within the width of the counter.
LEMMA PendingType ==
  ASSUME Finite, FlagTypes, NEW n \in Int, AddPending(n)
  PROVE  m_pending_messages' \in 0 .. (2 ^ Width - 1)
<1> DEFINE M == 2 ^ Width
<1>1. M \in Nat /\ M > 0
  BY WidthAssumption, LoggerAssumption DEF Finite
<1>2. m_pending_messages \in Int
  BY <1>1 DEF FlagTypes
<1>3. m_pending_messages' = (m_pending_messages + n) % M
  BY DEF AddPending
<1> HIDE DEF M
<1>4. m_pending_messages' \in 0 .. (M - 1)
  BY <1>1, <1>2, <1>3
<1> QED
  BY <1>4 DEF M

\* Every step keeps the flags, the counter and the sleepers typed.
LEMMA FlagTypesStep ==
  ASSUME Finite, Types, [Next]_vars
  PROVE  FlagTypes'
<1>0. FlagTypes /\ tail \in Nat /\ 0 \in 0 .. (2 ^ Width - 1)
  BY WidthAssumption, LoggerAssumption DEF Types, QueueTypes, Finite
<1>1. ASSUME UNCHANGED <<overflow_policy, m_running, m_shutdown_requested, m_writer_waiting,
                         m_writer_detached, parking, enq>>,
             asleep' \subseteq asleep \cup {Writer, Flusher},
             m_pending_messages' \in 0 .. (2 ^ Width - 1)
      PROVE  FlagTypes'
  BY Zenon, <1>0, <1>1 DEF FlagTypes
<1>2. ASSUME UNCHANGED <<overflow_policy, m_running, m_shutdown_requested, m_writer_waiting,
                         m_writer_detached, parking, enq, m_pending_messages>>,
             asleep' = asleep \/ asleep' = {}
      PROVE  FlagTypes'
  BY Zenon, <1>0, <1>2 DEF FlagTypes
<1>3. ASSUME NEW p \in Producers, Count(p) \/ Uncount(p) PROVE FlagTypes'
  <2>1. 1 \in Int /\ -1 \in Int
    OBVIOUS
  <2>2. m_pending_messages' \in 0 .. (2 ^ Width - 1)
    BY Zenon, <1>0, <1>3, <2>1, PendingType DEF Count, Uncount
  <2> QED
    BY Zenon, <1>1, <1>3, <2>2 DEF Count, Uncount, others, control
<1>4. ASSUME NEW p \in Producers, Enqueue(p) \/ Produce(p) \/ BlockTimeout(p) PROVE FlagTypes'
  <2>1. CASE Enqueue(p) \/ BlockTimeout(p) \/ WriteSync(p) \/ PushClaims(p) \/ PushRefused(p)
    BY Zenon, <1>2, <2>1 DEF Enqueue, BlockTimeout, WriteSync, PushClaims, PushRefused,
       others, control, counts
  <2>2. CASE PushPublishes(p) \/ LookForWriter(p) \/ WakeWriter(p) \/ DropNew(p)
    BY Zenon, <1>2, <2>2 DEF PushPublishes, LookForWriter, WakeWriter, DropNew, NotifyAll,
       others, control, counts
  <2>3. CASE EvictTakes(p) \/ EvictFinds(p) \/ EvictFrees(p)
    BY Zenon, <1>2, <2>3 DEF EvictTakes, EvictFinds, EvictFrees, others, control, counts
  <2> QED
    BY Zenon, <1>3, <1>4, <2>1, <2>2, <2>3 DEF Produce
<1>5. ASSUME NEW w \in Consumers, Consume(w) PROVE FlagTypes'
  <2>1. CASE PopTakes(w) \/ PopFrees(w) \/ PopEnds(w) \/ WriteBatch(w)
    BY Zenon, <1>2, <2>1 DEF PopTakes, PopFrees, PopEnds, WriteBatch, control
  <2>2. CASE ForceZero(w)
    BY Zenon, <1>0, <1>1, <2>2 DEF ForceZero, NotifyAll, control
  <2> QED
    BY Zenon, <1>5, <2>1, <2>2 DEF Consume
<1>6. CASE UncountBatch
  <2>1. - Len(batch[Writer]) \in Int
    <3>1. batch[Writer] \in Seq(Messages)
      BY Zenon, ProcsApart DEF Types, DataTypes
    <3> QED
      BY <3>1
  <2>2. m_pending_messages' \in 0 .. (2 ^ Width - 1)
    BY Zenon, <1>0, <1>6, <2>1, PendingType DEF UncountBatch
  <2> QED
    BY Zenon, <1>1, <1>6, <2>2 DEF UncountBatch, control
<1>7. CASE SignalFlushed \/ LoopLooks \/ EmptyCompares \/ CheckPending
  BY Zenon, <1>2, <1>7 DEF SignalFlushed, LoopLooks, EmptyCompares, CheckPending, NotifyAll,
     writerIdle, control, production
<1>8. CASE EmptyLoads
  BY Zenon, <1>0, <1>8 DEF EmptyLoads, writerIdle, control, production, FlagTypes
<1>9. CASE Park \/ WriterWakes \/ Unpark
  BY Zenon, <1>0, <1>9 DEF Park, WriterWakes, Unpark, writerIdle, production, control, FlagTypes
<1>10. CASE CheckRunning \/ WriterTimeout
  <2>1. asleep' \subseteq {Writer, Flusher} /\ parking' \in BOOLEAN
    BY Zenon, <1>0, <1>10 DEF CheckRunning, WriterTimeout, FlagTypes
  <2> QED
    BY Zenon, <1>0, <1>10, <2>1 DEF CheckRunning, WriterTimeout, writerIdle, production, control, FlagTypes
<1>11. CASE RequestShutdown \/ StopRunning \/ WakeForStop
  BY Zenon, <1>0, <1>11 DEF RequestShutdown, StopRunning, WakeForStop, NotifyAll, stopIdle, FlagTypes
<1>12. CASE Join \/ Detach \/ Destroy
  BY Zenon, <1>0, <1>12 DEF Join, Detach, Destroy, stopIdle, FlagTypes
<1>13. CASE Flush \/ FlushLooks \/ FlushWakes \/ FlushTimeout
  <2>1. /\ asleep' \subseteq asleep \cup {Writer, Flusher}
        /\ UNCHANGED <<control, m_pending_messages, parking, enq>>
    BY Zenon, <1>13 DEF Flush, FlushLooks, FlushWakes, FlushTimeout, flushIdle, counts
  <2> QED
    BY Zenon, <1>0, <1>1, <2>1 DEF control, FlagTypes
<1>14. CASE StreamFails \/ UNCHANGED vars
  BY Zenon, <1>0, <1>14 DEF StreamFails, vars, control, counts, FlagTypes
<1> QED
  BY Zenon, <1>4, <1>5, <1>6, <1>7, <1>8, <1>9, <1>10, <1>11, <1>12, <1>13, <1>14, ProcsApart
     DEF Next, Drive, Stop

-----------------------------------------------------------------------------
(* The queue. *)

\* try_push wins a cell.
LEMMA ClaimDoes ==
  ASSUME QueueTypes, NEW m \in Messages, Claim(m)
  PROVE  /\ QueueTypes' /\ head' = head /\ tail' = tail + 1 /\ held' = held
         /\ DOMAIN cell = head .. (tail - 1) /\ DOMAIN cell' = DOMAIN cell \cup {tail}
         /\ tail \notin DOMAIN cell
         /\ cell'[tail].item = m /\ ~ cell'[tail].ready
         /\ \A n \in DOMAIN cell : cell'[n] = cell[n]
         /\ InQueue' = InQueue \cup {m}
<1>1. /\ head' = head /\ tail' = tail + 1 /\ held' = held
      /\ DOMAIN cell = head .. (tail - 1) /\ DOMAIN cell' = head .. tail
      /\ cell'[tail].item = m /\ ~ cell'[tail].ready
      /\ \A n \in head .. (tail - 1) : cell'[n] = cell[n]
      /\ head .. tail = (head .. (tail - 1)) \cup {tail}
      /\ tail \notin head .. (tail - 1)
  BY DEF QueueTypes, Claim
<1>2. cell' \in [head .. tail -> [item : Messages, ready : BOOLEAN]]
  BY <1>1 DEF QueueTypes, Claim
<1>3. tail + 1 <= head + Capacity
  BY LoggerAssumption DEF QueueTypes, Claim, Full
<1>4. QueueTypes'
  BY <1>1, <1>2, <1>3 DEF QueueTypes
<1>5. InQueue' = InQueue \cup {m}
  <2>1. \A x : x \in InQueue' <=> \E n \in DOMAIN cell \cup {tail} : x = cell'[n].item
    BY Zenon, <1>1 DEF InQueue
  <2>2. \A x : x \in InQueue <=> \E n \in DOMAIN cell : x = cell'[n].item
    BY Zenon, <1>1 DEF InQueue
  <2> QED
    BY <1>1, <2>1, <2>2
<1> QED
  BY Zenon, <1>1, <1>4, <1>5

\* try_push publishes its message.
LEMMA PublishDoes ==
  ASSUME QueueTypes, NEW k, Publish(k)
  PROVE  /\ QueueTypes' /\ UNCHANGED <<head, tail, held>>
         /\ DOMAIN cell' = DOMAIN cell /\ k \in DOMAIN cell
         /\ \A n \in DOMAIN cell : cell'[n].item = cell[n].item
         /\ \A n \in DOMAIN cell : n # k => cell'[n] = cell[n]
         /\ InQueue' = InQueue
<1>1. /\ UNCHANGED <<head, tail, held>>
      /\ DOMAIN cell = head .. (tail - 1) /\ DOMAIN cell' = DOMAIN cell
      /\ k \in DOMAIN cell
      /\ \A n \in DOMAIN cell : cell'[n].item = cell[n].item
      /\ \A n \in DOMAIN cell : n # k => cell'[n] = cell[n]
  BY DEF QueueTypes, Publish
<1>2. cell' \in [head .. (tail - 1) -> [item : Messages, ready : BOOLEAN]]
  BY DEF QueueTypes, Publish
<1>3. QueueTypes'
  BY Zenon, <1>1, <1>2 DEF QueueTypes
<1>4. InQueue' = InQueue
  <2>1. \A x : x \in InQueue' <=> \E n \in DOMAIN cell : x = cell[n].item
    BY Zenon, <1>1 DEF InQueue
  <2> QED
    BY Zenon, <2>1 DEF InQueue
<1> QED
  BY Zenon, <1>1, <1>3, <1>4

\* try_pop wins the oldest cell.
LEMMA TakeDoes ==
  ASSUME QueueTypes, OnceEach, Take
  PROVE  /\ QueueTypes' /\ head' = head + 1 /\ tail' = tail
         /\ head \in DOMAIN cell /\ cell[head].ready /\ cell[head].item \in Messages
         /\ DOMAIN cell' = DOMAIN cell \ {head}
         /\ \A n \in DOMAIN cell' : cell'[n] = cell[n]
         /\ held' = held \cup {[pos |-> head, item |-> cell[head].item]}
         /\ cell[head].item \in InQueue /\ InQueue' = InQueue \ {cell[head].item}
         /\ HeldItems' = HeldItems \cup {cell[head].item}
<1> DEFINE x == cell[head].item
           new == [pos |-> head, item |-> x]
<1>1. /\ head' = head + 1 /\ tail' = tail
      /\ DOMAIN cell = head .. (tail - 1) /\ DOMAIN cell' = (head + 1) .. (tail - 1)
      /\ head \in DOMAIN cell /\ cell[head].ready /\ x \in Messages
      /\ (head + 1) .. (tail - 1) = (head .. (tail - 1)) \ {head}
      /\ \A n \in (head + 1) .. (tail - 1) : cell'[n] = cell[n]
      /\ held' = held \cup {new}
      /\ head + 1 <= tail /\ tail <= head + 1 + Capacity
  BY LoggerAssumption DEF QueueTypes, Take, Ready
<1>2. cell' \in [(head + 1) .. (tail - 1) -> [item : Messages, ready : BOOLEAN]]
  BY <1>1 DEF QueueTypes, Take
<1>3. held' \in SUBSET [pos : Nat, item : Messages] /\ new.item = x
  BY <1>1 DEF QueueTypes
<1> HIDE DEF x, new
<1>4. QueueTypes'
  BY <1>1, <1>2, <1>3 DEF QueueTypes
<1>5. x \in InQueue /\ InQueue' = InQueue \ {x}
  <2>1. \A y : y \in InQueue' <=> \E n \in DOMAIN cell \ {head} : y = cell[n].item
    BY Zenon, <1>1 DEF InQueue
  <2>2. \A y : y \in InQueue <=> \E n \in DOMAIN cell : y = cell[n].item
    BY Zenon DEF InQueue
  <2>3. \A n \in DOMAIN cell \ {head} : cell[n].item # x
    BY Zenon, <1>1 DEF OnceEach, x
  <2>4. x \in InQueue
    BY Zenon, <1>1, <2>2 DEF x
  <2> QED
    BY <1>1, <2>1, <2>2, <2>3, <2>4
<1>6. HeldItems' = HeldItems \cup {x}
  <2>1. \A y : y \in HeldItems' <=> \E h \in held \cup {new} : y = h.item
    BY Zenon, <1>1 DEF HeldItems
  <2>2. \A y : y \in HeldItems <=> \E h \in held : y = h.item
    BY Zenon DEF HeldItems
  <2> QED
    BY Zenon, <1>3, <2>1, <2>2
<1> QED
  BY Zenon, <1>1, <1>4, <1>5, <1>6 DEF x, new

\* try_pop gives the slot back.
LEMMA FreeDoes ==
  ASSUME QueueTypes, NEW h, Free(h)
  PROVE  /\ QueueTypes' /\ UNCHANGED <<head, tail, cell>> /\ h \in held /\ held' = held \ {h}
         /\ InQueue' = InQueue /\ HeldItems' \subseteq HeldItems
         /\ HeldItems \subseteq HeldItems' \cup {h.item}
BY Zenon DEF QueueTypes, Free, InQueue, HeldItems

-----------------------------------------------------------------------------
(* Messages. *)

Fate == QueueTypes /\ DataTypes /\ Known /\ Slots /\ Apart /\ OnceEach /\ Accounts

\* What the steps need of the sizes of sets of messages (CountingHolds, below).
Counting ==
  \A S, x : IsFiniteSet(S) /\ x \notin S =>
    IsFiniteSet(S \cup {x}) /\ Cardinality(S \cup {x}) = Cardinality(S) + 1

\* One message more.
LEMMA OneMore ==
  ASSUME Counting, NEW S, IsFiniteSet(S), NEW x, x \notin S
  PROVE  IsFiniteSet(S \cup {x}) /\ Cardinality(S \cup {x}) = Cardinality(S) + 1
BY Zenon DEF Counting

\* A step that leaves alone what a place is made of leaves the place alone.
LEMMA OwnStays ==
  ASSUME UNCHANGED sent, \A p \in Producers : pc'[p] \in OwnPCs <=> pc[p] \in OwnPCs
  PROVE  Own' = Own
<1>1. \A p \in Producers : Message(p)' = Message(p)
  BY Zenon DEF Message
<1>2. \A x : x \in Own' <=> x \in Own
  BY Zenon, <1>1 DEF Own
<1> QED
  BY Zenon, <1>2

\* A producer parts with its message.
LEMMA OwnLeft ==
  ASSUME DataTypes, NEW p \in Producers, Alone(p), UNCHANGED sent,
         pc[p] \in OwnPCs, pc'[p] \notin OwnPCs
  PROVE  Message(p) \in Own /\ Own' = Own \ {Message(p)}
<1>1. \A q \in Producers : Message(q)' = Message(q)
  BY Zenon DEF Message
<1>2. \A x : x \in Own' <=> \E q \in Producers : pc'[q] \in OwnPCs /\ x = Message(q)
  BY Zenon, <1>1 DEF Own
<1>3. \A x : x \in Own <=> \E q \in Producers : pc[q] \in OwnPCs /\ x = Message(q)
  BY Zenon DEF Own
<1>4. \A q \in Producers : pc'[q] \in OwnPCs <=> pc[q] \in OwnPCs /\ q # p
  BY Zenon, ProcsApart DEF Alone
<1>5. \A q \in Producers : Message(q) = Message(p) => q = p
  BY Zenon, MessageLogged
<1> QED
  BY <1>2, <1>3, <1>4, <1>5

\* No eviction begins or ends.
LEMMA EvictingStays ==
  ASSUME UNCHANGED <<held, num>>,
         \A p \in Producers : pc'[p] = "evicting" <=> pc[p] = "evicting"
  PROVE  Evicting' = Evicting
<1>1. \A h \in held : \A p \in Producers : Evicts(p, h)' <=> Evicts(p, h)
  BY Zenon DEF Evicts
<1>2. \A x : x \in Evicting' <=> x \in Evicting
  BY Zenon, <1>1 DEF Evicting
<1> QED
  BY Zenon, <1>2

\* A batch that is not touched stays a place of the same messages.
LEMMA BatchStays ==
  ASSUME NEW w \in Consumers, batch'[w] = batch[w],
         pc'[Writer] \in {"uncount", "signal"} <=> pc[Writer] \in {"uncount", "signal"}
  PROVE  InBatch(w)' = InBatch(w) /\ Range(batch'[w]) = Range(batch[w])
BY Zenon DEF InBatch

\* Nobody takes a number.
LEMMA LoggedStays ==
  ASSUME UNCHANGED sent
  PROVE  Logged' = Logged /\ \A p : Message(p)' = Message(p)
BY Zenon DEF Logged, Message

\* The names of the places, in the next state.
LEMMA PlacesAreNext ==
  /\ Place("own")' = Own' /\ Place("queue")' = InQueue' /\ Place("evicting")' = Evicting'
  /\ Place("writer")' = InBatch(Writer)' /\ Place("stopper")' = InBatch(Stopper)'
  /\ Place("file")' = InFile' /\ Place("evicted")' = evicted' /\ Place("refused")' = refused'
BY DEF Place

\* All messages that are somewhere have been logged.
LEMMA PlacesLogged ==
  ASSUME PcTypes, DataTypes, Known, NEW a \in PlaceNames
  PROVE  Place(a) \subseteq Logged
<1>1. Own \subseteq Logged
  <2>1. \A p \in Producers : pc[p] \in OwnPCs => Message(p) \in Logged
    BY MessageLogged DEF OwnPCs
  <2> QED
    BY Zenon, <2>1 DEF Own
<1>2. Evicting \subseteq Logged /\ InQueue \subseteq Logged /\ InFile \subseteq Logged
  BY Zenon DEF Evicting, InFile, Known, HeldItems
<1>3. InBatch(Writer) \subseteq Logged /\ InBatch(Stopper) \subseteq Logged
  BY Zenon, ProcsApart DEF InBatch, Known
<1> QED
  BY Zenon, <1>1, <1>2, <1>3, PlacesAre DEF PlaceNames, Known

\* A step that decides the fate of no message, and loses none.
LEMMA AccountsKept ==
  ASSUME Accounts, UNCHANGED <<accepted, refused, evicted, m_dropped_messages, sent>>,
         \A p \in Producers : pc'[p] # "idle" => pc[p] # "idle",
         m_file_stream' = "good" =>
           /\ m_file_stream = "good" /\ Somewhere \subseteq Somewhere'
           /\ \A p \in Producers : pc'[p] \in PushedPCs => pc[p] \in PushedPCs \/ Message(p) \in Somewhere'
           /\ pc'[Writer] \in {"uncount", "signal"} => Range(batch'[Writer]) \subseteq InFile'
  PROVE  Accounts'
<1>1. \A p : Message(p)' = Message(p)
  BY Zenon, LoggedStays
<1>2. CASE m_file_stream' = "good"
  <2>1. /\ accepted \subseteq Somewhere' /\ m_dropped_messages = Cardinality(refused \cup evicted)
        /\ \A p \in Producers : pc'[p] \in PushedPCs => Message(p) \in Somewhere'
    BY Zenon, <1>2 DEF Accounts
  <2> QED
    BY Zenon, <1>1, <1>2, <2>1 DEF Accounts
<1>3. CASE m_file_stream' # "good"
  BY Zenon, <1>1, <1>3 DEF Accounts
<1> QED
  BY Zenon, <1>2, <1>3

\* A step that moves no message.
LEMMA StillKeeps ==
  ASSUME Types, Slots, Apart, OnceEach, Accounts, Still
  PROVE  Fate'
<1>1. Logged' = Logged /\ \A p : Message(p)' = Message(p)
  BY Zenon, LoggedStays DEF Still
<1>2. /\ UNCHANGED <<head, tail, cell, held, batch, written, m_dropped_messages, accepted, refused,
                     evicted, sent, num>>
      /\ snapshot' \in {snapshot, accepted} /\ m_file_stream' \in {m_file_stream, "bad"}
  BY Zenon DEF Still
<1>3. \A p \in Producers : /\ pc'[p] \in OwnPCs <=> pc[p] \in OwnPCs
                           /\ pc'[p] = "evicting" <=> pc[p] = "evicting"
                           /\ pc'[p] = "idle" <=> pc[p] = "idle"
                           /\ pc'[p] = "publish" <=> pc[p] = "publish"
  BY Zenon DEF Still, OwnPCs
<1>4. QueueTypes'
  BY Zenon, <1>2 DEF Types, QueueTypes
<1>5. DataTypes'
  BY Zenon, <1>2, <1>3 DEF Types, DataTypes
<1>6. Known'
  BY Zenon, <1>1, <1>2 DEF Types, Known, InQueue, HeldItems
<1>7. Slots'
  <2>1. \A p \in Producers, h \in held : Evicts(p, h)' <=> Evicts(p, h)
    BY Zenon, <1>2, <1>3 DEF Evicts
  <2>2. \A w \in Consumers, h \in held : Pops(w, h)' <=> Pops(w, h)
    BY Zenon, <1>2 DEF Pops, Still
  <2> QED
    BY Zenon, <1>1, <1>2, <1>3, <2>1, <2>2 DEF Slots
<1>8. Apart'
  <2>1. Own' = Own /\ Evicting' = Evicting
    BY Zenon, <1>2, <1>3, OwnStays, EvictingStays
  <2>2. InBatch(Writer)' = InBatch(Writer) /\ InBatch(Stopper)' = InBatch(Stopper)
    BY Zenon, <1>2, BatchStays, ProcsApart DEF Still
  <2>3. InQueue' = InQueue /\ InFile' = InFile
    BY Zenon, <1>2 DEF InQueue, InFile
  <2>4. \A a \in PlaceNames : Place(a)' = Place(a)
    BY Zenon, <1>2, <2>1, <2>2, <2>3, PlacesAre, PlacesAreNext DEF PlaceNames
  <2> QED
    BY Zenon, <2>4 DEF Apart
<1>9. OnceEach'
  BY Zenon, <1>2 DEF OnceEach
<1>10. Accounts'
  <2>1. Somewhere' = Somewhere /\ InFile' = InFile
    BY Zenon, <1>2 DEF Somewhere, InFile, InQueue, HeldItems
  <2>2. m_file_stream' = "good" => m_file_stream = "good"
    BY Zenon, <1>2
  <2>3. \A p \in Producers : pc'[p] \in PushedPCs => pc[p] \in PushedPCs
    BY Zenon DEF Still, OwnPCs, PushedPCs
  <2>4. m_file_stream' = "good" /\ pc'[Writer] \in {"uncount", "signal"} =>
          Range(batch'[Writer]) \subseteq InFile'
    BY Zenon, <1>2, <2>1, <2>2 DEF Still, Accounts
  <2> QED
    BY Zenon, <1>2, <1>3, <2>1, <2>2, <2>3, <2>4, AccountsKept
<1> QED
  BY Zenon, <1>4, <1>5, <1>6, <1>7, <1>8, <1>9, <1>10 DEF Fate

\* enqueue begins with a new message.
LEMMA EnqueueKeeps ==
  ASSUME Types, Slots, Apart, OnceEach, Accounts, NEW p \in Producers, Enqueue(p)
  PROVE  Fate'
<1> DEFINE m == Message(p)'
<1>1. /\ pc[p] = "idle" /\ pc'[p] \in {"sync", "count"} /\ Alone(p)
      /\ sent[p] < Quota[p] /\ sent' = [sent EXCEPT ![p] = sent[p] + 1]
      /\ UNCHANGED <<head, tail, cell, held, batch, written, m_dropped_messages, accepted, refused,
                     evicted, num, snapshot, m_file_stream>>
  <2>1. PICK to \in {"sync", "count"} : pc' = [pc EXCEPT ![p] = to]
    BY Zenon DEF Enqueue, Goto
  <2>2. pc'[p] = to /\ Alone(p)
    BY Zenon, <2>1, PcMoves, ProcsApart DEF Types
  <2> QED
    BY Zenon, <2>1, <2>2 DEF Enqueue, Goto, queueVars, counts, fates, others
<1>2. /\ Logged \subseteq Logged' /\ m \in Logged' \ Logged
      /\ sent' \in [Producers -> Nat] /\ sent'[p] = sent[p] + 1
      /\ \A q \in Producers : q # p => sent'[q] = sent[q] /\ Message(q)' = Message(q)
  BY Zenon, <1>1, LoggedGrows DEF Types
<1> HIDE DEF m
<1>3. /\ \A q \in Producers : q # p => pc'[q] = pc[q]
      /\ \A w \in Consumers : pc'[w] = pc[w]
  BY Zenon, <1>1, ProcsApart DEF Alone, Consumers
<1>4. QueueTypes'
  BY Zenon, <1>1 DEF Types, QueueTypes
<1>5. DataTypes'
  <2>1. sent'[p] <= Quota[p] /\ sent'[p] >= 1
    BY <1>1, <1>2, LoggerAssumption DEF Types, DataTypes
  <2> QED
    BY Zenon, <1>1, <1>2, <1>3, <2>1 DEF Types, DataTypes
<1>6. Known'
  BY Zenon, <1>1, <1>2 DEF Types, Known, InQueue, HeldItems
<1>7. Slots'
  <2>1. \A q \in Producers : /\ pc'[q] = "evicting" <=> pc[q] = "evicting"
                             /\ pc'[q] = "publish" => pc[q] = "publish" /\ Message(q)' = Message(q)
    BY Zenon, <1>1, <1>2, <1>3
  <2>2. \A q \in Producers, h \in held : Evicts(q, h)' <=> Evicts(q, h)
    BY Zenon, <1>1, <2>1 DEF Evicts
  <2>3. \A w \in Consumers, h \in held : Pops(w, h)' <=> Pops(w, h)
    BY Zenon, <1>1, <1>3 DEF Pops
  <2> QED
    BY Zenon, <1>1, <2>1, <2>2, <2>3 DEF Slots
<1>8. Apart'
  <2>1. Own' \subseteq Own \cup {m}
    BY Zenon, <1>2, <1>3 DEF Own, m
  <2>2. Evicting' = Evicting
    BY Zenon, <1>1, <1>3, EvictingStays
  <2>3. InBatch(Writer)' = InBatch(Writer) /\ InBatch(Stopper)' = InBatch(Stopper)
    BY Zenon, <1>1, <1>3, BatchStays, ProcsApart
  <2>4. InQueue' = InQueue /\ InFile' = InFile
    BY Zenon, <1>1 DEF InQueue, InFile
  <2>5. \A a \in PlaceNames : a # "own" => Place(a)' = Place(a)
    BY Zenon, <1>1, <2>2, <2>3, <2>4, PlacesAre, PlacesAreNext DEF PlaceNames
  <2>6. \A a \in PlaceNames : a # "own" => Place(a)' \subseteq Place(a) \ {m}
    BY Zenon, <1>2, <2>5, PlacesLogged DEF Types
  <2>7. "own" \in PlaceNames
    BY Zenon DEF PlaceNames
  <2> QED
    BY Zenon, <2>1, <2>6, <2>7, ApartMoves, PlacesAre, PlacesAreNext
<1>9. OnceEach'
  BY Zenon, <1>1 DEF OnceEach
<1>10. Accounts'
  <2>1. Somewhere' = Somewhere /\ InFile' = InFile
    BY Zenon, <1>1 DEF Somewhere, InFile, InQueue, HeldItems
  <2>2. \A q \in Producers : pc'[q] # "idle" => Message(q)' \notin accepted \cup refused
    BY Zenon, <1>2, <1>3 DEF Accounts, Types, Known, m
  <2>3. \A q \in Producers : pc'[q] \in PushedPCs => pc[q] \in PushedPCs /\ Message(q)' = Message(q)
    BY Zenon, <1>1, <1>2, <1>3 DEF PushedPCs
  <2>4. pc'[Writer] = pc[Writer]
    BY Zenon, <1>3, ProcsApart
  <2> QED
    BY Zenon, <1>1, <2>1, <2>2, <2>3, <2>4 DEF Accounts
<1> QED
  BY Zenon, <1>4, <1>5, <1>6, <1>7, <1>8, <1>9, <1>10 DEF Fate

\* A producer moves, and takes and frees no cell.
LEMMA ProducerAlone ==
  ASSUME NEW p \in Producers, Alone(p)
  PROVE  /\ \A q \in Producers : q # p => pc'[q] = pc[q]
         /\ \A w \in Consumers : pc'[w] = pc[w]
BY Zenon, ProcsApart DEF Alone, Consumers

\* What a producer leaves alone when it neither begins nor ends an eviction.
LEMMA ProducerKeeps ==
  ASSUME NEW p \in Producers, Alone(p), UNCHANGED <<held, num, batch>>,
         pc[p] # "evicting" /\ pc'[p] # "evicting"
  PROVE  /\ Evicting' = Evicting
         /\ InBatch(Writer)' = InBatch(Writer) /\ InBatch(Stopper)' = InBatch(Stopper)
<1>1. /\ \A q \in Producers : q # p => pc'[q] = pc[q]
      /\ \A w \in Consumers : pc'[w] = pc[w]
  BY Zenon, ProducerAlone
<1>2. Evicting' = Evicting
  BY Zenon, <1>1, EvictingStays
<1> QED
  BY Zenon, <1>1, <1>2, BatchStays, ProcsApart

\* A producer that holds no cell moves, and leaves the queue alone.
LEMMA SlotsStay ==
  ASSUME Slots, NEW p \in Producers, Alone(p), UNCHANGED <<head, cell, held, num, batch, sent>>,
         pc[p] # "evicting", pc'[p] \notin {"evicting", "publish"}
  PROVE  Slots'
<1>1. /\ \A q \in Producers : q # p => pc'[q] = pc[q]
      /\ \A w \in Consumers : pc'[w] = pc[w]
  BY Zenon, ProducerAlone
<1>2. \A q \in Producers : /\ pc'[q] = "evicting" <=> pc[q] = "evicting"
                           /\ pc'[q] = "publish" => pc[q] = "publish"
  BY Zenon, <1>1
<1>3. \A q \in Producers, h \in held : Evicts(q, h)' <=> Evicts(q, h)
  BY Zenon, <1>2 DEF Evicts
<1>4. \A w \in Consumers, h \in held : Pops(w, h)' <=> Pops(w, h)
  BY Zenon, <1>1 DEF Pops
<1> QED
  BY Zenon, <1>2, <1>3, <1>4, LoggedStays DEF Slots

\* A producer goes on with its message, or ends with it.
LEMMA DataStay ==
  ASSUME DataTypes, NEW p \in Producers, Alone(p), UNCHANGED <<batch, sent, m_file_stream>>,
         pc[p] # "idle", num' \in [Producers -> Nat], m_dropped_messages' \in Nat,
         written' \in Seq(Messages)
  PROVE  DataTypes'
<1>1. \A q \in Producers : pc'[q] # "idle" => pc[q] # "idle"
  BY Zenon, ProducerAlone
<1> QED
  BY Zenon, <1>1 DEF DataTypes

\* When enqueue returns, the other messages are other ones.
LEMMA OthersStay ==
  ASSUME DataTypes, NEW p \in Producers, Alone(p), UNCHANGED sent, pc'[p] = "idle"
  PROVE  /\ \A q \in Producers : pc'[q] # "idle" => /\ pc'[q] = pc[q] /\ Message(q)' = Message(q)
                                                  /\ Message(q) # Message(p)
         /\ pc'[Writer] = pc[Writer]
<1>1. /\ \A q \in Producers : q # p => pc'[q] = pc[q]
      /\ pc'[Writer] = pc[Writer]
  BY Zenon, ProducerAlone, ProcsApart
<1>2. \A q \in Producers : Message(q)' = Message(q)
  BY Zenon, LoggedStays
<1>3. \A q \in Producers : Message(q) = Message(p) => q = p
  BY Zenon, MessageLogged
<1> QED
  BY Zenon, <1>1, <1>2, <1>3

\* enqueue returns true.
LEMMA AccountsAccept ==
  ASSUME Accounts, DataTypes, NEW p \in Producers, Alone(p), pc[p] # "idle", pc'[p] = "idle",
         UNCHANGED <<sent, refused, evicted, m_dropped_messages, m_file_stream, batch>>,
         accepted' = accepted \cup {Message(p)},
         m_file_stream = "good" => /\ Message(p) \in Somewhere' /\ Somewhere \subseteq Somewhere'
                                   /\ InFile \subseteq InFile'
  PROVE  Accounts'
<1>1. /\ \A q \in Producers : pc'[q] # "idle" => /\ pc'[q] = pc[q] /\ Message(q)' = Message(q)
                                               /\ Message(q) # Message(p)
      /\ pc'[Writer] = pc[Writer]
  BY Zenon, OthersStay
<1>2. Message(p) \notin refused /\ accepted' \cap refused' = {}
  BY Zenon DEF Accounts
<1>3. \A q \in Producers : pc'[q] # "idle" => Message(q)' \notin accepted' \cup refused'
  BY Zenon, <1>1 DEF Accounts
<1>4. CASE m_file_stream = "good"
  <2>1. accepted' \subseteq Somewhere'
    BY Zenon, <1>4 DEF Accounts
  <2>2. \A q \in Producers : pc'[q] \in PushedPCs => Message(q)' \in Somewhere'
    <3>1. \A q \in Producers : pc'[q] \in PushedPCs => pc'[q] # "idle"
      BY Zenon DEF PushedPCs
    <3> QED
      BY Zenon, <1>1, <1>4, <3>1 DEF Accounts
  <2>3. pc'[Writer] \in {"uncount", "signal"} => Range(batch'[Writer]) \subseteq InFile'
    BY Zenon, <1>1, <1>4 DEF Accounts
  <2> QED
    BY Zenon, <1>2, <1>3, <1>4, <2>1, <2>2, <2>3 DEF Accounts
<1>5. CASE m_file_stream # "good"
  BY Zenon, <1>2, <1>3, <1>5 DEF Accounts
<1> QED
  BY Zenon, <1>4, <1>5

\* enqueue returns false.
LEMMA AccountsRefuse ==
  ASSUME Counting, Accounts, DataTypes, NEW p \in Producers, Alone(p), pc[p] # "idle", pc'[p] = "idle",
         UNCHANGED <<sent, accepted, evicted, m_file_stream, batch, written, cell, held>>,
         refused' = refused \cup {Message(p)}, Message(p) \notin evicted,
         m_file_stream = "good" => m_dropped_messages' = m_dropped_messages + 1
  PROVE  Accounts'
<1>1. /\ \A q \in Producers : pc'[q] # "idle" => /\ pc'[q] = pc[q] /\ Message(q)' = Message(q)
                                               /\ Message(q) # Message(p)
      /\ pc'[Writer] = pc[Writer]
  BY Zenon, OthersStay
<1>2. /\ Message(p) \notin accepted /\ accepted' \cap refused' = {}
      /\ Message(p) \notin refused \cup evicted
  BY Zenon DEF Accounts
<1>3. \A q \in Producers : pc'[q] # "idle" => Message(q)' \notin accepted' \cup refused'
  BY Zenon, <1>1 DEF Accounts
<1>4. /\ IsFiniteSet(refused' \cup evicted')
      /\ Cardinality(refused' \cup evicted') = Cardinality(refused \cup evicted) + 1
  <2> DEFINE S == refused \cup evicted
  <2>1. IsFiniteSet(S) /\ Message(p) \notin S
    BY Zenon, <1>2 DEF Accounts
  <2>2. refused' \cup evicted' = S \cup {Message(p)}
    BY Zenon
  <2> HIDE DEF S
  <2>3. IsFiniteSet(S \cup {Message(p)}) /\ Cardinality(S \cup {Message(p)}) = Cardinality(S) + 1
    BY Zenon, <2>1, OneMore
  <2> QED
    BY Zenon, <2>2, <2>3 DEF S
<1>5. Somewhere' = Somewhere /\ InFile' = InFile
  BY Zenon DEF Somewhere, InFile, InQueue, HeldItems
<1>6. CASE m_file_stream = "good"
  <2>1. \A q \in Producers : pc'[q] \in PushedPCs => Message(q)' \in Somewhere'
    <3>1. \A q \in Producers : pc'[q] \in PushedPCs => pc'[q] # "idle"
      BY Zenon DEF PushedPCs
    <3> QED
      BY Zenon, <1>1, <1>5, <1>6, <3>1 DEF Accounts
  <2>2. pc'[Writer] \in {"uncount", "signal"} => Range(batch'[Writer]) \subseteq InFile'
    BY Zenon, <1>1, <1>5, <1>6 DEF Accounts
  <2>3. m_dropped_messages' = Cardinality(refused' \cup evicted')
    BY Zenon, <1>4, <1>6 DEF Accounts
  <2> QED
    BY Zenon, <1>2, <1>3, <1>4, <1>5, <1>6, <2>1, <2>2, <2>3 DEF Accounts
<1>7. CASE m_file_stream # "good"
  BY Zenon, <1>2, <1>3, <1>4, <1>7 DEF Accounts
<1> QED
  BY Zenon, <1>6, <1>7

\* One message.
LEMMA Single ==
  ASSUME NEW S, NEW e \in S
  PROVE  <<e>> \in Seq(S) /\ Range(<<e>>) = {e} /\ Once(<<e>>)
<1>1. <<e>> \in Seq(S) /\ DOMAIN <<e>> = {1} /\ <<e>>[1] = e
  OBVIOUS
<1> QED
  BY Zenon, <1>1 DEF Range, Once

\* write_sync ends with the message in the file, or refused.
LEMMA WriteSyncKeeps ==
  ASSUME Types, Slots, Apart, OnceEach, Accounts, NEW p \in Producers, WriteSync(p), Counting
  PROVE  Fate'
<1> DEFINE m == Message(p)
<1>1. /\ pc[p] = "sync" /\ pc'[p] = "idle" /\ Alone(p)
      /\ UNCHANGED <<head, tail, cell, held, batch, m_dropped_messages, sent, evicted, num, snapshot,
                     m_file_stream>>
      /\ m_file_stream = "good" => /\ written' = written \o <<m>>
                                   /\ accepted' = accepted \cup {m} /\ UNCHANGED refused
      /\ m_file_stream # "good" => /\ refused' = refused \cup {m} /\ UNCHANGED <<written, accepted>>
  <2>1. pc[p] = "sync" /\ pc'[p] = "idle" /\ Alone(p)
    BY Zenon, PcMoves, ProcsApart DEF WriteSync, Goto, Types
  <2> QED
    BY Zenon, <2>1 DEF WriteSync, Write, Accept, Refuse, queueVars, counts, others
<1>2. /\ Logged' = Logged /\ m \in Own /\ Own' = Own \ {m} /\ m \in Messages /\ m \in Logged
  <2>1. pc[p] \in OwnPCs /\ pc'[p] \notin OwnPCs /\ pc[p] # "idle"
    BY Zenon, <1>1 DEF OwnPCs
  <2> QED
    BY Zenon, <1>1, <2>1, OwnLeft, LoggedStays, MessageLogged DEF Types
<1>3. InQueue' = InQueue /\ HeldItems' = HeldItems /\ QueueTypes'
  BY Zenon, <1>1 DEF InQueue, HeldItems, Types, QueueTypes
<1>4. /\ Evicting' = Evicting
      /\ InBatch(Writer)' = InBatch(Writer) /\ InBatch(Stopper)' = InBatch(Stopper)
  BY Zenon, <1>1, ProducerKeeps
<1>5. Slots'
  BY Zenon, <1>1, SlotsStay
<1>6. m \notin InFile
  <2>1. Own \cap InFile = {}
    BY Zenon, PlacesAre DEF Apart, PlaceNames
  <2> QED
    BY Zenon, <1>2, <2>1
<1> HIDE DEF m
<1>7. CASE m_file_stream = "good"
  <2>1. written' \in Seq(Messages) /\ InFile' = InFile \cup {m} /\ Once(written')
    <3>1. /\ <<m>> \in Seq(Messages) /\ Range(<<m>>) = {m} /\ Once(<<m>>)
          /\ written \in Seq(Messages) /\ Once(written)
      BY Zenon, <1>2, Single DEF Types, DataTypes, OnceEach
    <3>2. /\ written \o <<m>> \in Seq(Messages)
          /\ Range(written \o <<m>>) = Range(written) \cup {m}
      <4>1. /\ written \o <<m>> \in Seq(Messages)
            /\ Range(written \o <<m>>) = Range(written) \cup Range(<<m>>)
        BY ZenonT(40), <3>1, RangeConcat
      <4> QED
        BY Zenon, <3>1, <4>1
    <3>3. Once(written \o <<m>>)
      <4>1. Range(written) \cap Range(<<m>>) = {}
        BY Zenon, <1>6, <3>1 DEF InFile
      <4> QED
        BY Zenon, <3>1, <4>1, OnceConcat
    <3> QED
      BY Zenon, <1>1, <1>7, <3>2, <3>3 DEF InFile
  <2>2. DataTypes'
    <3>1. pc[p] # "idle" /\ num' \in [Producers -> Nat] /\ m_dropped_messages' \in Nat
      BY Zenon, <1>1 DEF Types, DataTypes
    <3> QED
      BY Zenon, <1>1, <2>1, <3>1, DataStay DEF Types
  <2>3. Known'
    BY Zenon, <1>1, <1>2, <1>3, <1>7, <2>1 DEF Types, Known, InFile
  <2>4. OnceEach'
    BY Zenon, <1>1, <2>1 DEF OnceEach
  <2>5. Apart'
    <3>1. \A a \in PlaceNames \ {"own", "file"} : Place(a)' \subseteq Place(a)
      BY Zenon, <1>1, <1>3, <1>4, <1>7, PlacesAre, PlacesAreNext DEF PlaceNames
    <3>2. "own" \in PlaceNames /\ "file" \in PlaceNames /\ "own" # "file"
      BY Zenon DEF PlaceNames
    <3>3. {m} \subseteq Place("own") /\ Place("own")' \subseteq Place("own") \ {m}
      BY Zenon, <1>2, PlacesAre, PlacesAreNext
    <3>4. Place("file")' \subseteq Place("file") \cup {m}
      BY Zenon, <2>1, PlacesAre, PlacesAreNext
    <3> QED
      BY Zenon, <3>1, <3>2, <3>3, <3>4, ApartFrom
  <2>6. Accounts'
    <3>1. pc[p] # "idle" /\ accepted' = accepted \cup {Message(p)} /\ UNCHANGED refused
      BY Zenon, <1>1, <1>7 DEF m
    <3>2. Message(p) \in Somewhere' /\ Somewhere \subseteq Somewhere' /\ InFile \subseteq InFile'
      BY Zenon, <1>1, <1>3, <2>1 DEF Somewhere, m
    <3> QED
      BY Zenon, <1>1, <3>1, <3>2, AccountsAccept DEF Types
  <2> QED
    BY Zenon, <1>3, <1>5, <2>2, <2>3, <2>4, <2>5, <2>6 DEF Fate
<1>8. CASE m_file_stream # "good"
  <2>2. DataTypes'
    <3>1. /\ pc[p] # "idle" /\ num' \in [Producers -> Nat] /\ m_dropped_messages' \in Nat
          /\ written' \in Seq(Messages)
      BY Zenon, <1>1, <1>8 DEF Types, DataTypes
    <3> QED
      BY Zenon, <1>1, <3>1, DataStay DEF Types
  <2>3. Known'
    BY Zenon, <1>1, <1>2, <1>3, <1>8 DEF Types, Known
  <2>4. OnceEach'
    BY Zenon, <1>1, <1>8 DEF OnceEach
  <2>5. Apart'
    <3>1. \A a \in PlaceNames \ {"own", "refused"} : Place(a)' \subseteq Place(a)
      BY Zenon, <1>1, <1>3, <1>4, <1>8, PlacesAre, PlacesAreNext DEF PlaceNames, InFile
    <3>2. "own" \in PlaceNames /\ "refused" \in PlaceNames /\ "own" # "refused"
      BY Zenon DEF PlaceNames
    <3>3. {m} \subseteq Place("own") /\ Place("own")' \subseteq Place("own") \ {m}
      BY Zenon, <1>2, PlacesAre, PlacesAreNext
    <3>4. Place("refused")' \subseteq Place("refused") \cup {m}
      BY Zenon, <1>1, <1>8, PlacesAre, PlacesAreNext
    <3> QED
      BY Zenon, <3>1, <3>2, <3>3, <3>4, ApartFrom
  <2>6. Accounts'
    <3>1. /\ pc[p] # "idle" /\ refused' = refused \cup {Message(p)} /\ UNCHANGED <<written, accepted>>
      BY Zenon, <1>1, <1>8 DEF m
    <3>2. Message(p) \notin evicted
      BY Zenon, <1>2, PlacesAre DEF Apart, PlaceNames, m
    <3> QED
      BY Zenon, <1>1, <1>8, <3>1, <3>2, AccountsRefuse DEF Types
  <2> QED
    BY Zenon, <1>3, <1>5, <2>2, <2>3, <2>4, <2>5, <2>6 DEF Fate
<1> QED
  BY Zenon, <1>7, <1>8

\* The new message is dropped.
LEMMA DropNewKeeps ==
  ASSUME Types, Slots, Apart, OnceEach, Accounts, NEW p \in Producers, DropNew(p), Counting
  PROVE  Fate'
<1> DEFINE m == Message(p)
<1>1. /\ pc[p] = "drop" /\ pc'[p] = "idle" /\ Alone(p)
      /\ UNCHANGED <<head, tail, cell, held, batch, sent, evicted, num, snapshot, m_file_stream, written,
                     accepted>>
      /\ m_dropped_messages' = m_dropped_messages + 1
      /\ refused' = refused \cup {m}
  <2>1. pc[p] = "drop" /\ pc'[p] = "idle" /\ Alone(p)
    BY Zenon, PcMoves, ProcsApart DEF DropNew, Goto, Types
  <2> QED
    BY Zenon, <2>1 DEF DropNew, Drop, Refuse, queueVars, others
<1>2. /\ Logged' = Logged /\ m \in Own /\ Own' = Own \ {m} /\ m \in Logged
  <2>1. pc[p] \in OwnPCs /\ pc'[p] \notin OwnPCs /\ pc[p] # "idle"
    BY Zenon, <1>1 DEF OwnPCs
  <2> QED
    BY Zenon, <1>1, <2>1, OwnLeft, LoggedStays, MessageLogged DEF Types
<1>3. InQueue' = InQueue /\ HeldItems' = HeldItems /\ InFile' = InFile /\ QueueTypes'
  BY Zenon, <1>1 DEF InQueue, HeldItems, InFile, Types, QueueTypes
<1>4. /\ Evicting' = Evicting
      /\ InBatch(Writer)' = InBatch(Writer) /\ InBatch(Stopper)' = InBatch(Stopper)
  BY Zenon, <1>1, ProducerKeeps
<1>5. Slots'
  BY Zenon, <1>1, SlotsStay
<1> HIDE DEF m
<1>6. DataTypes'
  <2>1. m_dropped_messages' \in Nat
    BY <1>1 DEF Types, DataTypes
  <2>2. pc[p] # "idle" /\ num' \in [Producers -> Nat] /\ written' \in Seq(Messages)
    BY Zenon, <1>1 DEF Types, DataTypes
  <2> QED
    BY Zenon, <1>1, <2>1, <2>2, DataStay DEF Types
<1>7. Known'
  BY Zenon, <1>1, <1>2, <1>3 DEF Types, Known
<1>8. OnceEach'
  BY Zenon, <1>1 DEF OnceEach
<1>9. Apart'
  <2>1. \A a \in PlaceNames \ {"own", "refused"} : Place(a)' \subseteq Place(a)
    BY Zenon, <1>1, <1>3, <1>4, PlacesAre, PlacesAreNext DEF PlaceNames
  <2>2. "own" \in PlaceNames /\ "refused" \in PlaceNames /\ "own" # "refused"
    BY Zenon DEF PlaceNames
  <2>3. {m} \subseteq Place("own") /\ Place("own")' \subseteq Place("own") \ {m}
    BY Zenon, <1>2, PlacesAre, PlacesAreNext
  <2>4. Place("refused")' \subseteq Place("refused") \cup {m}
    BY Zenon, <1>1, PlacesAre, PlacesAreNext
  <2> QED
    BY Zenon, <2>1, <2>2, <2>3, <2>4, ApartFrom
<1>10. Accounts'
  <2>1. pc[p] # "idle" /\ refused' = refused \cup {Message(p)}
    BY Zenon, <1>1 DEF m
  <2>2. Message(p) \notin evicted
    BY Zenon, <1>2, PlacesAre DEF Apart, PlaceNames, m
  <2> QED
    BY Zenon, <1>1, <2>1, <2>2, AccountsRefuse DEF Types
<1> QED
  BY Zenon, <1>3, <1>5, <1>6, <1>7, <1>8, <1>9, <1>10 DEF Fate

\* A held cell's message is with the producer that evicts it or in a batch, so in no cell.
LEMMA HeldWhere ==
  ASSUME DataTypes, Slots, Apart, NEW h \in held
  PROVE  /\ h.item \in Evicting \cup InBatch(Writer) \cup InBatch(Stopper)
         /\ h.item \notin InQueue
<1>1. ASSUME NEW w \in Consumers, Pops(w, h) PROVE h.item \in InBatch(w)
  <2>1. Len(batch[w]) \in DOMAIN batch[w]
    <3>1. batch[w] \in Seq(Messages) /\ Len(batch[w]) > 0
      BY Zenon, <1>1 DEF DataTypes, Pops
    <3> QED
      BY <3>1
  <2> QED
    BY Zenon, <1>1, <2>1 DEF Pops, InBatch, Range
<1>2. ASSUME NEW p \in Producers, Evicts(p, h) PROVE h.item \in Evicting
  BY Zenon, <1>2 DEF Evicting
<1>3. h.item \in Evicting \cup InBatch(Writer) \cup InBatch(Stopper)
  BY Zenon, <1>1, <1>2 DEF Slots, Consumers
<1>4. /\ Evicting \cap InQueue = {} /\ InBatch(Writer) \cap InQueue = {}
      /\ InBatch(Stopper) \cap InQueue = {}
  BY Zenon, PlacesAre DEF Apart, PlaceNames
<1> QED
  BY Zenon, <1>3, <1>4

\* A producer wins a cell for its message.
LEMMA PushClaimsKeeps ==
  ASSUME Types, Slots, Apart, OnceEach, Accounts, NEW p \in Producers, PushClaims(p)
  PROVE  Fate'
<1> DEFINE m == Message(p)
<1>1. /\ pc[p] \in {"push", "retry", "repush"} /\ pc'[p] = "publish" /\ Alone(p)
      /\ UNCHANGED <<batch, sent, written, m_dropped_messages, accepted, refused, evicted, snapshot,
                     m_file_stream>>
      /\ num' = [num EXCEPT ![p] = tail] /\ Claim(m)
  <2>1. pc'[p] = "publish" /\ Alone(p)
    BY Zenon, PcMoves, ProcsApart DEF PushClaims, Types
  <2> QED
    BY Zenon, <2>1 DEF PushClaims, counts, fates, others
<1>2. /\ Logged' = Logged /\ m \in Own /\ Own' = Own \ {m} /\ m \in Messages /\ m \in Logged
      /\ \A q \in Producers : Message(q)' = Message(q)
  <2>1. pc[p] \in OwnPCs /\ pc'[p] \notin OwnPCs /\ pc[p] # "idle"
    BY Zenon, <1>1 DEF OwnPCs
  <2> QED
    BY Zenon, <1>1, <2>1, OwnLeft, LoggedStays, MessageLogged DEF Types
<1>3. /\ QueueTypes' /\ head' = head /\ held' = held
      /\ DOMAIN cell' = DOMAIN cell \cup {tail} /\ tail \notin DOMAIN cell
      /\ cell'[tail].item = m /\ ~ cell'[tail].ready
      /\ \A n \in DOMAIN cell : cell'[n] = cell[n]
      /\ InQueue' = InQueue \cup {m}
  BY Zenon, <1>1, <1>2, ClaimDoes DEF Types
<1>4. /\ num' \in [Producers -> Nat] /\ num'[p] = tail
      /\ \A q \in Producers : q # p => num'[q] = num[q]
  BY <1>1 DEF Types, DataTypes, QueueTypes
<1>5. /\ \A q \in Producers : q # p => pc'[q] = pc[q]
      /\ \A w \in Consumers : pc'[w] = pc[w]
  BY Zenon, <1>1, ProducerAlone
<1> HIDE DEF m
<1>6. DataTypes'
  <2>1. pc[p] # "idle" /\ m_dropped_messages' \in Nat /\ written' \in Seq(Messages)
    BY Zenon, <1>1 DEF Types, DataTypes
  <2> QED
    BY Zenon, <1>1, <1>4, <2>1, DataStay DEF Types
<1>7. Known'
  BY Zenon, <1>1, <1>2, <1>3 DEF Types, Known, HeldItems
<1>8. \A h \in held : \A q \in Producers : Evicts(q, h)' <=> Evicts(q, h)
  BY Zenon, <1>1, <1>4, <1>5 DEF Evicts
<1>9. Slots'
  <2>1. \A w \in Consumers, h \in held : Pops(w, h)' <=> Pops(w, h)
    BY Zenon, <1>1, <1>5 DEF Pops
  <2>2. \A q \in Producers : pc'[q] = "publish" =>
          num'[q] \in DOMAIN cell' /\ ~ cell'[num'[q]].ready /\ cell'[num'[q]].item = Message(q)'
    BY ZenonT(40), <1>1, <1>2, <1>3, <1>4, <1>5 DEF Slots, m
  <2>3. \A q \in Producers : pc'[q] = "evicting" => pc[q] = "evicting" /\ num'[q] = num[q]
    BY Zenon, <1>1, <1>4, <1>5
  <2> QED
    BY ZenonT(40), <1>3, <1>8, <2>1, <2>2, <2>3 DEF Slots
<1>10. Apart'
  <2>1. Evicting' = Evicting
    BY Zenon, <1>3, <1>8 DEF Evicting
  <2>2. InBatch(Writer)' = InBatch(Writer) /\ InBatch(Stopper)' = InBatch(Stopper)
    BY Zenon, <1>1, <1>5, BatchStays, ProcsApart
  <2>3. \A a \in PlaceNames \ {"own", "queue"} : Place(a)' \subseteq Place(a)
    BY Zenon, <1>1, <2>1, <2>2, PlacesAre, PlacesAreNext DEF PlaceNames, InFile
  <2>4. "own" \in PlaceNames /\ "queue" \in PlaceNames /\ "own" # "queue"
    BY Zenon DEF PlaceNames
  <2>5. {m} \subseteq Place("own") /\ Place("own")' \subseteq Place("own") \ {m}
    BY Zenon, <1>2, PlacesAre, PlacesAreNext
  <2>6. Place("queue")' \subseteq Place("queue") \cup {m}
    BY Zenon, <1>3, PlacesAre, PlacesAreNext
  <2> QED
    BY Zenon, <2>3, <2>4, <2>5, <2>6, ApartFrom
<1>11. OnceEach'
  <2>1. Own \cap InQueue = {}
    BY Zenon, PlacesAre DEF Apart, PlaceNames
  <2>2. \A n \in DOMAIN cell : cell[n].item # m
    BY Zenon, <1>2, <2>1 DEF InQueue
  <2> QED
    BY Zenon, <1>1, <1>3, <2>2 DEF OnceEach
<1>12. Accounts'
  <2>1. Somewhere \subseteq Somewhere' /\ InFile' = InFile /\ m \in Somewhere'
    BY Zenon, <1>1, <1>3 DEF Somewhere, InFile, HeldItems
  <2>2. \A q \in Producers : /\ pc'[q] # "idle" => pc[q] # "idle"
                             /\ pc'[q] \in PushedPCs => pc[q] \in PushedPCs \/ Message(q) \in Somewhere'
    BY Zenon, <1>1, <1>5, <2>1 DEF PushedPCs, m
  <2>3. m_file_stream = "good" /\ pc'[Writer] \in {"uncount", "signal"} =>
          Range(batch'[Writer]) \subseteq InFile'
    BY Zenon, <1>1, <1>5, <2>1, ProcsApart DEF Accounts
  <2> QED
    BY Zenon, <1>1, <2>1, <2>2, <2>3, AccountsKept
<1> QED
  BY Zenon, <1>3, <1>6, <1>7, <1>9, <1>10, <1>11, <1>12 DEF Fate

\* A producer publishes its cell.
LEMMA PushPublishesKeeps ==
  ASSUME Types, Slots, Apart, OnceEach, Accounts, NEW p \in Producers, PushPublishes(p)
  PROVE  Fate'
<1>1. /\ pc[p] = "publish" /\ pc'[p] = "notify" /\ Alone(p)
      /\ UNCHANGED <<batch, sent, num, written, m_dropped_messages, accepted, refused, evicted,
                     snapshot, m_file_stream>>
      /\ Publish(num[p])
  <2>1. pc[p] = "publish" /\ pc'[p] = "notify" /\ Alone(p)
    BY Zenon, PcMoves, ProcsApart DEF PushPublishes, Goto, Types
  <2> QED
    BY Zenon, <2>1 DEF PushPublishes, counts, fates, others
<1>2. Logged' = Logged /\ \A q \in Producers : Message(q)' = Message(q)
  BY Zenon, <1>1, LoggedStays
<1>3. /\ QueueTypes' /\ UNCHANGED <<head, tail, held>>
      /\ DOMAIN cell' = DOMAIN cell
      /\ \A n \in DOMAIN cell : cell'[n].item = cell[n].item
      /\ \A n \in DOMAIN cell : n # num[p] => cell'[n] = cell[n]
      /\ InQueue' = InQueue
  BY <1>1, PublishDoes DEF Types
<1>4. /\ \A q \in Producers : q # p => pc'[q] = pc[q]
      /\ \A w \in Consumers : pc'[w] = pc[w]
  BY Zenon, <1>1, ProducerAlone
<1>5. DataTypes'
  <2>1. /\ pc[p] # "idle" /\ m_dropped_messages' \in Nat /\ written' \in Seq(Messages)
        /\ num' \in [Producers -> Nat]
    BY Zenon, <1>1 DEF Types, DataTypes
  <2> QED
    BY Zenon, <1>1, <2>1, DataStay DEF Types
<1>6. Known'
  BY Zenon, <1>1, <1>2, <1>3 DEF Types, Known, HeldItems
<1>7. Slots'
  <2>1. \A q \in Producers : /\ pc'[q] = "evicting" <=> pc[q] = "evicting"
                             /\ pc'[q] = "publish" => pc[q] = "publish" /\ q # p
    BY Zenon, <1>1, <1>4
  <2>2. \A q \in Producers, h \in held : Evicts(q, h)' <=> Evicts(q, h)
    BY Zenon, <1>1, <2>1 DEF Evicts
  <2>3. \A w \in Consumers, h \in held : Pops(w, h)' <=> Pops(w, h)
    BY Zenon, <1>1, <1>4 DEF Pops
  <2>4. ASSUME NEW q \in Producers, pc'[q] = "publish"
        PROVE  num[q] \in DOMAIN cell /\ ~ cell'[num[q]].ready /\ cell'[num[q]].item = Message(q)
    <3>1. /\ num[q] \in DOMAIN cell /\ ~ cell[num[q]].ready /\ cell[num[q]].item = Message(q)
          /\ cell[num[p]].item = Message(p)
      BY Zenon, <1>1, <2>1, <2>4 DEF Slots
    <3>2. Message(q) # Message(p)
      BY Zenon, <2>1, <2>4, MessageLogged DEF Types
    <3> QED
      BY Zenon, <1>3, <3>1, <3>2
  <2> QED
    BY Zenon, <1>1, <1>2, <1>3, <2>1, <2>2, <2>3, <2>4 DEF Slots
<1>8. Apart'
  <2>1. Own' = Own
    <3>1. \A q \in Producers : pc'[q] \in OwnPCs <=> pc[q] \in OwnPCs
      BY Zenon, <1>1, <1>4 DEF OwnPCs
    <3> QED
      BY Zenon, <1>1, <3>1, OwnStays
  <2>2. /\ Evicting' = Evicting
        /\ InBatch(Writer)' = InBatch(Writer) /\ InBatch(Stopper)' = InBatch(Stopper)
    BY Zenon, <1>1, <1>3, ProducerKeeps
  <2>3. \A a \in PlaceNames : Place(a)' = Place(a)
    BY Zenon, <1>1, <1>3, <2>1, <2>2, PlacesAre, PlacesAreNext DEF PlaceNames, InFile
  <2> QED
    BY Zenon, <2>3 DEF Apart
<1>9. OnceEach'
  BY Zenon, <1>1, <1>3 DEF OnceEach
<1>10. Accounts'
  <2>1. Somewhere \subseteq Somewhere' /\ InFile' = InFile
    BY Zenon, <1>1, <1>3 DEF Somewhere, InFile, HeldItems
  <2>2. \A q \in Producers : /\ pc'[q] # "idle" => pc[q] # "idle"
                             /\ pc'[q] \in PushedPCs => pc[q] \in PushedPCs
    BY Zenon, <1>1, <1>4 DEF PushedPCs
  <2>3. m_file_stream = "good" /\ pc'[Writer] \in {"uncount", "signal"} =>
          Range(batch'[Writer]) \subseteq InFile'
    BY Zenon, <1>1, <1>4, <2>1, ProcsApart DEF Accounts
  <2> QED
    BY Zenon, <1>1, <2>1, <2>2, <2>3, AccountsKept
<1> QED
  BY Zenon, <1>3, <1>5, <1>6, <1>7, <1>8, <1>9, <1>10 DEF Fate

\* enqueue returns true.
LEMMA PushEndsKeeps ==
  ASSUME Types, Slots, Apart, OnceEach, Accounts, NEW p \in Producers, LookForWriter(p) \/ WakeWriter(p)
  PROVE  Fate'
<1>1. /\ pc[p] \in {"notify", "wake"} /\ pc'[p] \in {"wake", "idle"} /\ Alone(p)
      /\ UNCHANGED <<head, tail, cell, held, batch, sent, num, written, m_dropped_messages, refused,
                     evicted, snapshot, m_file_stream>>
      /\ accepted' \in {accepted, accepted \cup {Message(p)}}
      /\ pc'[p] = "wake" => accepted' = accepted
      /\ pc'[p] = "idle" => accepted' = accepted \cup {Message(p)}
  <2>1. PICK to \in {"wake", "idle"} : pc' = [pc EXCEPT ![p] = to]
    BY Zenon DEF LookForWriter, WakeWriter, Goto
  <2>2. pc'[p] \in {"wake", "idle"} /\ Alone(p)
    BY Zenon, <2>1, PcMoves, ProcsApart DEF Types
  <2>3. /\ pc[p] \in {"notify", "wake"}
        /\ UNCHANGED <<refused, evicted>> /\ accepted' \in {accepted, accepted \cup {Message(p)}}
    BY Zenon DEF LookForWriter, WakeWriter, Goto, fates, Accept
  <2>4. \/ pc' = [pc EXCEPT ![p] = "wake"] /\ accepted' = accepted
        \/ pc' = [pc EXCEPT ![p] = "idle"] /\ accepted' = accepted \cup {Message(p)}
    BY Zenon DEF LookForWriter, WakeWriter, Goto, fates, Accept
  <2>5. \/ pc'[p] = "wake" /\ accepted' = accepted
        \/ pc'[p] = "idle" /\ accepted' = accepted \cup {Message(p)}
    BY Zenon, <2>4, PcMoves, ProcsApart DEF Types
  <2> QED
    BY Zenon, <2>2, <2>3, <2>5 DEF LookForWriter, WakeWriter, queueVars, counts, others
<1>2. Logged' = Logged /\ Message(p) \in Logged
  BY Zenon, <1>1, LoggedStays, MessageLogged DEF Types
<1>3. QueueTypes' /\ OnceEach' /\ InQueue' = InQueue /\ HeldItems' = HeldItems /\ InFile' = InFile
  BY ZenonT(40), <1>1 DEF Types, QueueTypes, OnceEach, InQueue, HeldItems, InFile
<1>4. DataTypes'
  <2>1. /\ pc[p] # "idle" /\ m_dropped_messages' \in Nat /\ written' \in Seq(Messages)
        /\ num' \in [Producers -> Nat]
    BY Zenon, <1>1 DEF Types, DataTypes
  <2> QED
    BY Zenon, <1>1, <2>1, DataStay DEF Types
<1>5. Known'
  <2>1. accepted \subseteq accepted' /\ accepted' \subseteq Logged
    BY Zenon, <1>1, <1>2 DEF Types, Known
  <2> QED
    BY Zenon, <1>1, <1>2, <1>3, <2>1 DEF Types, Known
<1>6. Slots'
  BY Zenon, <1>1, SlotsStay
<1>7. Apart'
  <2>1. Own' = Own
    <3>1. \A q \in Producers : pc'[q] \in OwnPCs <=> pc[q] \in OwnPCs
      BY Zenon, <1>1, ProducerAlone DEF OwnPCs
    <3> QED
      BY Zenon, <1>1, <3>1, OwnStays
  <2>2. /\ Evicting' = Evicting
        /\ InBatch(Writer)' = InBatch(Writer) /\ InBatch(Stopper)' = InBatch(Stopper)
    BY Zenon, <1>1, ProducerKeeps
  <2>3. \A a \in PlaceNames : Place(a)' = Place(a)
    BY Zenon, <1>1, <1>3, <2>1, <2>2, PlacesAre, PlacesAreNext DEF PlaceNames
  <2> QED
    BY Zenon, <2>3 DEF Apart
<1>8. Accounts'
  <2>1. Somewhere' = Somewhere
    BY Zenon, <1>1, <1>3 DEF Somewhere
  <2>2. pc[p] # "idle" /\ pc[p] \in PushedPCs
    BY Zenon, <1>1 DEF PushedPCs
  <2>3. CASE pc'[p] = "idle"
    <3>1. m_file_stream = "good" => Message(p) \in Somewhere'
      BY Zenon, <2>1, <2>2 DEF Accounts
    <3> QED
      BY Zenon, <1>1, <1>3, <2>1, <2>2, <2>3, <3>1, AccountsAccept DEF Types
  <2>4. CASE pc'[p] = "wake"
    <3>1. /\ \A q \in Producers : q # p => pc'[q] = pc[q]
          /\ pc'[Writer] = pc[Writer]
      BY Zenon, <1>1, ProducerAlone, ProcsApart
    <3>2. \A q \in Producers : /\ pc'[q] # "idle" => pc[q] # "idle"
                               /\ pc'[q] \in PushedPCs => pc[q] \in PushedPCs
      BY Zenon, <2>2, <2>4, <3>1
    <3>3. m_file_stream = "good" /\ pc'[Writer] \in {"uncount", "signal"} =>
            Range(batch'[Writer]) \subseteq InFile'
      BY Zenon, <1>1, <1>3, <3>1 DEF Accounts
    <3> QED
      BY Zenon, <1>1, <2>1, <2>4, <3>2, <3>3, AccountsKept
  <2> QED
    BY Zenon, <1>1, <2>3, <2>4
<1> QED
  BY Zenon, <1>3, <1>4, <1>5, <1>6, <1>7, <1>8 DEF Fate

\* The cell a pop takes.
Popped == [pos |-> head, item |-> cell[head].item]

\* A popped cell is a new one among those whose slot is in use.
LEMMA TakeSlots ==
  ASSUME Types, Slots, Apart, OnceEach, Take
  PROVE  /\ held' = held \cup {Popped} /\ Popped.pos = head /\ Popped.item = cell[head].item
         /\ \A h \in held' : h.pos < head'
         /\ \A g, h \in held' : g.pos = h.pos \/ g.item = h.item => g = h
         /\ \A h \in held : h.pos # head
         /\ head < head'
         /\ \A q \in Producers : pc[q] = "evicting" => num[q] < head' /\ num[q] # head
         /\ \A q \in Producers : pc[q] = "publish" =>
              num[q] \in DOMAIN cell' /\ ~ cell'[num[q]].ready /\ cell'[num[q]].item = Message(q)
         /\ \A i, j \in DOMAIN cell' : cell'[i].item = cell'[j].item => i = j
<1>1. /\ QueueTypes' /\ head' = head + 1 /\ head \in DOMAIN cell /\ cell[head].ready
      /\ DOMAIN cell' = DOMAIN cell \ {head}
      /\ \A n \in DOMAIN cell' : cell'[n] = cell[n]
      /\ held' = held \cup {Popped} /\ cell[head].item \in InQueue
  BY Zenon, TakeDoes DEF Types, Popped
<1>2. Popped.pos = head /\ Popped.item = cell[head].item
  BY Zenon DEF Popped
<1>3. head \in Nat /\ \A h \in held : h.pos \in Nat /\ h.pos < head
  BY DEF Types, QueueTypes, Slots
<1>4. /\ \A h \in held : h.pos < head' /\ h.pos # head
      /\ head < head'
  BY <1>1, <1>3
<1>5. \A h \in held' : h.pos < head'
  BY Zenon, <1>1, <1>2, <1>4
<1>6. \A h \in held : h.item # cell[head].item
  BY Zenon, <1>1, HeldWhere DEF Types
<1>7. ASSUME NEW g \in held', NEW h \in held', g.pos = h.pos \/ g.item = h.item
      PROVE  g = h
  <2>1. CASE g \in held /\ h \in held
    BY Zenon, <1>7, <2>1 DEF Slots
  <2>2. CASE g = Popped /\ h \in held
    BY <1>2, <1>4, <1>6, <1>7, <2>2
  <2>3. CASE h = Popped /\ g \in held
    BY <1>2, <1>4, <1>6, <1>7, <2>3
  <2> QED
    BY Zenon, <1>1, <2>1, <2>2, <2>3
<1>8. \A q \in Producers : pc[q] = "evicting" => num[q] < head' /\ num[q] # head
  <2>1. \A q \in Producers : num[q] \in Nat /\ (pc[q] = "evicting" => num[q] < head)
    BY Zenon DEF Types, DataTypes, Slots
  <2> QED
    BY <1>1, <1>3, <2>1
<1>9. \A q \in Producers : pc[q] = "publish" =>
        num[q] \in DOMAIN cell' /\ ~ cell'[num[q]].ready /\ cell'[num[q]].item = Message(q)
  BY Zenon, <1>1 DEF Slots
<1>10. \A i, j \in DOMAIN cell' : cell'[i].item = cell'[j].item => i = j
  BY Zenon, <1>1 DEF OnceEach
<1> QED
  BY Zenon, <1>1, <1>2, <1>4, <1>5, <1>7, <1>8, <1>9, <1>10

\* DropOldest takes the oldest message.
LEMMA EvictTakesKeeps ==
  ASSUME Types, Slots, Apart, OnceEach, Accounts, NEW p \in Producers, EvictTakes(p)
  PROVE  Fate'
<1> DEFINE x == cell[head].item
<1>1. /\ pc[p] = "evict" /\ pc'[p] = "evicting" /\ Alone(p)
      /\ UNCHANGED <<batch, sent, written, m_dropped_messages, accepted, refused, evicted, snapshot,
                     m_file_stream>>
      /\ num' = [num EXCEPT ![p] = head] /\ Take
  <2>1. pc[p] = "evict" /\ pc'[p] = "evicting" /\ Alone(p)
    BY Zenon, PcMoves, ProcsApart DEF EvictTakes, Goto, Types
  <2> QED
    BY Zenon, <2>1 DEF EvictTakes, counts, fates, others
<1>2. Logged' = Logged /\ \A q \in Producers : Message(q)' = Message(q)
  BY Zenon, <1>1, LoggedStays
<1>3. /\ QueueTypes' /\ x \in InQueue /\ InQueue' = InQueue \ {x} /\ HeldItems' = HeldItems \cup {x}
  BY Zenon, <1>1, TakeDoes DEF Types
<1>4. /\ num' \in [Producers -> Nat] /\ num'[p] = head
      /\ \A q \in Producers : q # p => num'[q] = num[q]
  BY <1>1 DEF Types, DataTypes, QueueTypes
<1>5. /\ \A q \in Producers : q # p => pc'[q] = pc[q]
      /\ \A w \in Consumers : pc'[w] = pc[w]
  BY Zenon, <1>1, ProducerAlone
<1>6. /\ held' = held \cup {Popped} /\ Popped.pos = head /\ Popped.item = x
      /\ \A h \in held' : h.pos < head'
      /\ \A g, h \in held' : g.pos = h.pos \/ g.item = h.item => g = h
      /\ \A h \in held : h.pos # head
      /\ head < head'
      /\ \A q \in Producers : pc[q] = "evicting" => num[q] < head' /\ num[q] # head
      /\ \A q \in Producers : pc[q] = "publish" =>
           num[q] \in DOMAIN cell' /\ ~ cell'[num[q]].ready /\ cell'[num[q]].item = Message(q)
      /\ \A i, j \in DOMAIN cell' : cell'[i].item = cell'[j].item => i = j
  BY Zenon, <1>1, TakeSlots
<1> HIDE DEF x
<1>7. DataTypes'
  <2>1. pc[p] # "idle" /\ m_dropped_messages' \in Nat /\ written' \in Seq(Messages)
    BY Zenon, <1>1 DEF Types, DataTypes
  <2> QED
    BY Zenon, <1>1, <1>4, <2>1, DataStay DEF Types
<1>8. Known'
  BY Zenon, <1>1, <1>2, <1>3 DEF Types, Known
<1>9. /\ \A h \in held : \A q \in Producers : Evicts(q, h)' <=> Evicts(q, h)
      /\ \A h \in held' : h \in held \/ Evicts(p, h)'
  <2>1. \A h \in held : \A q \in Producers : Evicts(q, h)' <=> Evicts(q, h)
    BY Zenon, <1>1, <1>4, <1>5, <1>6 DEF Evicts
  <2>2. ASSUME NEW h \in held', h \notin held PROVE Evicts(p, h)'
    <3>1. h = Popped
      BY Zenon, <1>6, <2>2
    <3>2. pc'[p] = "evicting" /\ num'[p] = h.pos
      BY Zenon, <1>1, <1>4, <1>6, <3>1
    <3> QED
      BY Zenon, <3>2 DEF Evicts
  <2> QED
    BY Zenon, <2>1, <2>2
<1>10. Slots'
  <2>1. \A w \in Consumers, h \in held : Pops(w, h)' <=> Pops(w, h)
    BY Zenon, <1>1, <1>5 DEF Pops
  <2>2. \A q \in Producers : pc'[q] = "evicting" => num'[q] < head'
    BY Zenon, <1>4, <1>5, <1>6
  <2>3. \A q, r \in Producers : pc'[q] = "evicting" /\ pc'[r] = "evicting" /\ num'[q] = num'[r]
                                => q = r
    <3>1. \A q \in Producers : q # p /\ pc'[q] = "evicting" =>
            pc[q] = "evicting" /\ num'[q] = num[q] /\ num'[q] # num'[p]
      BY Zenon, <1>4, <1>5, <1>6
    <3> QED
      BY Zenon, <3>1 DEF Slots
  <2>4. \A q \in Producers : pc'[q] = "publish" =>
          num'[q] \in DOMAIN cell' /\ ~ cell'[num'[q]].ready /\ cell'[num'[q]].item = Message(q)'
    BY Zenon, <1>1, <1>2, <1>4, <1>5, <1>6
  <2>5. \A h \in held' : (\E q \in Producers : Evicts(q, h)') \/ (\E w \in Consumers : Pops(w, h)')
    <3>1. \A h \in held : (\E q \in Producers : Evicts(q, h)') \/ (\E w \in Consumers : Pops(w, h)')
      BY Zenon, <1>9, <2>1 DEF Slots
    <3> QED
      BY Zenon, <1>9, <3>1
  <2> QED
    BY Zenon, <1>6, <2>2, <2>3, <2>4, <2>5 DEF Slots
<1>11. Apart'
  <2>1. Evicting' \subseteq Evicting \cup {x}
    BY Zenon, <1>6, <1>9 DEF Evicting
  <2>2. InBatch(Writer)' = InBatch(Writer) /\ InBatch(Stopper)' = InBatch(Stopper)
    BY Zenon, <1>1, <1>5, BatchStays, ProcsApart
  <2>3. Own' = Own
    <3>1. \A q \in Producers : pc'[q] \in OwnPCs <=> pc[q] \in OwnPCs
      BY Zenon, <1>1, <1>5 DEF OwnPCs
    <3> QED
      BY Zenon, <1>1, <3>1, OwnStays
  <2>4. \A a \in PlaceNames \ {"queue", "evicting"} : Place(a)' \subseteq Place(a)
    BY Zenon, <1>1, <2>2, <2>3, PlacesAre, PlacesAreNext DEF PlaceNames, InFile
  <2>5. "queue" \in PlaceNames /\ "evicting" \in PlaceNames /\ "queue" # "evicting"
    BY Zenon DEF PlaceNames
  <2>6. {x} \subseteq Place("queue") /\ Place("queue")' \subseteq Place("queue") \ {x}
    BY Zenon, <1>3, PlacesAre, PlacesAreNext
  <2>7. Place("evicting")' \subseteq Place("evicting") \cup {x}
    BY Zenon, <2>1, PlacesAre, PlacesAreNext
  <2> QED
    BY Zenon, <2>4, <2>5, <2>6, <2>7, ApartFrom
<1>12. OnceEach'
  BY Zenon, <1>1, <1>6 DEF OnceEach
<1>13. Accounts'
  <2>1. Somewhere \subseteq Somewhere' /\ InFile' = InFile
    BY Zenon, <1>1, <1>3 DEF Somewhere, InFile
  <2>2. \A q \in Producers : /\ pc'[q] # "idle" => pc[q] # "idle"
                             /\ pc'[q] \in PushedPCs => pc[q] \in PushedPCs
    BY Zenon, <1>1, <1>5 DEF PushedPCs
  <2>3. m_file_stream = "good" /\ pc'[Writer] \in {"uncount", "signal"} =>
          Range(batch'[Writer]) \subseteq InFile'
    BY Zenon, <1>1, <1>5, <2>1, ProcsApart DEF Accounts
  <2> QED
    BY Zenon, <1>1, <2>1, <2>2, <2>3, AccountsKept
<1> QED
  BY Zenon, <1>3, <1>7, <1>8, <1>10, <1>11, <1>12, <1>13 DEF Fate

\* DropOldest gives the slot of the evicted message back.
LEMMA EvictFreesKeeps ==
  ASSUME Types, Slots, Apart, OnceEach, Accounts, NEW p \in Producers, EvictFrees(p), Counting
  PROVE  Fate'
<1>1. PICK h \in held : h.pos = num[p] /\ Free(h) /\ evicted' = evicted \cup {h.item}
  BY Zenon DEF EvictFrees
<1>2. /\ pc[p] = "evicting" /\ pc'[p] = "repush" /\ Alone(p)
      /\ UNCHANGED <<batch, sent, num, written, accepted, refused, snapshot, m_file_stream>>
      /\ m_dropped_messages' = m_dropped_messages + 1
  <2>1. pc[p] = "evicting" /\ pc'[p] = "repush" /\ Alone(p)
    BY Zenon, PcMoves, ProcsApart DEF EvictFrees, Goto, Types
  <2> QED
    BY Zenon, <2>1 DEF EvictFrees, Drop, others
<1>3. Logged' = Logged /\ \A q \in Producers : Message(q)' = Message(q)
  BY Zenon, <1>2, LoggedStays
<1>4. /\ QueueTypes' /\ UNCHANGED <<head, tail, cell>> /\ held' = held \ {h}
      /\ InQueue' = InQueue /\ HeldItems' \subseteq HeldItems
      /\ HeldItems \subseteq HeldItems' \cup {h.item}
  BY Zenon, <1>1, FreeDoes DEF Types
<1>5. /\ \A q \in Producers : q # p => pc'[q] = pc[q]
      /\ \A w \in Consumers : pc'[w] = pc[w]
  BY Zenon, <1>2, ProducerAlone
<1>6. h.item \in Logged /\ h.item \in Evicting
  <2>1. Evicts(p, h)
    BY Zenon, <1>1, <1>2 DEF Evicts
  <2> QED
    BY Zenon, <1>1, <2>1 DEF Types, Known, HeldItems, Evicting
<1>7. DataTypes'
  <2>1. m_dropped_messages' \in Nat
    BY <1>2 DEF Types, DataTypes
  <2>2. pc[p] # "idle" /\ written' \in Seq(Messages) /\ num' \in [Producers -> Nat]
    BY Zenon, <1>2 DEF Types, DataTypes
  <2> QED
    BY Zenon, <1>2, <2>1, <2>2, DataStay DEF Types
<1>8. Known'
  BY Zenon, <1>1, <1>2, <1>3, <1>4, <1>6 DEF Types, Known
<1>9. \A g \in held' : g \in held /\ g # h /\ g.item # h.item /\ g.pos # h.pos
  BY Zenon, <1>1, <1>4 DEF Slots
<1>10. \A g \in held' : \A q \in Producers : Evicts(q, g)' <=> Evicts(q, g)
  BY Zenon, <1>1, <1>2, <1>5, <1>9 DEF Evicts
<1>11. Slots'
  <2>1. \A w \in Consumers, g \in held' : Pops(w, g)' <=> Pops(w, g)
    BY Zenon, <1>2, <1>5 DEF Pops
  <2>2. \A q \in Producers : /\ pc'[q] = "evicting" => pc[q] = "evicting"
                             /\ pc'[q] = "publish" => pc[q] = "publish"
    BY Zenon, <1>2, <1>5
  <2>3. \A g \in held' : (\E q \in Producers : Evicts(q, g)') \/ (\E w \in Consumers : Pops(w, g)')
    BY Zenon, <1>9, <1>10, <2>1 DEF Slots
  <2> QED
    BY Zenon, <1>2, <1>3, <1>4, <1>9, <2>2, <2>3 DEF Slots
<1>12. Apart'
  <2>1. Evicting' \subseteq Evicting \ {h.item}
    BY Zenon, <1>9, <1>10 DEF Evicting
  <2>2. InBatch(Writer)' = InBatch(Writer) /\ InBatch(Stopper)' = InBatch(Stopper)
    BY Zenon, <1>2, <1>5, BatchStays, ProcsApart
  <2>3. Own' = Own
    <3>1. \A q \in Producers : pc'[q] \in OwnPCs <=> pc[q] \in OwnPCs
      BY Zenon, <1>2, <1>5 DEF OwnPCs
    <3> QED
      BY Zenon, <1>2, <3>1, OwnStays
  <2>4. \A a \in PlaceNames \ {"evicting", "evicted"} : Place(a)' \subseteq Place(a)
    BY Zenon, <1>2, <1>4, <2>2, <2>3, PlacesAre, PlacesAreNext DEF PlaceNames, InFile
  <2>5. "evicting" \in PlaceNames /\ "evicted" \in PlaceNames /\ "evicting" # "evicted"
    BY Zenon DEF PlaceNames
  <2>6. {h.item} \subseteq Place("evicting") /\ Place("evicting")' \subseteq Place("evicting") \ {h.item}
    BY Zenon, <1>6, <2>1, PlacesAre, PlacesAreNext
  <2>7. Place("evicted")' \subseteq Place("evicted") \cup {h.item}
    BY Zenon, <1>1, PlacesAre, PlacesAreNext
  <2> QED
    BY Zenon, <2>4, <2>5, <2>6, <2>7, ApartFrom
<1>13. OnceEach'
  BY Zenon, <1>2, <1>4 DEF OnceEach
<1>14. Accounts'
  <2>1. Somewhere \subseteq Somewhere' /\ InFile' = InFile
    BY Zenon, <1>1, <1>2, <1>4 DEF Somewhere, InFile
  <2>2. \A q \in Producers : /\ pc'[q] # "idle" => pc[q] # "idle"
                             /\ pc'[q] \in PushedPCs => pc[q] \in PushedPCs
    BY Zenon, <1>2, <1>5 DEF PushedPCs
  <2>3. m_file_stream = "good" /\ pc'[Writer] \in {"uncount", "signal"} =>
          Range(batch'[Writer]) \subseteq InFile'
    BY Zenon, <1>2, <1>5, <2>1, ProcsApart DEF Accounts
  <2>4. /\ IsFiniteSet(refused' \cup evicted')
        /\ Cardinality(refused' \cup evicted') = Cardinality(refused \cup evicted) + 1
    <3> DEFINE S == refused \cup evicted
    <3>1. IsFiniteSet(S)
      BY Zenon DEF Accounts
    <3>2. h.item \notin S
      BY Zenon, <1>6, PlacesAre DEF Apart, PlaceNames
    <3>3. refused' \cup evicted' = S \cup {h.item}
      BY Zenon, <1>1, <1>2
    <3> HIDE DEF S
    <3>4. IsFiniteSet(S \cup {h.item}) /\ Cardinality(S \cup {h.item}) = Cardinality(S) + 1
      BY Zenon, <3>1, <3>2, OneMore
    <3> QED
      BY Zenon, <3>3, <3>4 DEF S
  <2>5. m_file_stream = "good" => /\ m_dropped_messages' = Cardinality(refused' \cup evicted')
                                  /\ accepted' \subseteq Somewhere'
                                  /\ \A q \in Producers : pc'[q] \in PushedPCs => Message(q)' \in Somewhere'
    BY Zenon, <1>2, <1>3, <2>1, <2>2, <2>4 DEF Accounts
  <2> QED
    BY Zenon, <1>2, <1>3, <2>2, <2>3, <2>4, <2>5 DEF Accounts
<1> QED
  BY Zenon, <1>4, <1>7, <1>8, <1>11, <1>12, <1>13, <1>14 DEF Fate

\* The batch of a consumer, as a place.
BatchPlace(w) == IF w = Writer THEN "writer" ELSE "stopper"

\* The place of a consumer is its batch.
LEMMA BatchPlaceIs ==
  ASSUME NEW w \in Consumers
  PROVE  /\ BatchPlace(w) \in PlaceNames /\ BatchPlace(w) \in {"writer", "stopper"}
         /\ Place(BatchPlace(w)) = InBatch(w) /\ Place(BatchPlace(w))' = InBatch(w)'
         /\ BatchPlace(w) # "writer" => w # Writer
         /\ BatchPlace(w) # "stopper" => w # Stopper
<1>1. CASE w = Writer
  BY Zenon, <1>1, PlacesAre, PlacesAreNext, ProcsApart DEF BatchPlace, PlaceNames
<1>2. CASE w = Stopper
  BY Zenon, <1>2, PlacesAre, PlacesAreNext, ProcsApart DEF BatchPlace, PlaceNames
<1> QED
  BY Zenon, <1>1, <1>2 DEF Consumers

\* A consumer moves.
LEMMA ConsumerAlone ==
  ASSUME NEW w \in Consumers, Alone(w)
  PROVE  /\ \A q \in Producers : pc'[q] = pc[q]
         /\ \A v \in Consumers : v # w => pc'[v] = pc[v]
BY Zenon, ProcsApart DEF Alone, Consumers

\* What a consumer's step leaves alone when only its own batch and the file change.
LEMMA ConsumerKeeps ==
  ASSUME NEW w \in Consumers, Alone(w), \A v \in Consumers : v # w => batch'[v] = batch[v],
         UNCHANGED <<sent, evicted, refused>>
  PROVE  /\ Own' = Own
         /\ \A v \in Consumers : v # w => InBatch(v)' = InBatch(v)
         /\ Logged' = Logged /\ \A q \in Producers : Message(q)' = Message(q)
<1>1. /\ \A q \in Producers : pc'[q] = pc[q]
      /\ \A v \in Consumers : v # w => pc'[v] = pc[v]
  BY Zenon, ConsumerAlone
<1>2. Own' = Own
  BY Zenon, <1>1, OwnStays
<1>3. \A v \in Consumers : v # w => InBatch(v)' = InBatch(v)
  BY Zenon, <1>1 DEF InBatch
<1> QED
  BY Zenon, <1>2, <1>3, LoggedStays

\* try_pop_batch takes a message into its batch.
LEMMA PopTakesKeeps ==
  ASSUME Types, Slots, Apart, OnceEach, Accounts, NEW w \in Consumers, PopTakes(w)
  PROVE  Fate'
<1> DEFINE x == cell[head].item
<1>1. /\ pc[w] = "pop" /\ pc'[w] = "popping" /\ Alone(w)
      /\ UNCHANGED <<sent, num, written, m_dropped_messages, accepted, refused, evicted, snapshot,
                     m_file_stream>>
      /\ Len(batch[w]) < BatchSize /\ Take
      /\ batch' = [batch EXCEPT ![w] = Append(batch[w], x)]
  <2>1. pc[w] = "pop" /\ pc'[w] = "popping" /\ Alone(w)
    BY Zenon, PcMoves, ProcsApart DEF PopTakes, Goto, Types
  <2> QED
    BY Zenon, <2>1 DEF PopTakes, production, fates
<1>2. /\ QueueTypes' /\ x \in InQueue /\ InQueue' = InQueue \ {x} /\ HeldItems' = HeldItems \cup {x}
      /\ x \in Messages
  BY Zenon, <1>1, TakeDoes DEF Types
<1>3. /\ held' = held \cup {Popped} /\ Popped.pos = head /\ Popped.item = x
      /\ \A h \in held' : h.pos < head'
      /\ \A g, h \in held' : g.pos = h.pos \/ g.item = h.item => g = h
      /\ \A q \in Producers : pc[q] = "evicting" => num[q] < head' /\ num[q] # head
      /\ \A q \in Producers : pc[q] = "publish" =>
           num[q] \in DOMAIN cell' /\ ~ cell'[num[q]].ready /\ cell'[num[q]].item = Message(q)
      /\ \A i, j \in DOMAIN cell' : cell'[i].item = cell'[j].item => i = j
  BY Zenon, <1>1, TakeSlots
<1> HIDE DEF x
<1>4. /\ batch' \in [Consumers -> Seq(Messages)] /\ batch'[w] = Append(batch[w], x)
      /\ \A v \in Consumers : v # w => batch'[v] = batch[v]
      /\ batch[w] \in Seq(Messages)
  <2>1. batch \in [Consumers -> Seq(Messages)] /\ batch[w] \in Seq(Messages)
    BY Zenon DEF Types, DataTypes
  <2>2. Append(batch[w], x) \in Seq(Messages)
    BY Zenon, <1>2, <2>1, RangeAppend
  <2> QED
    BY Zenon, <1>1, <2>1, <2>2
<1>5. /\ Range(batch'[w]) = Range(batch[w]) \cup {x}
      /\ Len(batch'[w]) = Len(batch[w]) + 1 /\ Len(batch[w]) \in Nat
      /\ batch'[w][Len(batch[w]) + 1] = x
  <2>1. /\ Range(Append(batch[w], x)) = Range(batch[w]) \cup {x}
        /\ Len(Append(batch[w], x)) = Len(batch[w]) + 1 /\ Len(batch[w]) \in Nat
        /\ Append(batch[w], x)[Len(batch[w]) + 1] = x
    BY <1>2, <1>4, RangeAppend
  <2> QED
    BY Zenon, <1>4, <2>1
<1>6. Len(batch'[w]) <= BatchSize /\ Len(batch'[w]) > 0
  BY <1>1, <1>5, LoggerAssumption
<1>7. /\ \A q \in Producers : pc'[q] = pc[q]
      /\ \A v \in Consumers : v # w => pc'[v] = pc[v]
  BY Zenon, <1>1, ConsumerAlone
<1>8. /\ Own' = Own /\ Logged' = Logged /\ \A q \in Producers : Message(q)' = Message(q)
      /\ \A v \in Consumers : v # w => InBatch(v)' = InBatch(v)
  BY Zenon, <1>1, <1>4, ConsumerKeeps
<1>9. InBatch(w) = Range(batch[w]) /\ InBatch(w)' = Range(batch'[w])
  BY Zenon, <1>1 DEF InBatch
<1>10. DataTypes'
  <2>1. \A v \in Consumers : Len(batch'[v]) <= BatchSize
    BY Zenon, <1>4, <1>6 DEF Types, DataTypes
  <2> QED
    BY Zenon, <1>1, <1>4, <1>7, <2>1 DEF Types, DataTypes
<1>11. Known'
  <2>1. \A v \in Consumers : Range(batch'[v]) \subseteq Logged
    BY Zenon, <1>2, <1>4, <1>5 DEF Types, Known
  <2> QED
    BY Zenon, <1>1, <1>2, <1>8, <2>1 DEF Types, Known
<1>12. /\ \A h \in held : \A q \in Producers : Evicts(q, h)' <=> Evicts(q, h)
       /\ \A h \in held' : \A q \in Producers : Evicts(q, h)' => h \in held
  <2>1. \A h \in held' : \A q \in Producers : Evicts(q, h)' <=> Evicts(q, h)
    BY Zenon, <1>1, <1>7 DEF Evicts
  <2>2. ASSUME NEW h \in held', NEW q \in Producers, Evicts(q, h) PROVE h \in held
    <3>1. h = Popped => num[q] = head
      BY Zenon, <1>3, <2>2 DEF Evicts
    <3>2. num[q] # head
      BY Zenon, <1>3, <2>2 DEF Evicts
    <3> QED
      BY Zenon, <1>3, <3>1, <3>2
  <2>3. held \subseteq held'
    BY Zenon, <1>3
  <2> QED
    BY Zenon, <2>1, <2>2, <2>3
<1>13. Slots'
  <2>1. \A h \in held : \A v \in Consumers : Pops(v, h) => Pops(v, h)'
    BY Zenon, <1>1, <1>4, <1>7 DEF Pops
  <2>2. ASSUME NEW h \in held', h \notin held PROVE Pops(w, h)'
    <3>1. h = Popped
      BY Zenon, <1>3, <2>2
    <3>2. h.item = batch'[w][Len(batch'[w])]
      BY Zenon, <1>3, <1>5, <3>1
    <3> QED
      BY Zenon, <1>1, <1>6, <3>2 DEF Pops
  <2>3. \A h \in held' : (\E q \in Producers : Evicts(q, h)') \/ (\E v \in Consumers : Pops(v, h)')
    <3>1. \A h \in held : (\E q \in Producers : Evicts(q, h)') \/ (\E v \in Consumers : Pops(v, h)')
      BY Zenon, <1>12, <2>1 DEF Slots
    <3> QED
      BY Zenon, <2>2, <3>1
  <2>4. \A q \in Producers : /\ pc'[q] = "evicting" => num'[q] < head'
                             /\ pc'[q] = "publish" => /\ num'[q] \in DOMAIN cell'
                                                      /\ ~ cell'[num'[q]].ready
                                                      /\ cell'[num'[q]].item = Message(q)'
    BY Zenon, <1>1, <1>3, <1>7, <1>8
  <2>5. \A q, r \in Producers : pc'[q] = "evicting" /\ pc'[r] = "evicting" /\ num'[q] = num'[r]
                                => q = r
    BY Zenon, <1>1, <1>7 DEF Slots
  <2> QED
    BY Zenon, <1>3, <2>3, <2>4, <2>5 DEF Slots
<1>14. Apart'
  <2>1. Evicting' \subseteq Evicting
    BY Zenon, <1>12 DEF Evicting
  <2>2. \A a \in PlaceNames \ {"queue", BatchPlace(w)} : Place(a)' \subseteq Place(a)
    BY Zenon, <1>1, <1>8, <2>1, BatchPlaceIs, PlacesAre, PlacesAreNext, ProcsApart
       DEF PlaceNames, InFile
  <2>3. "queue" \in PlaceNames /\ "queue" # BatchPlace(w) /\ BatchPlace(w) \in PlaceNames
    BY Zenon, BatchPlaceIs DEF PlaceNames
  <2>4. {x} \subseteq Place("queue") /\ Place("queue")' \subseteq Place("queue") \ {x}
    BY Zenon, <1>2, PlacesAre, PlacesAreNext
  <2>5. Place(BatchPlace(w))' \subseteq Place(BatchPlace(w)) \cup {x}
    BY Zenon, <1>5, <1>9, BatchPlaceIs
  <2> QED
    BY Zenon, <2>2, <2>3, <2>4, <2>5, ApartFrom
<1>15. OnceEach'
  <2>1. x \notin Range(batch[w])
    <3>1. Place("queue") \cap Place(BatchPlace(w)) = {}
      BY Zenon, BatchPlaceIs DEF Apart, PlaceNames
    <3> QED
      BY Zenon, <1>2, <1>9, <3>1, BatchPlaceIs, PlacesAre
  <2>2. Once(batch'[w])
    <3>1. Once(batch[w])
      BY Zenon DEF OnceEach
    <3>2. Once(Append(batch[w], x))
      BY ZenonT(40), <1>2, <1>4, <2>1, <3>1, OnceAppend
    <3> QED
      BY Zenon, <1>4, <3>2
  <2> QED
    BY Zenon, <1>1, <1>3, <1>4, <2>2 DEF OnceEach
<1>16. Accounts'
  <2>1. Somewhere \subseteq Somewhere' /\ InFile' = InFile
    <3>1. Range(batch[Writer]) \subseteq Range(batch'[Writer])
          /\ Range(batch[Stopper]) \subseteq Range(batch'[Stopper])
      BY Zenon, <1>4, <1>5, ProcsApart
    <3> QED
      BY Zenon, <1>1, <1>2, <3>1 DEF Somewhere, InFile
  <2>2. m_file_stream = "good" /\ pc'[Writer] \in {"uncount", "signal"} =>
          Range(batch'[Writer]) \subseteq InFile'
    BY Zenon, <1>1, <1>4, <1>7, <2>1, ProcsApart DEF Accounts
  <2> QED
    BY Zenon, <1>1, <1>7, <2>1, <2>2, AccountsKept
<1> QED
  BY Zenon, <1>2, <1>10, <1>11, <1>13, <1>14, <1>15, <1>16 DEF Fate

\* try_pop_batch gives the slot back.
LEMMA PopFreesKeeps ==
  ASSUME Types, Slots, Apart, OnceEach, Accounts, NEW w \in Consumers, PopFrees(w),
         pc[w] = "popping" => Len(batch[w]) > 0
  PROVE  Fate'
<1>1. PICK h \in held : h.item = batch[w][Len(batch[w])] /\ Free(h)
  BY Zenon DEF PopFrees
<1>2. /\ pc[w] = "popping" /\ pc'[w] = "pop" /\ Alone(w)
      /\ UNCHANGED <<batch, sent, num, written, m_dropped_messages, accepted, refused, evicted, snapshot,
                     m_file_stream>>
  <2>1. pc[w] = "popping" /\ pc'[w] = "pop" /\ Alone(w)
    BY Zenon, PcMoves, ProcsApart DEF PopFrees, Goto, Types
  <2> QED
    BY Zenon, <2>1 DEF PopFrees, production, fates
<1>3. /\ QueueTypes' /\ UNCHANGED <<head, tail, cell>> /\ held' = held \ {h}
      /\ InQueue' = InQueue /\ HeldItems' \subseteq HeldItems
      /\ HeldItems \subseteq HeldItems' \cup {h.item}
  BY Zenon, <1>1, FreeDoes DEF Types
<1>4. /\ \A q \in Producers : pc'[q] = pc[q]
      /\ \A v \in Consumers : v # w => pc'[v] = pc[v]
  BY Zenon, <1>2, ConsumerAlone
<1>5. /\ Own' = Own /\ Logged' = Logged /\ \A q \in Producers : Message(q)' = Message(q)
      /\ \A v \in Consumers : v # w => InBatch(v)' = InBatch(v)
  BY Zenon, <1>2, ConsumerKeeps
<1>6. InBatch(w)' = InBatch(w)
  BY Zenon, <1>2 DEF InBatch
<1>7. DataTypes'
  BY Zenon, <1>2, <1>4 DEF Types, DataTypes
<1>8. Known'
  BY Zenon, <1>2, <1>3, <1>5 DEF Types, Known
<1>9. \A g \in held' : g \in held /\ g # h /\ g.item # h.item
  BY Zenon, <1>1, <1>3 DEF Slots
<1>10. \A g \in held' : \A q \in Producers : Evicts(q, g)' <=> Evicts(q, g)
  BY Zenon, <1>2, <1>4 DEF Evicts
<1>11. Slots'
  <2>1. \A g \in held' : \A v \in Consumers : Pops(v, g) => Pops(v, g)'
    BY Zenon, <1>1, <1>2, <1>4, <1>9 DEF Pops
  <2>2. \A g \in held' : (\E q \in Producers : Evicts(q, g)') \/ (\E v \in Consumers : Pops(v, g)')
    BY Zenon, <1>9, <1>10, <2>1 DEF Slots
  <2> QED
    BY ZenonT(40), <1>2, <1>3, <1>4, <1>5, <1>9, <2>2 DEF Slots
<1>12. Apart'
  <2>1. Evicting' \subseteq Evicting
    BY Zenon, <1>9, <1>10 DEF Evicting
  <2>2. \A v \in Consumers : InBatch(v)' = InBatch(v)
    BY Zenon, <1>5, <1>6
  <2>3. \A a \in PlaceNames : Place(a)' \subseteq Place(a)
    BY Zenon, <1>2, <1>3, <1>5, <2>1, <2>2, PlacesAre, PlacesAreNext, ProcsApart DEF PlaceNames, InFile
  <2> QED
    BY Zenon, <2>3 DEF Apart
<1>13. OnceEach'
  BY Zenon, <1>2, <1>3 DEF OnceEach
<1>14. Accounts'
  <2>1. h.item \in Range(batch[w])
    <3>1. batch[w] \in Seq(Messages) /\ Len(batch[w]) > 0
      BY Zenon, <1>2 DEF Types, DataTypes
    <3>2. Len(batch[w]) \in DOMAIN batch[w]
      BY <3>1
    <3> QED
      BY Zenon, <1>1, <3>2 DEF Range
  <2>2. h.item \in Range(batch[Writer]) \cup Range(batch[Stopper])
    BY Zenon, <2>1 DEF Consumers
  <2>3. Somewhere \subseteq Somewhere' /\ InFile' = InFile
    BY Zenon, <1>2, <1>3, <2>2 DEF Somewhere, InFile
  <2>4. m_file_stream = "good" /\ pc'[Writer] \in {"uncount", "signal"} =>
          Range(batch'[Writer]) \subseteq InFile'
    BY Zenon, <1>2, <1>4, <2>3, ProcsApart DEF Accounts
  <2> QED
    BY Zenon, <1>2, <1>4, <2>3, <2>4, AccountsKept
<1> QED
  BY Zenon, <1>3, <1>7, <1>8, <1>11, <1>12, <1>13, <1>14 DEF Fate

\* Slots do not depend on a batch whose owner is not popping.
LEMMA SlotsKeep ==
  ASSUME Slots, NEW w \in Consumers, Alone(w), pc[w] # "popping",
         UNCHANGED <<head, cell, held, num, sent>>, \A v \in Consumers : v # w => batch'[v] = batch[v]
  PROVE  Slots' /\ Evicting' = Evicting
<1>1. /\ \A q \in Producers : pc'[q] = pc[q]
      /\ \A v \in Consumers : v # w => pc'[v] = pc[v]
  BY Zenon, ConsumerAlone
<1>2. \A g \in held : \A q \in Producers : Evicts(q, g)' <=> Evicts(q, g)
  BY Zenon, <1>1 DEF Evicts
<1>3. \A g \in held : \A v \in Consumers : Pops(v, g) => Pops(v, g)'
  BY Zenon, <1>1 DEF Pops
<1>4. \A g \in held : (\E q \in Producers : Evicts(q, g)') \/ (\E v \in Consumers : Pops(v, g)')
  BY Zenon, <1>2, <1>3 DEF Slots
<1>5. Slots'
  BY ZenonT(40), <1>1, <1>4, LoggedStays DEF Slots
<1>6. Evicting' = Evicting
  BY Zenon, <1>2 DEF Evicting
<1> QED
  BY Zenon, <1>5, <1>6

\* Nothing.
LEMMA NoMessages ==
  ASSUME NEW S
  PROVE  <<>> \in Seq(S) /\ Range(<<>>) = {} /\ Once(<<>>) /\ Len(<<>>) = 0
<1>1. <<>> \in Seq(S) /\ DOMAIN <<>> = {} /\ Len(<<>>) = 0
  OBVIOUS
<1> QED
  BY Zenon, <1>1 DEF Range, Once

\* write_batch moves a batch to the file, if the file is good.
LEMMA WriteBatchKeeps ==
  ASSUME Types, Slots, Apart, OnceEach, Accounts, NEW w \in Consumers, WriteBatch(w)
  PROVE  Fate'
<1>1. /\ pc[w] = "write" /\ (w = Writer => pc'[w] = "uncount") /\ Alone(w)
      /\ UNCHANGED <<head, tail, cell, held, sent, num, m_dropped_messages, accepted, refused, evicted,
                     snapshot, m_file_stream>>
      /\ written' = IF m_file_stream = "good" THEN written \o batch[w] ELSE written
      /\ batch' = IF w = Writer THEN batch ELSE [batch EXCEPT ![w] = <<>>]
  <2>1. PICK to : pc' = [pc EXCEPT ![w] = to] /\ (w = Writer => to = "uncount")
    BY Zenon DEF WriteBatch, Goto
  <2>2. pc'[w] = to /\ Alone(w)
    BY Zenon, <2>1, PcMoves, ProcsApart DEF Types
  <2> QED
    BY Zenon, <2>1, <2>2 DEF WriteBatch, Goto, Write, production, fates, queueVars
<1>2. batch \in [Consumers -> Seq(Messages)] /\ batch[w] \in Seq(Messages) /\ written \in Seq(Messages)
  BY Zenon DEF Types, DataTypes
<1>3. /\ batch' \in [Consumers -> Seq(Messages)]
      /\ \A v \in Consumers : v # w => batch'[v] = batch[v]
      /\ w # Writer => batch'[w] = <<>>
      /\ w = Writer => batch'[w] = batch[w]
  BY Zenon, <1>1, <1>2, NoMessages
<1>4. InBatch(w) = Range(batch[w]) /\ InBatch(w)' = {}
  BY Zenon, <1>1, <1>3, NoMessages DEF InBatch
<1>5. Range(written) \cap Range(batch[w]) = {}
  <2>1. Place("file") \cap Place(BatchPlace(w)) = {}
    BY Zenon, BatchPlaceIs DEF Apart, PlaceNames
  <2> QED
    BY Zenon, <1>4, <2>1, BatchPlaceIs, PlacesAre DEF InFile
<1>6. /\ written' \in Seq(Messages) /\ Once(written')
      /\ Range(written') \subseteq Range(written) \cup Range(batch[w])
      /\ m_file_stream = "good" => Range(written') = Range(written) \cup Range(batch[w])
  <2>1. /\ written \o batch[w] \in Seq(Messages)
        /\ Range(written \o batch[w]) = Range(written) \cup Range(batch[w])
    BY ZenonT(40), <1>2, RangeConcat
  <2>2. Once(written \o batch[w])
    <3>1. Once(written) /\ Once(batch[w])
      BY Zenon DEF OnceEach
    <3> QED
      BY ZenonT(40), <1>2, <1>5, <3>1, OnceConcat
  <2>3. Once(written)
    BY Zenon DEF OnceEach
  <2> QED
    BY Zenon, <1>1, <1>2, <2>1, <2>2, <2>3
<1>7. /\ Own' = Own /\ Logged' = Logged /\ \A q \in Producers : Message(q)' = Message(q)
      /\ \A v \in Consumers : v # w => InBatch(v)' = InBatch(v)
  BY Zenon, <1>1, <1>3, ConsumerKeeps
<1>8. Slots' /\ Evicting' = Evicting
  BY Zenon, <1>1, <1>3, SlotsKeep
<1>9. QueueTypes' /\ InQueue' = InQueue /\ HeldItems' = HeldItems
  BY Zenon, <1>1 DEF Types, QueueTypes, InQueue, HeldItems
<1>10. DataTypes'
  <2>1. \A v \in Consumers : Len(batch'[v]) <= BatchSize
    <3>1. Len(<<>>) <= BatchSize
      BY LoggerAssumption
    <3> QED
      BY Zenon, <1>3, <3>1 DEF Types, DataTypes
  <2>2. \A q \in Producers : pc'[q] = pc[q]
    BY Zenon, <1>1, ConsumerAlone
  <2> QED
    BY Zenon, <1>1, <1>3, <1>6, <2>1, <2>2 DEF Types, DataTypes
<1>11. Known'
  <2>1. \A v \in Consumers : Range(batch'[v]) \subseteq Logged
    BY Zenon, <1>3, NoMessages DEF Types, Known
  <2>2. Range(written') \subseteq Logged
    BY Zenon, <1>6 DEF Types, Known
  <2> QED
    BY Zenon, <1>1, <1>7, <1>9, <2>1, <2>2 DEF Types, Known
<1>12. Apart'
  <2>1. \A a \in PlaceNames \ {BatchPlace(w), "file"} : Place(a)' \subseteq Place(a)
    BY Zenon, <1>1, <1>7, <1>8, <1>9, BatchPlaceIs, PlacesAre, PlacesAreNext, ProcsApart DEF PlaceNames
  <2>2. "file" \in PlaceNames /\ "file" # BatchPlace(w) /\ BatchPlace(w) \in PlaceNames
    BY Zenon, BatchPlaceIs DEF PlaceNames
  <2>3. /\ InBatch(w) \subseteq Place(BatchPlace(w))
        /\ Place(BatchPlace(w))' \subseteq Place(BatchPlace(w)) \ InBatch(w)
    BY Zenon, <1>4, BatchPlaceIs
  <2>4. Place("file")' \subseteq Place("file") \cup InBatch(w)
    BY Zenon, <1>4, <1>6, PlacesAre, PlacesAreNext DEF InFile
  <2> QED
    BY Zenon, <2>1, <2>2, <2>3, <2>4, ApartFrom
<1>13. OnceEach'
  <2>1. \A v \in Consumers : Once(batch'[v])
    BY Zenon, <1>3, NoMessages DEF OnceEach
  <2> QED
    BY Zenon, <1>1, <1>6, <2>1 DEF OnceEach
<1>14. Accounts'
  <2>1. \A q \in Producers : pc'[q] = pc[q]
    BY Zenon, <1>1, ConsumerAlone
  <2>2. CASE m_file_stream = "good"
    <3>1. /\ Range(batch[Writer]) \subseteq Range(batch'[Writer]) \cup InFile'
          /\ Range(batch[Stopper]) \subseteq Range(batch'[Stopper]) \cup InFile'
      BY Zenon, <1>3, <1>6, <2>2, ProcsApart DEF InFile
    <3>2. InFile \subseteq InFile'
      BY Zenon, <1>6, <2>2 DEF InFile
    <3>3. Somewhere \subseteq Somewhere'
      BY ZenonT(40), <1>1, <1>9, <3>1, <3>2 DEF Somewhere
    <3>4. pc'[Writer] \in {"uncount", "signal"} => Range(batch'[Writer]) \subseteq InFile'
      <4>1. CASE w = Writer
        BY Zenon, <1>3, <1>6, <2>2, <4>1 DEF InFile
      <4>2. CASE w # Writer
        <5>1. pc'[Writer] = pc[Writer] /\ batch'[Writer] = batch[Writer]
          BY Zenon, <1>1, <1>3, <4>2, ConsumerAlone, ProcsApart
        <5> QED
          BY Zenon, <2>2, <3>2, <5>1 DEF Accounts
      <4> QED
        BY Zenon, <4>1, <4>2
    <3> QED
      BY Zenon, <1>1, <2>1, <2>2, <3>3, <3>4, AccountsKept
  <2>3. CASE m_file_stream # "good"
    BY Zenon, <1>1, <2>1, <2>3, AccountsKept
  <2> QED
    BY Zenon, <2>2, <2>3
<1> QED
  BY Zenon, <1>8, <1>9, <1>10, <1>11, <1>12, <1>13, <1>14 DEF Fate

\* The writer is done with its batch.
LEMMA SignalFlushedKeeps ==
  ASSUME Types, Slots, Apart, OnceEach, Accounts, SignalFlushed
  PROVE  Fate'
<1>1. /\ pc[Writer] = "signal" /\ pc'[Writer] = "loop" /\ Alone(Writer)
      /\ UNCHANGED <<head, tail, cell, held, sent, num, written, m_dropped_messages, accepted, refused,
                     evicted, snapshot, m_file_stream>>
      /\ batch' = [batch EXCEPT ![Writer] = <<>>]
  <2>1. pc[Writer] = "signal" /\ pc'[Writer] = "loop" /\ Alone(Writer)
    BY Zenon, PcMoves, ProcsApart DEF SignalFlushed, Goto, Types
  <2> QED
    BY Zenon, <2>1 DEF SignalFlushed, production, fates, queueVars
<1>2. /\ batch' \in [Consumers -> Seq(Messages)] /\ batch'[Writer] = <<>>
      /\ \A v \in Consumers : v # Writer => batch'[v] = batch[v]
  BY Zenon, <1>1, NoMessages, ProcsApart DEF Types, DataTypes
<1>3. InBatch(Writer)' = {}
  BY Zenon, <1>1, <1>2, NoMessages DEF InBatch
<1>4. /\ Own' = Own /\ Logged' = Logged /\ \A q \in Producers : Message(q)' = Message(q)
      /\ \A v \in Consumers : v # Writer => InBatch(v)' = InBatch(v)
  BY Zenon, <1>1, <1>2, ConsumerKeeps, ProcsApart
<1>5. Slots' /\ Evicting' = Evicting
  BY Zenon, <1>1, <1>2, SlotsKeep, ProcsApart
<1>6. QueueTypes' /\ InQueue' = InQueue /\ HeldItems' = HeldItems /\ InFile' = InFile
  BY Zenon, <1>1 DEF Types, QueueTypes, InQueue, HeldItems, InFile
<1>7. DataTypes'
  <2>1. \A v \in Consumers : Len(batch'[v]) <= BatchSize
    <3>1. Len(<<>>) <= BatchSize
      BY LoggerAssumption
    <3> QED
      BY Zenon, <1>2, <3>1 DEF Types, DataTypes
  <2>2. \A q \in Producers : pc'[q] = pc[q]
    BY Zenon, <1>1, ConsumerAlone, ProcsApart
  <2> QED
    BY Zenon, <1>1, <1>2, <2>1, <2>2 DEF Types, DataTypes
<1>8. Known'
  <2>1. \A v \in Consumers : Range(batch'[v]) \subseteq Logged
    BY Zenon, <1>2, NoMessages DEF Types, Known
  <2> QED
    BY Zenon, <1>1, <1>4, <1>6, <2>1 DEF Types, Known
<1>9. Apart'
  <2>1. \A a \in PlaceNames : Place(a)' \subseteq Place(a)
    BY Zenon, <1>1, <1>3, <1>4, <1>5, <1>6, PlacesAre, PlacesAreNext, ProcsApart DEF PlaceNames
  <2> QED
    BY Zenon, <2>1 DEF Apart
<1>10. OnceEach'
  <2>1. \A v \in Consumers : Once(batch'[v])
    BY Zenon, <1>2, NoMessages DEF OnceEach
  <2> QED
    BY Zenon, <1>1, <2>1 DEF OnceEach
<1>11. Accounts'
  <2>1. \A q \in Producers : pc'[q] = pc[q]
    BY Zenon, <1>1, ConsumerAlone, ProcsApart
  <2>2. m_file_stream = "good" => Somewhere \subseteq Somewhere'
    <3>1. m_file_stream = "good" => Range(batch[Writer]) \subseteq InFile
      BY Zenon, <1>1 DEF Accounts
    <3>2. batch'[Stopper] = batch[Stopper]
      BY Zenon, <1>2, ProcsApart
    <3> QED
      BY Zenon, <1>1, <1>6, <3>1, <3>2 DEF Somewhere
  <2>3. pc'[Writer] \notin {"uncount", "signal"}
    BY Zenon, <1>1
  <2> QED
    BY Zenon, <1>1, <2>1, <2>2, <2>3, AccountsKept
<1> QED
  BY Zenon, <1>5, <1>6, <1>7, <1>8, <1>9, <1>10, <1>11 DEF Fate

\* Every step keeps messages apart.
LEMMA FateStep ==
  ASSUME Counting, Types, Control, Slots, Apart, OnceEach, Accounts, [Next]_vars
  PROVE  Fate'
<1>1. CASE Still
  BY Zenon, <1>1, StillKeeps
<1>2. ASSUME NEW p \in Producers,
             \/ Enqueue(p) \/ WriteSync(p) \/ PushClaims(p) \/ PushPublishes(p) \/ LookForWriter(p)
             \/ WakeWriter(p) \/ DropNew(p) \/ EvictTakes(p) \/ EvictFrees(p)
      PROVE  Fate'
  BY Zenon, <1>2, EnqueueKeeps, WriteSyncKeeps, PushClaimsKeeps, PushPublishesKeeps, PushEndsKeeps,
     DropNewKeeps, EvictTakesKeeps, EvictFreesKeeps
<1>3. ASSUME NEW w \in Consumers, PopTakes(w) \/ PopFrees(w) \/ WriteBatch(w)
      PROVE  Fate'
  BY Zenon, <1>3, PopTakesKeeps, PopFreesKeeps, WriteBatchKeeps DEF Control
<1>4. CASE SignalFlushed
  BY Zenon, <1>4, SignalFlushedKeeps
<1> QED
  BY Zenon, <1>1, <1>2, <1>3, <1>4, StepKinds DEF Moving


-----------------------------------------------------------------------------
(* Who runs, who holds m_flush_mutex, who sleeps. *)

\* A producer's step changes no flag; it writes itself only where it may.
LEMMA ProducerControl ==
  ASSUME Types, Control, NEW p \in Producers, Enqueue(p) \/ Produce(p) \/ BlockTimeout(p)
  PROVE  Control'
<1>1. ASSUME NEW to, pc' = [pc EXCEPT ![p] = to],
             to = "sync" => m_shutdown_requested \/ overflow_policy = "SyncFallback",
             UNCHANGED <<m_running, m_shutdown_requested, m_writer_waiting, m_writer_detached,
                         overflow_policy, parking, batch>>,
             asleep' = asleep \/ asleep' = {}
      PROVE  Control'
  <2>1. pc'[p] = to /\ Alone(p)
    BY Zenon, <1>1, PcMoves, ProcsApart DEF Types
  <2>2. /\ \A q \in Producers : q # p => pc'[q] = pc[q]
        /\ \A w \in Consumers : pc'[w] = pc[w]
        /\ pc'[Writer] = pc[Writer] /\ pc'[Stopper] = pc[Stopper]
    BY Zenon, <2>1, ProducerAlone, ProcsApart
  <2>3. \A q \in Producers : pc'[q] = "sync" => m_shutdown_requested \/ overflow_policy = "SyncFallback"
    BY Zenon, <1>1, <2>1, <2>2 DEF Control
  <2>4. Writer \in asleep' => Writer \in asleep
    BY Zenon, <1>1
  <2> QED
    BY Zenon, <1>1, <2>2, <2>3, <2>4 DEF Control
<1> USE DEF others, control, Goto
<1>2. CASE Enqueue(p)
  <2>1. CASE m_shutdown_requested
    BY Zenon, <1>1, <1>2, <2>1 DEF Enqueue
  <2>2. CASE ~ m_shutdown_requested
    BY Zenon, <1>1, <1>2, <2>2 DEF Enqueue
  <2> QED
    BY Zenon, <2>1, <2>2
<1>3. CASE Uncount(p)
  <2>1. PICK to : pc' = [pc EXCEPT ![p] = to] /\ (to = "sync" => overflow_policy = "SyncFallback")
    BY Zenon, <1>3, PolicySteps DEF Uncount, Types
  <2> QED
    BY Zenon, <1>1, <1>3, <2>1 DEF Uncount
<1>4. CASE Count(p)
  <2>1. PICK to \in {"push", "retry"} : pc' = [pc EXCEPT ![p] = to]
    BY Zenon, <1>4 DEF Count
  <2> QED
    BY Zenon, <1>1, <1>4, <2>1 DEF Count
<1>5. CASE PushRefused(p) \/ BlockTimeout(p) \/ EvictFinds(p)
  BY Zenon, <1>1, <1>5 DEF PushRefused, BlockTimeout, EvictFinds
<1>6. CASE LookForWriter(p)
  <2>1. PICK to \in {"wake", "idle"} : pc' = [pc EXCEPT ![p] = to]
    BY Zenon, <1>6 DEF LookForWriter
  <2> QED
    BY Zenon, <1>1, <1>6, <2>1 DEF LookForWriter
<1>7. CASE WriteSync(p) \/ PushClaims(p) \/ PushPublishes(p) \/ WakeWriter(p)
  BY Zenon, <1>1, <1>7 DEF WriteSync, PushClaims, PushPublishes, WakeWriter, NotifyAll
<1>8. CASE DropNew(p) \/ EvictTakes(p) \/ EvictFrees(p)
  BY Zenon, <1>1, <1>8 DEF DropNew, EvictTakes, EvictFrees
<1> QED
  BY Zenon, <1>2, <1>3, <1>4, <1>5, <1>6, <1>7, <1>8 DEF Produce

\* What Control says of the writer, and what it says of others.
WriterPart ==
  /\ parking <=> pc[Writer] \in {"pending?", "running?", "unpark"}
  /\ pc[Writer] \in {"pending?", "running?", "asleep", "unpark"} => m_writer_waiting
  /\ Writer \in asleep => pc[Writer] = "asleep" /\ pc[Stopper] \in {"idle", "stop", "wake"}
  /\ pc[Writer] \in {"empty", "emptied", "zero", "done"} => ~ m_running
  /\ pc[Writer] = "popping" => Len(batch[Writer]) > 0

\* A step of the writer needs to keep the first part only: it is not done.
LEMMA WriterFrame ==
  ASSUME Control, Alone(Writer), pc[Writer] # "done", batch'[Stopper] = batch[Stopper],
         UNCHANGED <<m_running, m_shutdown_requested, m_writer_detached, overflow_policy>>,
         WriterPart'
  PROVE  Control'
<1>1. /\ \A q \in Producers : pc'[q] = pc[q]
      /\ pc'[Stopper] = pc[Stopper]
  BY Zenon, ConsumerAlone, ProcsApart
<1>2. \A w \in Consumers : pc'[w] = "popping" => Len(batch'[w]) > 0
  BY Zenon, <1>1, ProcsApart DEF Control, WriterPart, Consumers
<1> QED
  BY Zenon, <1>1, <1>2 DEF Control, WriterPart

\* After try_pop_batch took a message the batch has one.
LEMMA PopTakesSome ==
  ASSUME Types, Slots, OnceEach, NEW w \in Consumers, PopTakes(w)
  PROVE  Len(batch'[w]) > 0 /\ \A v \in Consumers : v # w => batch'[v] = batch[v]
<1>1. cell[head].item \in Messages /\ batch' = [batch EXCEPT ![w] = Append(batch[w], cell[head].item)]
  BY Zenon, TakeDoes DEF PopTakes, Types
<1>2. batch \in [Consumers -> Seq(Messages)]
  BY Zenon DEF Types, DataTypes
<1> QED
  BY <1>1, <1>2

\* The writer keeps its part.
LEMMA WriterControl ==
  ASSUME Types, Control, Slots, OnceEach, Drive \/ WriterTimeout
  PROVE  Control'
<1>1. ASSUME NEW to, pc' = [pc EXCEPT ![Writer] = to]
      PROVE  pc'[Writer] = to /\ Alone(Writer) /\ pc'[Stopper] = pc[Stopper]
  <2>1. pc'[Writer] = to /\ Alone(Writer)
    BY Zenon, <1>1, PcMoves, ProcsApart DEF Types
  <2> QED
    BY Zenon, <2>1, ProcsApart DEF Alone
<1> USE DEF control, Goto, WriterPart
<1>2. CASE PopTakes(Writer)
  <2>1. Len(batch'[Writer]) > 0 /\ batch'[Stopper] = batch[Stopper]
    BY Zenon, <1>2, PopTakesSome, ProcsApart
  <2>2. pc[Writer] = "pop" /\ pc'[Writer] = "popping" /\ Alone(Writer) /\ pc'[Stopper] = pc[Stopper]
    BY Zenon, <1>1, <1>2 DEF PopTakes
  <2>3. UNCHANGED <<m_running, m_shutdown_requested, m_writer_waiting, m_writer_detached,
                    overflow_policy, asleep, parking>>
    BY Zenon, <1>2 DEF PopTakes
  <2>4. WriterPart'
    BY Zenon, <2>1, <2>2, <2>3 DEF Control
  <2> QED
    BY Zenon, <2>1, <2>2, <2>3, <2>4, WriterFrame DEF Control
<1>3. CASE PopFrees(Writer) \/ PopEnds(Writer) \/ WriteBatch(Writer)
  <2>1. /\ UNCHANGED <<m_running, m_shutdown_requested, m_writer_waiting, m_writer_detached,
                       overflow_policy, asleep, parking, batch>>
        /\ pc[Writer] \in {"popping", "pop", "write"}
    BY Zenon, <1>3 DEF PopFrees, PopEnds, WriteBatch
  <2>2. PICK to \in {"pop", "write", "park", "uncount"} : pc' = [pc EXCEPT ![Writer] = to]
    BY Zenon, <1>3 DEF PopFrees, PopEnds, WriteBatch
  <2>3. pc'[Writer] = to /\ Alone(Writer) /\ pc'[Stopper] = pc[Stopper]
    BY Zenon, <1>1, <2>2
  <2>4. WriterPart'
    BY <2>1, <2>2, <2>3 DEF Control
  <2> QED
    BY Zenon, <2>1, <2>3, <2>4, WriterFrame
<1>4. CASE ForceZero(Writer) \/ SignalFlushed
  <2>1. /\ UNCHANGED <<m_running, m_shutdown_requested, m_writer_waiting, m_writer_detached,
                       overflow_policy, parking>>
        /\ asleep' = {} /\ batch'[Stopper] = batch[Stopper]
    BY Zenon, <1>4, ProcsApart DEF ForceZero, SignalFlushed, NotifyAll, Types, DataTypes
  <2>2. /\ \/ pc[Writer] = "zero" /\ pc'[Writer] = "done"
           \/ pc[Writer] = "signal" /\ pc'[Writer] = "loop"
        /\ Alone(Writer) /\ pc'[Stopper] = pc[Stopper]
    BY Zenon, <1>1, <1>4 DEF ForceZero, SignalFlushed
  <2>3. WriterPart'
    BY <2>1, <2>2 DEF Control
  <2>4. pc[Writer] # "done"
    BY Zenon, <2>2
  <2> QED
    BY Zenon, <2>1, <2>2, <2>3, <2>4, WriterFrame
<1>5. CASE LoopLooks \/ EmptyLoads \/ EmptyCompares \/ UncountBatch \/ CheckPending
  <2>1. UNCHANGED <<m_running, m_shutdown_requested, m_writer_waiting, m_writer_detached,
                    overflow_policy, asleep, parking, batch>>
    BY Zenon, <1>5 DEF LoopLooks, EmptyLoads, EmptyCompares, UncountBatch, CheckPending, writerIdle, production
  <2>2. /\ \/ pc[Writer] = "loop" /\ pc'[Writer] \in {"pop", "empty"} /\ (pc'[Writer] = "empty" => ~ m_running)
           \/ pc[Writer] = "empty" /\ pc'[Writer] = "emptied"
           \/ pc[Writer] = "emptied" /\ pc'[Writer] \in {"zero", "pop"}
           \/ pc[Writer] = "uncount" /\ pc'[Writer] = "signal"
           \/ pc[Writer] = "pending?" /\ pc'[Writer] \in {"unpark", "running?"}
        /\ Alone(Writer) /\ pc'[Stopper] = pc[Stopper]
    <3>1. CASE LoopLooks
      BY Zenon, <1>1, <3>1 DEF LoopLooks
    <3>2. CASE EmptyLoads \/ UncountBatch
      BY Zenon, <1>1, <3>2 DEF EmptyLoads, UncountBatch
    <3>3. CASE EmptyCompares
      BY Zenon, <1>1, <3>3 DEF EmptyCompares
    <3>4. CASE CheckPending
      BY Zenon, <1>1, <3>4 DEF CheckPending
    <3> QED
      BY Zenon, <1>5, <3>1, <3>2, <3>3, <3>4
  <2>3. WriterPart' /\ pc[Writer] # "done"
    BY <2>1, <2>2 DEF Control
  <2> QED
    BY Zenon, <2>1, <2>2, <2>3, WriterFrame
<1>6. CASE Park \/ WriterWakes \/ Unpark \/ WriterTimeout
  <2>1. /\ UNCHANGED <<m_running, m_shutdown_requested, m_writer_detached, overflow_policy, batch>>
        /\ asleep' \subseteq asleep
    BY Zenon, <1>6 DEF Park, WriterWakes, Unpark, WriterTimeout, writerIdle, production
  <2>2. /\ \/ /\ pc[Writer] = "park" /\ pc'[Writer] = "pending?" /\ parking' = TRUE
              /\ m_writer_waiting' = TRUE /\ asleep' = asleep
           \/ /\ pc[Writer] = "asleep" /\ pc'[Writer] = "pending?" /\ parking' = TRUE
              /\ UNCHANGED m_writer_waiting /\ Writer \notin asleep'
           \/ /\ pc[Writer] = "unpark" /\ pc'[Writer] = "loop" /\ parking' = FALSE /\ asleep' = asleep
           \/ /\ pc[Writer] = "asleep" /\ pc'[Writer] = "unpark" /\ parking' = TRUE
              /\ UNCHANGED m_writer_waiting /\ Writer \notin asleep'
        /\ Alone(Writer) /\ pc'[Stopper] = pc[Stopper]
    <3>1. CASE Park
      BY Zenon, <1>1, <3>1 DEF Park
    <3>2. CASE WriterWakes
      BY Zenon, <1>1, <3>2 DEF WriterWakes
    <3>3. CASE Unpark
      BY Zenon, <1>1, <3>3 DEF Unpark
    <3>4. CASE WriterTimeout
      BY Zenon, <1>1, <3>4 DEF WriterTimeout
    <3> QED
      BY Zenon, <1>6, <3>1, <3>2, <3>3, <3>4
  <2>3. WriterPart' /\ pc[Writer] # "done"
    BY <2>1, <2>2 DEF Control
  <2> QED
    BY Zenon, <2>1, <2>2, <2>3, WriterFrame
<1>7. CASE CheckRunning
  <2>1. UNCHANGED <<m_running, m_shutdown_requested, m_writer_waiting, m_writer_detached,
                    overflow_policy, batch>>
    BY Zenon, <1>7 DEF CheckRunning, writerIdle, production
  <2>2. /\ pc[Writer] = "running?" /\ Alone(Writer) /\ pc'[Stopper] = pc[Stopper]
        /\ pc'[Writer] = IF m_running THEN "asleep" ELSE "unpark"
    BY Zenon, <1>1, <1>7 DEF CheckRunning
  <2>3. /\ asleep' = IF m_running THEN asleep \cup {Writer} ELSE asleep
        /\ parking' = ~ m_running
    BY Zenon, <1>7 DEF CheckRunning
  <2>4. WriterPart' /\ pc[Writer] # "done"
    <3>1. CASE m_running
      BY Zenon, <2>1, <2>2, <2>3, <3>1 DEF Control
    <3>2. CASE ~ m_running
      BY Zenon, <2>1, <2>2, <2>3, <3>2 DEF Control
    <3> QED
      BY Zenon, <3>1, <3>2
  <2> QED
    BY Zenon, <2>1, <2>2, <2>4, WriterFrame
<1> QED
  BY Zenon, <1>2, <1>3, <1>4, <1>5, <1>6, <1>7 DEF Drive, Consume

\* What a step of shutdown needs to keep: it leaves the writer alone, and what it does to the
\* flags follows its own place.
LEMMA StopperFrame ==
  ASSUME Control, Alone(Stopper), batch'[Writer] = batch[Writer],
         UNCHANGED <<m_writer_waiting, overflow_policy, parking>>,
         asleep' = {} \/ asleep' = asleep,
         m_running' <=> pc'[Stopper] \in {"idle", "stop"},
         m_running' => m_running,
         m_shutdown_requested' <=> pc'[Stopper] # "idle",
         m_shutdown_requested => m_shutdown_requested',
         pc'[Stopper] \in {"idle", "stop", "wake", "join"} => batch'[Stopper] = <<>>,
         pc'[Stopper] \in {"pop", "popping", "write", "zero", "done", "freed"} /\ ~ m_writer_detached'
           => pc[Writer] = "done",
         pc'[Stopper] = "freed" => ~ m_writer_detached',
         pc'[Stopper] = "popping" => Len(batch'[Stopper]) > 0,
         Writer \in asleep' => pc'[Stopper] \in {"idle", "stop", "wake"}
  PROVE  Control'
<1>1. /\ \A q \in Producers : pc'[q] = pc[q]
      /\ pc'[Writer] = pc[Writer]
  BY Zenon, ConsumerAlone, ProcsApart
<1>2. \A w \in Consumers : pc'[w] = "popping" => Len(batch'[w]) > 0
  BY Zenon, <1>1, ProcsApart DEF Control, Consumers
<1>3. Writer \in asleep' => Writer \in asleep
  BY Zenon
<1> QED
  BY Zenon, <1>1, <1>2, <1>3 DEF Control

\* shutdown keeps its part.
LEMMA StopperControl ==
  ASSUME Types, Control, Slots, OnceEach, RequestShutdown \/ Stop \/ Detach \/ Destroy
  PROVE  Control'
<1>1. ASSUME NEW to, pc' = [pc EXCEPT ![Stopper] = to]
      PROVE  pc'[Stopper] = to /\ Alone(Stopper)
  BY Zenon, <1>1, PcMoves, ProcsApart DEF Types
<1> USE DEF control, Goto
<1>2. CASE RequestShutdown \/ StopRunning
  <2>1. /\ UNCHANGED <<m_writer_waiting, m_writer_detached, overflow_policy, parking, asleep, batch>>
        /\ Alone(Stopper)
        /\ \/ /\ pc[Stopper] = "idle" /\ pc'[Stopper] = "stop" /\ m_shutdown_requested'
              /\ UNCHANGED m_running
           \/ /\ pc[Stopper] = "stop" /\ pc'[Stopper] = "wake" /\ ~ m_running'
              /\ UNCHANGED m_shutdown_requested
    BY Zenon, <1>1, <1>2 DEF RequestShutdown, StopRunning, stopIdle
  <2>2. /\ batch[Stopper] = <<>>
        /\ m_shutdown_requested' <=> pc'[Stopper] # "idle"
        /\ m_shutdown_requested => m_shutdown_requested'
        /\ m_running' <=> pc'[Stopper] \in {"idle", "stop"}
        /\ m_running' => m_running
    <3>1. CASE pc[Stopper] = "idle"
      <4>1. m_running' /\ m_running /\ m_shutdown_requested' /\ pc'[Stopper] = "stop"
        BY <2>1, <3>1 DEF Control, Types, FlagTypes
      <4> QED
        BY Zenon, <3>1, <4>1 DEF Control
    <3>2. CASE pc[Stopper] = "stop"
      <4>1. ~ m_running' /\ m_shutdown_requested' /\ pc'[Stopper] = "wake"
        BY <2>1, <3>2 DEF Control, Types, FlagTypes
      <4> QED
        BY Zenon, <3>2, <4>1 DEF Control
    <3> QED
      BY Zenon, <2>1, <3>1, <3>2
  <2>3. pc'[Stopper] \in {"stop", "wake"}
    BY Zenon, <2>1
  <2> QED
    BY Zenon, <2>1, <2>2, <2>3, StopperFrame
<1>3. CASE WakeForStop
  <2>1. /\ UNCHANGED <<m_running, m_shutdown_requested, m_writer_waiting, m_writer_detached,
                       overflow_policy, parking, batch>>
        /\ Alone(Stopper) /\ asleep' = {}
        /\ pc[Stopper] = "wake" /\ pc'[Stopper] = "join"
    BY Zenon, <1>1, <1>3 DEF WakeForStop, stopIdle, NotifyAll
  <2> QED
    BY Zenon, <2>1, StopperFrame DEF Control
<1>4. CASE Join \/ Detach
  <2>1. /\ UNCHANGED <<m_running, m_shutdown_requested, m_writer_waiting, overflow_policy, parking,
                       batch, asleep>>
        /\ Alone(Stopper)
        /\ pc[Stopper] = "join" /\ pc'[Stopper] = "pop"
        /\ (pc[Writer] = "done" /\ UNCHANGED m_writer_detached) \/ m_writer_detached'
    BY Zenon, <1>1, <1>4 DEF Join, Detach, stopIdle
  <2>2. Writer \notin asleep
    BY Zenon, <2>1 DEF Control
  <2> QED
    BY Zenon, <2>1, <2>2, StopperFrame DEF Control
<1>5. CASE Destroy
  <2>1. /\ UNCHANGED <<m_running, m_shutdown_requested, m_writer_waiting, m_writer_detached,
                       overflow_policy, parking, batch, asleep>>
        /\ Alone(Stopper)
        /\ pc[Stopper] = "done"
        /\ pc'[Stopper] = "leaked" \/ (pc'[Stopper] = "freed" /\ ~ m_writer_detached)
    <3>1. CASE m_writer_detached
      BY Zenon, <1>1, <1>5, <3>1 DEF Destroy, stopIdle
    <3>2. CASE ~ m_writer_detached
      BY Zenon, <1>1, <1>5, <3>2 DEF Destroy, stopIdle
    <3> QED
      BY Zenon, <3>1, <3>2
  <2>2. Writer \notin asleep
    BY Zenon, <2>1 DEF Control
  <2> QED
    BY Zenon, <2>1, <2>2, StopperFrame DEF Control
<1>6. CASE Consume(Stopper)
  <2>1. /\ UNCHANGED <<m_running, m_shutdown_requested, m_writer_waiting, m_writer_detached,
                       overflow_policy, parking>>
        /\ asleep' = asleep \/ asleep' = {}
    BY Zenon, <1>6 DEF Consume, PopTakes, PopFrees, PopEnds, WriteBatch, ForceZero, NotifyAll, production
  <2>2. /\ pc[Stopper] \in {"pop", "popping", "write", "zero"}
        /\ pc'[Stopper] \in {"pop", "popping", "write", "zero", "done"}
        /\ Alone(Stopper)
    <3>1. CASE PopTakes(Stopper) \/ PopFrees(Stopper) \/ ForceZero(Stopper)
      BY Zenon, <1>1, <3>1 DEF PopTakes, PopFrees, ForceZero
    <3>2. CASE WriteBatch(Stopper)
      BY Zenon, <1>1, <3>2, ProcsApart DEF WriteBatch
    <3>3. CASE PopEnds(Stopper)
      <4>1. PICK to \in {"write", "zero"} : pc' = [pc EXCEPT ![Stopper] = to]
        BY Zenon, <3>3, ProcsApart DEF PopEnds
      <4> QED
        BY Zenon, <1>1, <3>3, <4>1 DEF PopEnds
    <3> QED
      BY Zenon, <1>6, <3>1, <3>2, <3>3 DEF Consume
  <2>3. batch'[Writer] = batch[Writer] /\ (pc'[Stopper] = "popping" => Len(batch'[Stopper]) > 0)
    <3>1. CASE PopTakes(Stopper)
      BY Zenon, <3>1, PopTakesSome, ProcsApart DEF Consumers
    <3>2. CASE WriteBatch(Stopper)
      <4>1. batch' = [batch EXCEPT ![Stopper] = <<>>] /\ pc'[Stopper] = "pop"
        BY Zenon, <1>1, <3>2, ProcsApart DEF WriteBatch
      <4> QED
        BY Zenon, <4>1, ProcsApart DEF Types, DataTypes
    <3>3. CASE PopFrees(Stopper) \/ ForceZero(Stopper)
      <4>1. batch' = batch /\ pc'[Stopper] \in {"pop", "done"}
        BY Zenon, <1>1, <3>3 DEF PopFrees, ForceZero
      <4> QED
        BY Zenon, <4>1
    <3>4. CASE PopEnds(Stopper)
      <4>1. PICK to \in {"write", "zero"} : pc' = [pc EXCEPT ![Stopper] = to]
        BY Zenon, <3>4, ProcsApart DEF PopEnds
      <4> QED
        BY Zenon, <1>1, <3>4, <4>1 DEF PopEnds
    <3> QED
      BY Zenon, <1>6, <3>1, <3>2, <3>3, <3>4 DEF Consume
  <2>4. Writer \notin asleep /\ ~ m_running /\ m_shutdown_requested
    BY Zenon, <2>2 DEF Control
  <2>5. Writer \notin asleep'
    BY Zenon, <2>1, <2>4
  <2>6. ~ m_writer_detached => pc[Writer] = "done"
    BY Zenon, <2>2 DEF Control
  <2>7. pc'[Stopper] \notin {"idle", "stop", "wake", "join", "freed"} /\ pc[Stopper] \notin {"idle", "stop", "wake"}
    BY Zenon, <2>2
  <2> QED
    BY Zenon, <2>1, <2>2, <2>3, <2>4, <2>5, <2>6, <2>7, StopperFrame
<1> QED
  BY Zenon, <1>2, <1>3, <1>4, <1>5, <1>6 DEF Stop

\* A flush, a failing stream and a stutter change nothing here.
LEMMA FlusherControl ==
  ASSUME Types, Control,
         Flush \/ FlushLooks \/ FlushWakes \/ FlushTimeout \/ StreamFails \/ UNCHANGED vars
  PROVE  Control'
<1> USE DEF control, flushIdle, Goto
<1>1. UNCHANGED <<m_running, m_shutdown_requested, m_writer_waiting, m_writer_detached,
                  overflow_policy, parking, batch>>
  BY Zenon DEF Flush, FlushLooks, FlushWakes, FlushTimeout, StreamFails, vars
<1>2. Writer \in asleep' => Writer \in asleep
  BY Zenon, ProcsApart DEF Flush, FlushLooks, FlushWakes, FlushTimeout, StreamFails, vars
<1>3. /\ \A q \in Producers : pc'[q] = pc[q]
      /\ pc'[Writer] = pc[Writer] /\ pc'[Stopper] = pc[Stopper]
  <2>1. CASE pc' = pc
    BY Zenon, <2>1
  <2>2. ASSUME NEW to, pc' = [pc EXCEPT ![Flusher] = to]
        PROVE  /\ \A q \in Producers : pc'[q] = pc[q]
               /\ pc'[Writer] = pc[Writer] /\ pc'[Stopper] = pc[Stopper]
    <3>1. Alone(Flusher)
      BY Zenon, <2>2, PcMoves, ProcsApart DEF Types
    <3> QED
      BY Zenon, <3>1, ProcsApart DEF Alone
  <2>3. pc' = pc \/ \E to : pc' = [pc EXCEPT ![Flusher] = to]
    BY Zenon DEF Flush, FlushLooks, FlushWakes, FlushTimeout, StreamFails, vars
  <2> QED
    BY Zenon, <2>1, <2>2, <2>3
<1>4. \A w \in Consumers : pc'[w] = "popping" => Len(batch'[w]) > 0
  BY Zenon, <1>1, <1>3 DEF Control, Consumers
<1> QED
  BY Zenon, <1>1, <1>2, <1>3, <1>4 DEF Control

\* Every step keeps Control.
LEMMA ControlStep ==
  ASSUME Types, Control, Slots, OnceEach, [Next]_vars
  PROVE  Control'
<1>1. CASE \E p \in Producers : Enqueue(p) \/ Produce(p) \/ BlockTimeout(p)
  BY Zenon, <1>1, ProducerControl
<1>2. CASE Drive \/ WriterTimeout
  BY Zenon, <1>2, WriterControl
<1>3. CASE RequestShutdown \/ Stop \/ Detach \/ Destroy
  BY Zenon, <1>3, StopperControl
<1>4. CASE Flush \/ FlushLooks \/ FlushWakes \/ FlushTimeout \/ StreamFails \/ UNCHANGED vars
  BY Zenon, <1>4, FlusherControl
<1> QED
  BY Zenon, <1>1, <1>2, <1>3, <1>4 DEF Next

-----------------------------------------------------------------------------
(* What is pushed after the writer looked for the last time. *)

LastPCs == {"emptied", "zero", "done"}

\* The message in a cell is some producer's.
LEMMA ProducerOfCell ==
  ASSUME QueueTypes
  PROVE  \A i \in DOMAIN cell : cell[i].item[1] \in Producers
BY DEF QueueTypes, Messages

\* A step that adds no cell, takes no position and lets nobody begin to push keeps Late.
LEMMA LateKept ==
  ASSUME Types, Late,
         pc'[Writer] \in LastPCs =>
           /\ pc'[Writer] = pc[Writer] \/ (pc[Writer] = "zero" /\ pc'[Writer] = "done")
           /\ enq' = enq /\ tail' = tail /\ head' >= head /\ head' \in Nat
           /\ \A i \in DOMAIN cell' : i \in DOMAIN cell /\ cell'[i].item = cell[i].item
           /\ \A q \in Producers : pc'[q] \in PushPCs => pc[q] \in PushPCs
  PROVE  Late'
<1> SUFFICES ASSUME pc'[Writer] \in LastPCs
             PROVE  Late'
  BY Zenon DEF Late, LastPCs
<1>1. pc[Writer] \in {"emptied", "zero", "done"}
  BY Zenon DEF LastPCs
<1>2. \A i \in DOMAIN cell : cell[i].item[1] \in Producers
  BY Zenon, ProducerOfCell DEF Types
<1>3. enq <= tail /\ (pc[Writer] # "emptied" => enq <= head)
  BY Zenon, <1>1 DEF Late
<1>4. enq' <= tail' /\ (pc'[Writer] # "emptied" => enq' <= head')
  <2>1. enq \in Nat /\ head \in Nat
    BY Zenon DEF Types, FlagTypes, QueueTypes
  <2>2. pc'[Writer] # "emptied" => pc[Writer] # "emptied"
    BY Zenon, <1>1
  <2>3. enq <= head => enq <= head'
    BY <2>1
  <2> QED
    BY Zenon, <1>3, <2>2, <2>3
<1>5. \A i \in DOMAIN cell' : i >= enq' => pc'[cell'[i].item[1]] \notin PushPCs
  <2> TAKE i \in DOMAIN cell'
  <2> HAVE i >= enq'
  <2>1. i \in DOMAIN cell /\ cell'[i].item = cell[i].item /\ i >= enq
    BY Zenon
  <2>2. pc[cell[i].item[1]] \notin PushPCs
    BY Zenon, <1>1, <2>1 DEF Late
  <2> QED
    BY Zenon, <1>2, <2>1, <2>2
<1>6. \A i, j \in DOMAIN cell' :
        i >= enq' /\ j >= enq' /\ cell'[i].item[1] = cell'[j].item[1] => i = j
  <2> TAKE i, j \in DOMAIN cell'
  <2> HAVE i >= enq' /\ j >= enq' /\ cell'[i].item[1] = cell'[j].item[1]
  <2>1. i \in DOMAIN cell /\ cell'[i].item = cell[i].item /\ i >= enq
    BY Zenon
  <2>2. j \in DOMAIN cell /\ cell'[j].item = cell[j].item /\ j >= enq
    BY Zenon
  <2>3. cell[i].item[1] = cell[j].item[1]
    BY Zenon, <2>1, <2>2
  <2> QED
    BY Zenon, <1>1, <2>1, <2>2, <2>3 DEF Late
<1> QED
  BY Zenon, <1>4, <1>5, <1>6 DEF Late

\* A producer that is not yet past its push has nothing after the last look; a claim is its one cell.
LEMMA PushClaimsLate ==
  ASSUME Types, Late, NEW p \in Producers, PushClaims(p)
  PROVE  Late'
<1>1. pc[p] \in PushPCs /\ pc'[p] = "publish" /\ Alone(p) /\ enq' = enq
  BY Zenon, PcMoves, ProcsApart DEF PushClaims, PushPCs, Types, others
<1>2. pc'[Writer] = pc[Writer] /\ \A q \in Producers : q # p => pc'[q] = pc[q]
  BY Zenon, <1>1, ProcsApart, ProducerAlone
<1>3. Message(p) \in Messages /\ Message(p)[1] = p
  BY Zenon, MessageLogged DEF Types
<1>4. /\ head' = head /\ tail' = tail + 1 /\ DOMAIN cell' = DOMAIN cell \cup {tail}
      /\ tail \notin DOMAIN cell /\ cell'[tail].item = Message(p)
      /\ \A n \in DOMAIN cell : cell'[n] = cell[n]
  BY Zenon, <1>3, ClaimDoes DEF PushClaims, Types
<1> SUFFICES ASSUME pc[Writer] \in {"emptied", "zero", "done"}
             PROVE  Late'
  BY Zenon, <1>2 DEF Late
<1>5. enq' <= tail' /\ (pc'[Writer] # "emptied" => enq' <= head')
  <2>1. enq <= tail /\ (pc[Writer] # "emptied" => enq <= head)
    BY Zenon DEF Late
  <2>2. enq \in Nat /\ tail \in Nat
    BY Zenon DEF Types, FlagTypes, QueueTypes
  <2>3. enq <= tail + 1
    BY <2>1, <2>2
  <2> QED
    BY Zenon, <1>1, <1>2, <1>4, <2>1, <2>3
<1>6. \A i \in DOMAIN cell : i >= enq => cell[i].item[1] \in Producers \ {p} /\ pc[cell[i].item[1]] \notin PushPCs
  BY Zenon, <1>1, ProducerOfCell DEF Types, Late
<1>7. \A i \in DOMAIN cell' : i >= enq' =>
        \/ i \in DOMAIN cell /\ i >= enq /\ cell'[i] = cell[i]
        \/ i = tail /\ cell'[i].item[1] = p
  BY Zenon, <1>1, <1>3, <1>4
<1>8. "publish" \notin PushPCs
  BY Zenon DEF PushPCs
<1>9. \A i \in DOMAIN cell' : i >= enq' => pc'[cell'[i].item[1]] \notin PushPCs
  <2> TAKE i \in DOMAIN cell'
  <2> HAVE i >= enq'
  <2>1. CASE i \in DOMAIN cell /\ i >= enq /\ cell'[i] = cell[i]
    BY Zenon, <1>2, <1>6, <2>1
  <2>2. CASE i = tail /\ cell'[i].item[1] = p
    BY Zenon, <1>1, <1>8, <2>2
  <2> QED
    BY Zenon, <1>7, <2>1, <2>2
<1>10. \A i, j \in DOMAIN cell' :
         i >= enq' /\ j >= enq' /\ cell'[i].item[1] = cell'[j].item[1] => i = j
  <2> TAKE i, j \in DOMAIN cell'
  <2> HAVE i >= enq' /\ j >= enq' /\ cell'[i].item[1] = cell'[j].item[1]
  <2>1. \/ i \in DOMAIN cell /\ i >= enq /\ cell'[i] = cell[i] /\ cell[i].item[1] # p
        \/ i = tail /\ cell'[i].item[1] = p
    BY Zenon, <1>6, <1>7
  <2>2. \/ j \in DOMAIN cell /\ j >= enq /\ cell'[j] = cell[j] /\ cell[j].item[1] # p
        \/ j = tail /\ cell'[j].item[1] = p
    BY Zenon, <1>6, <1>7
  <2>3. CASE i = tail \/ j = tail
    BY Zenon, <1>4, <2>1, <2>2, <2>3
  <2>4. CASE i \in DOMAIN cell /\ j \in DOMAIN cell /\ i >= enq /\ j >= enq
               /\ cell'[i] = cell[i] /\ cell'[j] = cell[j]
    <3>1. cell[i].item[1] = cell[j].item[1]
      BY Zenon, <2>4
    <3> QED
      BY Zenon, <2>4, <3>1 DEF Late
  <2> QED
    BY Zenon, <2>1, <2>2, <2>3, <2>4
<1> QED
  BY Zenon, <1>5, <1>9, <1>10 DEF Late

\* A producer that begins now finds the shutdown flag; the others are on their way.
LEMMA ProducerLate ==
  ASSUME Types, Control, OnceEach, Late, NEW p \in Producers, Enqueue(p) \/ Produce(p) \/ BlockTimeout(p)
  PROVE  Late'
<1>1. ASSUME NEW to, pc' = [pc EXCEPT ![p] = to]
      PROVE  pc'[p] = to /\ pc'[Writer] = pc[Writer] /\ \A q \in Producers : q # p => pc'[q] = pc[q]
  <2>1. pc'[p] = to /\ Alone(p)
    BY Zenon, <1>1, PcMoves, ProcsApart DEF Types
  <2> QED
    BY Zenon, <2>1, ProcsApart, ProducerAlone
<1>2. head \in Nat /\ head >= head /\ head + 1 \in Nat /\ head + 1 >= head
  BY DEF Types, QueueTypes
<1> USE DEF others, Goto
<1>3. ASSUME NEW to, pc' = [pc EXCEPT ![p] = to], UNCHANGED <<enq, tail>>,
             head' = head \/ head' = head + 1,
             \A i \in DOMAIN cell' : i \in DOMAIN cell /\ cell'[i].item = cell[i].item,
             pc[Writer] \in LastPCs /\ to \in PushPCs => pc[p] \in PushPCs
      PROVE  Late'
  <2>1. pc'[p] = to /\ pc'[Writer] = pc[Writer] /\ \A q \in Producers : q # p => pc'[q] = pc[q]
    BY Zenon, <1>1, <1>3
  <2>2. \A q \in Producers : pc[Writer] \in LastPCs /\ pc'[q] \in PushPCs => pc[q] \in PushPCs
    BY Zenon, <1>3, <2>1
  <2>3. head' >= head /\ head' \in Nat
    BY Zenon, <1>2, <1>3
  <2> QED
    BY Zenon, <1>3, <2>1, <2>2, <2>3, LateKept
<1>4. CASE Enqueue(p)
  <2>1. pc[Writer] \in LastPCs => m_shutdown_requested
    BY Zenon DEF LastPCs, Control
  <2>2. UNCHANGED <<enq, tail, head, cell>>
    BY Zenon, <1>4 DEF Enqueue, queueVars
  <2>3. CASE m_shutdown_requested
    <3>1. pc' = [pc EXCEPT ![p] = "sync"] /\ "sync" \notin PushPCs
      BY Zenon, <1>4, <2>3 DEF Enqueue, PushPCs
    <3> QED
      BY Zenon, <1>3, <2>2, <3>1
  <2>4. CASE ~ m_shutdown_requested
    <3>1. pc' = [pc EXCEPT ![p] = "count"] /\ pc[Writer] \notin LastPCs
      BY Zenon, <1>4, <2>1, <2>4 DEF Enqueue
    <3> QED
      BY Zenon, <1>3, <2>2, <3>1
  <2> QED
    BY Zenon, <2>3, <2>4
<1>5. CASE PushClaims(p)
  BY Zenon, <1>5, PushClaimsLate
<1>6. CASE PushPublishes(p)
  <2>1. UNCHANGED <<head, tail, enq>> /\ \A i \in DOMAIN cell' : i \in DOMAIN cell /\ cell'[i].item = cell[i].item
    BY Zenon, <1>6, PublishDoes DEF PushPublishes, Types
  <2>2. pc' = [pc EXCEPT ![p] = "notify"] /\ "notify" \notin PushPCs
    BY Zenon, <1>6 DEF PushPublishes, PushPCs
  <2> QED
    BY Zenon, <1>3, <2>1, <2>2
<1>7. CASE EvictTakes(p)
  <2>1. UNCHANGED <<tail, enq>> /\ head' = head + 1
        /\ \A i \in DOMAIN cell' : i \in DOMAIN cell /\ cell'[i].item = cell[i].item
    BY Zenon, <1>7, TakeDoes DEF EvictTakes, Types
  <2>2. pc' = [pc EXCEPT ![p] = "evicting"] /\ pc[p] \in PushPCs
    BY Zenon, <1>7 DEF EvictTakes, PushPCs
  <2> QED
    BY Zenon, <1>3, <2>1, <2>2
<1>8. CASE EvictFrees(p)
  <2>1. UNCHANGED <<head, tail, cell, enq>>
    BY Zenon, <1>8 DEF EvictFrees, Free
  <2>2. pc' = [pc EXCEPT ![p] = "repush"] /\ pc[p] \in PushPCs
    BY Zenon, <1>8 DEF EvictFrees, PushPCs
  <2> QED
    BY Zenon, <1>3, <2>1, <2>2
<1>9. CASE Count(p) \/ Uncount(p)
  <2>1. UNCHANGED <<head, tail, cell, enq>>
    BY Zenon, <1>9 DEF Count, Uncount, queueVars
  <2>2. PICK to : pc' = [pc EXCEPT ![p] = to] /\ (to \in PushPCs => pc[p] \in PushPCs)
    <3>1. CASE Count(p)
      BY Zenon, <3>1 DEF Count, PushPCs
    <3>2. CASE Uncount(p)
      BY Zenon, <3>2 DEF Uncount, PushPCs
    <3> QED
      BY Zenon, <1>9, <3>1, <3>2
  <2> QED
    BY Zenon, <1>3, <2>1, <2>2
<1>10. CASE \/ PushRefused(p) \/ BlockTimeout(p) \/ EvictFinds(p) \/ WriteSync(p) \/ WakeWriter(p)
            \/ DropNew(p)
  <2>1. UNCHANGED <<head, tail, cell, enq>>
    BY Zenon, <1>10 DEF PushRefused, BlockTimeout, EvictFinds, WriteSync, WakeWriter, DropNew, queueVars
  <2>2. \E to : pc' = [pc EXCEPT ![p] = to] /\ (to \in PushPCs => pc[p] \in PushPCs)
    BY Zenon, <1>10
       DEF PushRefused, BlockTimeout, EvictFinds, WriteSync, WakeWriter, DropNew, PushPCs
  <2> QED
    BY Zenon, <1>3, <2>1, <2>2
<1>11. CASE LookForWriter(p)
  <2>1. UNCHANGED <<head, tail, cell, enq>>
    BY Zenon, <1>11 DEF LookForWriter, queueVars
  <2>2. PICK to \in {"wake", "idle"} : pc' = [pc EXCEPT ![p] = to]
    BY Zenon, <1>11 DEF LookForWriter
  <2>3. to \notin PushPCs
    BY Zenon, <2>2 DEF PushPCs
  <2> QED
    BY Zenon, <1>3, <2>1, <2>2, <2>3
<1> QED
  BY Zenon, <1>4, <1>5, <1>6, <1>7, <1>8, <1>9, <1>10, <1>11 DEF Produce

\* empty() loads m_enqueue_pos: no cell has that number yet.
LEMMA EmptyLoadsLate ==
  ASSUME Types, EmptyLoads
  PROVE  Late'
<1>1. UNCHANGED <<head, tail, cell>> /\ enq' = tail /\ pc'[Writer] = "emptied"
  BY Zenon, PcMoves, ProcsApart DEF EmptyLoads, Goto, Types, writerIdle, queueVars
<1>2. \A i \in DOMAIN cell : ~ (i >= tail)
  BY DEF Types, QueueTypes
<1>3. tail <= tail
  BY DEF Types, QueueTypes
<1> QED
  BY Zenon, <1>1, <1>2, <1>3 DEF Late

\* empty() compares: what it loaded is behind m_dequeue_pos, or the writer goes on.
LEMMA EmptyComparesLate ==
  ASSUME Types, Late, EmptyCompares
  PROVE  Late'
<1>1. /\ UNCHANGED <<head, tail, cell, enq>> /\ pc[Writer] = "emptied" /\ Alone(Writer)
      /\ pc'[Writer] = IF head >= enq THEN "zero" ELSE "pop"
  BY Zenon, PcMoves, ProcsApart DEF EmptyCompares, Goto, Types, writerIdle, queueVars
<1>2. \A q \in Producers : pc'[q] = pc[q]
  BY Zenon, <1>1, ConsumerAlone, ProcsApart
<1>3. CASE head >= enq
  <2>1. enq <= head
    BY <1>3 DEF Types, FlagTypes, QueueTypes
  <2>2. \A i \in DOMAIN cell : i >= enq => pc'[cell[i].item[1]] \notin PushPCs
    BY Zenon, <1>1, <1>2, ProducerOfCell DEF Late, Types
  <2> QED
    BY Zenon, <1>1, <2>1, <2>2 DEF Late
<1>4. CASE ~ (head >= enq)
  BY Zenon, <1>1, <1>4 DEF Late
<1> QED
  BY Zenon, <1>3, <1>4

\* The other steps of consumers, the flusher and shutdown add no cell and let nobody push.
LEMMA ConsumerLate ==
  ASSUME Types, OnceEach, Late, NEW w \in Consumers, Consume(w)
  PROVE  Late'
<1>1. ASSUME NEW to, pc' = [pc EXCEPT ![w] = to],
             to \in LastPCs => pc[w] = "zero" /\ to = "done"
      PROVE  /\ \A q \in Producers : pc'[q] = pc[q]
             /\ pc'[Writer] \in LastPCs =>
                  pc'[Writer] = pc[Writer] \/ (pc[Writer] = "zero" /\ pc'[Writer] = "done")
  <2>1. pc'[w] = to /\ Alone(w)
    BY Zenon, <1>1, PcMoves, ProcsApart DEF Types
  <2>2. \A q \in Producers : pc'[q] = pc[q]
    BY Zenon, <2>1, ConsumerAlone
  <2>3. CASE w = Writer
    BY Zenon, <1>1, <2>1, <2>2, <2>3
  <2>4. CASE w # Writer
    BY Zenon, <2>1, <2>2, <2>4, ProcsApart DEF Alone
  <2> QED
    BY Zenon, <2>3, <2>4
<1>2. head \in Nat /\ head >= head /\ head + 1 \in Nat /\ head + 1 >= head
  BY DEF Types, QueueTypes
<1>3. CASE PopTakes(w)
  <2>1. UNCHANGED <<tail, enq>> /\ head' = head + 1
        /\ \A i \in DOMAIN cell' : i \in DOMAIN cell /\ cell'[i].item = cell[i].item
    BY Zenon, <1>3, TakeDoes DEF PopTakes, Types
  <2>2. pc' = [pc EXCEPT ![w] = "popping"] /\ "popping" \notin LastPCs
    BY Zenon, <1>3 DEF PopTakes, Goto, LastPCs
  <2> QED
    BY Zenon, <1>1, <1>2, <2>1, <2>2, LateKept
<1>4. CASE PopFrees(w) \/ PopEnds(w) \/ WriteBatch(w) \/ ForceZero(w)
  <2>1. UNCHANGED <<head, tail, cell, enq>>
    BY Zenon, <1>4 DEF PopFrees, PopEnds, WriteBatch, ForceZero, Free, queueVars
  <2>2. /\ \A q \in Producers : pc'[q] = pc[q]
        /\ pc'[Writer] \in LastPCs =>
             pc'[Writer] = pc[Writer] \/ (pc[Writer] = "zero" /\ pc'[Writer] = "done")
    <3>1. CASE PopFrees(w) \/ ForceZero(w)
      BY Zenon, <1>1, <3>1 DEF PopFrees, ForceZero, Goto, LastPCs
    <3>2. CASE PopEnds(w)
      <4>1. Alone(w) /\ (w = Writer => pc'[w] \in {"write", "park"})
        <5>1. PICK to \in {"write", "park", "zero"} : pc' = [pc EXCEPT ![w] = to] /\ (w = Writer => to # "zero")
          BY Zenon, <3>2 DEF PopEnds, Goto
        <5>2. pc'[w] = to /\ Alone(w)
          BY Zenon, <5>1, PcMoves, ProcsApart DEF Types
        <5> QED
          BY Zenon, <5>1, <5>2
      <4>2. w = Writer => pc'[Writer] \notin LastPCs
        BY Zenon, <4>1 DEF LastPCs
      <4>3. w # Writer => pc'[Writer] = pc[Writer]
        BY Zenon, <4>1, ProcsApart DEF Alone
      <4> QED
        BY Zenon, <4>1, <4>2, <4>3, ConsumerAlone
    <3>3. CASE WriteBatch(w)
      <4>1. PICK to \in {"uncount", "pop"} : pc' = [pc EXCEPT ![w] = to]
        BY Zenon, <3>3 DEF WriteBatch, Goto
      <4>2. to \notin LastPCs
        BY Zenon, <4>1 DEF LastPCs
      <4> QED
        BY Zenon, <1>1, <4>1, <4>2
    <3> QED
      BY Zenon, <1>4, <3>1, <3>2, <3>3
  <2> QED
    BY Zenon, <1>2, <2>1, <2>2, LateKept
<1> QED
  BY Zenon, <1>3, <1>4 DEF Consume

\* Every step of the writer keeps Late.
LEMMA WriterLate ==
  ASSUME Types, OnceEach, Late, Drive \/ WriterTimeout
  PROVE  Late'
<1>1. CASE Consume(Writer)
  BY Zenon, <1>1, ConsumerLate, ProcsApart
<1>2. CASE EmptyLoads
  BY Zenon, <1>2, EmptyLoadsLate
<1>3. CASE EmptyCompares
  BY Zenon, <1>3, EmptyComparesLate
<1>4. CASE \/ LoopLooks \/ UncountBatch \/ SignalFlushed \/ Park \/ CheckPending \/ CheckRunning
           \/ WriterWakes \/ Unpark \/ WriterTimeout
  <2>1. \E to \in WriterPCs \ LastPCs : pc' = [pc EXCEPT ![Writer] = to]
    <3> USE DEF Goto, WriterPCs, LastPCs
    <3>1. CASE UncountBatch \/ SignalFlushed \/ Park \/ WriterWakes \/ Unpark \/ WriterTimeout
      BY Zenon, <3>1 DEF UncountBatch, SignalFlushed, Park, WriterWakes, Unpark, WriterTimeout
    <3>2. CASE LoopLooks
      BY Zenon, <3>2 DEF LoopLooks
    <3>3. CASE CheckPending
      BY Zenon, <3>3 DEF CheckPending
    <3>4. CASE CheckRunning
      BY Zenon, <3>4 DEF CheckRunning
    <3> QED
      BY Zenon, <1>4, <3>1, <3>2, <3>3, <3>4
  <2>2. pc'[Writer] \notin LastPCs
    BY Zenon, <2>1, PcMoves, ProcsApart DEF Types
  <2> QED
    BY Zenon, <2>2 DEF Late, LastPCs
<1> QED
  BY Zenon, <1>1, <1>2, <1>3, <1>4 DEF Drive

\* Every step keeps Late.
LEMMA LateStep ==
  ASSUME Types, Control, OnceEach, Late, [Next]_vars
  PROVE  Late'
<1>1. CASE \E p \in Producers : Enqueue(p) \/ Produce(p) \/ BlockTimeout(p)
  BY Zenon, <1>1, ProducerLate
<1>2. CASE Drive \/ WriterTimeout
  BY Zenon, <1>2, WriterLate
<1>3. CASE Consume(Stopper)
  BY Zenon, <1>3, ConsumerLate, ProcsApart
<1>4. CASE \/ RequestShutdown \/ StopRunning \/ WakeForStop \/ Join \/ Detach \/ Destroy
           \/ Flush \/ FlushLooks \/ FlushWakes \/ FlushTimeout \/ StreamFails \/ UNCHANGED vars
  <2>1. UNCHANGED <<head, tail, cell, enq>>
    BY Zenon, <1>4
       DEF RequestShutdown, StopRunning, WakeForStop, Join, Detach, Destroy, stopIdle, Flush, FlushLooks,
           FlushWakes, FlushTimeout, flushIdle, StreamFails, vars, queueVars
  <2>2. pc' = pc \/ \E x \in {Stopper, Flusher} : \E to : pc' = [pc EXCEPT ![x] = to]
    BY Zenon, <1>4
       DEF RequestShutdown, StopRunning, WakeForStop, Join, Detach, Destroy, Flush, FlushLooks,
           FlushWakes, FlushTimeout, StreamFails, vars, Goto
  <2>3. pc'[Writer] = pc[Writer] /\ \A q \in Producers : pc'[q] = pc[q]
    <3>1. CASE pc' = pc
      BY Zenon, <3>1
    <3>2. CASE \E x \in {Stopper, Flusher} : \E to : pc' = [pc EXCEPT ![x] = to]
      <4>1. PICK x \in {Stopper, Flusher} : \E to : pc' = [pc EXCEPT ![x] = to]
        BY Zenon, <3>2
      <4>2. Alone(x)
        BY Zenon, <4>1, PcMoves, ProcsApart DEF Types
      <4> QED
        BY Zenon, <4>2, ProcsApart DEF Alone
    <3> QED
      BY Zenon, <2>2, <3>1, <3>2
  <2>4. head' \in Nat /\ head' >= head
    BY <2>1 DEF Types, QueueTypes
  <2> QED
    BY Zenon, <2>1, <2>3, <2>4, LateKept
<1> QED
  BY Zenon, <1>1, <1>2, <1>3, <1>4 DEF Next, Stop

-----------------------------------------------------------------------------
(* The invariant, and what it says. *)

\* A logger just made.
LEMMA InvInit ==
  ASSUME Finite, IsFiniteSet({}), Cardinality({}) = 0, Init
  PROVE  AInv
<1> USE DEF Init, QueueInit
<1>1. PcTypes
  <2>1. /\ pc \in [Procs -> {"loop", "idle"}] /\ pc[Writer] = "loop"
        /\ \A x \in Procs : x # Writer => pc[x] = "idle"
    BY ProcsApart
  <2>2. "loop" \in WriterPCs /\ "idle" \in ProducerPCs /\ "idle" \in StopperPCs /\ "idle" \in FlusherPCs
    BY Zenon DEF WriterPCs, ProducerPCs, StopperPCs, FlusherPCs
  <2>3. {"loop", "idle"} \subseteq ProducerPCs \cup WriterPCs \cup StopperPCs \cup FlusherPCs
    BY Zenon, <2>2
  <2>4. pc \in [Procs -> ProducerPCs \cup WriterPCs \cup StopperPCs \cup FlusherPCs]
    BY <2>1, <2>3
  <2> QED
    BY Zenon, <2>1, <2>2, <2>4, ProcsApart DEF PcTypes
<1>2. /\ pc[Writer] = "loop" /\ pc[Stopper] = "idle" /\ \A p \in Producers : pc[p] = "idle"
      /\ \A w \in Consumers : pc[w] # "popping"
  BY ProcsApart DEF Consumers
<1>3. QueueTypes
  BY LoggerAssumption DEF QueueTypes
<1>4. FlagTypes
  <2>1. 0 \in 0 .. (2 ^ Width - 1)
    BY WidthAssumption, LoggerAssumption DEF Finite
  <2> QED
    BY Zenon, <2>1 DEF FlagTypes
<1>5. /\ batch \in [Consumers -> Seq(Messages)]
      /\ \A w \in Consumers : batch[w] = <<>> /\ Range(batch[w]) = {} /\ Once(batch[w])
  <2>1. batch = [w \in Consumers |-> <<>>]
    BY Zenon DEF Consumers
  <2> QED
    BY Zenon, <2>1, NoMessages
<1>6. DataTypes
  <2>1. sent \in [Producers -> Nat] /\ num \in [Producers -> Nat] /\ \A p \in Producers : sent[p] = 0
    OBVIOUS
  <2>2. \A p \in Producers : sent[p] <= Quota[p] /\ (pc[p] # "idle" => sent[p] >= 1)
    BY <1>2, <2>1, LoggerAssumption
  <2>3. \A w \in Consumers : Len(batch[w]) <= BatchSize
    BY <1>5, LoggerAssumption
  <2>4. m_dropped_messages \in Nat
    OBVIOUS
  <2> QED
    BY Zenon, <1>5, <2>1, <2>2, <2>3, <2>4, NoMessages DEF DataTypes
<1>7. InQueue = {} /\ HeldItems = {} /\ Range(written) = {} /\ Once(written)
  <2>1. DOMAIN cell = {}
    BY Zenon
  <2> QED
    BY Zenon, <2>1, NoMessages DEF InQueue, HeldItems
<1>8. Known
  BY Zenon, <1>5, <1>7 DEF Known
<1>9. Control
  BY Zenon, <1>2, <1>5, ProcsApart DEF Control
<1>10. Slots
  BY Zenon, <1>2 DEF Slots
<1>11. \A a \in PlaceNames : Place(a) = {}
  <2>1. Own = {}
    BY Zenon, <1>2 DEF Own, OwnPCs
  <2>2. Evicting = {}
    BY Zenon DEF Evicting
  <2>3. InBatch(Writer) = {} /\ InBatch(Stopper) = {}
    BY Zenon, <1>5, ProcsApart DEF InBatch
  <2> QED
    BY Zenon, <1>7, <2>1, <2>2, <2>3, PlacesAre DEF PlaceNames, InFile
<1>12. Apart
  BY Zenon, <1>11 DEF Apart
<1>13. OnceEach
  <2>1. DOMAIN cell = {}
    BY Zenon
  <2> QED
    BY Zenon, <1>5, <1>7, <2>1 DEF OnceEach
<1>14. Accounts
  <2>1. refused \cup evicted = {}
    BY Zenon
  <2> QED
    BY Zenon, <1>2, <2>1 DEF Accounts, PushedPCs
<1>15. Late
  BY Zenon, <1>2 DEF Late
<1> QED
  BY Zenon, <1>1, <1>3, <1>4, <1>6, <1>8, <1>9, <1>10, <1>12, <1>13, <1>14, <1>15 DEF AInv, Types

\* Every step keeps the invariant.
LEMMA InvStep ==
  ASSUME Finite, Counting, AInv, [Next]_vars
  PROVE  AInv'
<1>1. PcTypes' /\ FlagTypes'
  BY Zenon, PcTypesStep, FlagTypesStep DEF AInv
<1>2. Fate'
  BY Zenon, FateStep DEF AInv
<1>3. Control'
  BY Zenon, ControlStep DEF AInv
<1>4. Late'
  BY Zenon, LateStep DEF AInv
<1> QED
  BY Zenon, <1>1, <1>2, <1>3, <1>4 DEF AInv, Types, Fate

\* The places are apart, and what the counts say is there.
LEMMA InvMeansOneFate ==
  ASSUME AInv
  PROVE  EveryMessageHasOneFate
<1>1. \A i, j \in DOMAIN written : written[i] = written[j] => i = j
  BY Zenon DEF AInv, OnceEach, Once
<1>2. /\ refused \cap evicted = {} /\ refused \cap InFile = {} /\ refused \cap InQueue = {}
      /\ evicted \cap InQueue = {} /\ evicted \cap InFile = {}
  <2>1. \A a, b \in PlaceNames : a # b => Place(a) \cap Place(b) = {}
    BY Zenon DEF AInv, Apart
  <2>2. {"refused", "evicted", "file", "queue"} \subseteq PlaceNames
    BY Zenon DEF PlaceNames
  <2> QED
    BY Zenon, <2>1, <2>2, PlacesAre
<1>3. refused \cap accepted = {}
  BY Zenon DEF AInv, Accounts
<1>4. m_file_stream = "good" =>
        /\ accepted \subseteq Range(written) \cup evicted \cup InQueue \cup Batched(Writer)
                                \cup Batched(Stopper) \cup {h.item : h \in held}
        /\ m_dropped_messages = Cardinality(refused \cup evicted)
  BY Zenon DEF AInv, Accounts, Somewhere, HeldItems, Batched, InFile
<1> QED
  BY Zenon, <1>1, <1>2, <1>3, <1>4 DEF EveryMessageHasOneFate, InFile

\* Nothing is freed before the writer is done.
LEMMA InvMeansFreedAfter ==
  ASSUME AInv
  PROVE  FreedAfterWriter
BY Zenon DEF AInv, Control, FreedAfterWriter

\* What sets with one element at most weigh.
Small == \A S : (\A x, y \in S : x = y) => Cardinality(S) <= 1

\* When the writer is done all cells are late, and a producer has one late cell at most.
LEMMA InvMeansLittleLost ==
  ASSUME Small, AInv
  PROVE  AtMostOneLostPerProducer
<1> SUFFICES ASSUME pc[Writer] = "done", NEW p \in Producers
             PROVE  Cardinality({m \in InQueue : m[1] = p}) <= 1
  BY Zenon DEF AtMostOneLostPerProducer
<1>1. \A i \in DOMAIN cell : i >= enq
  <2>1. enq <= head /\ enq \in Nat
    BY Zenon DEF AInv, Late, Types, FlagTypes
  <2>2. DOMAIN cell = head .. (tail - 1) /\ head \in Nat /\ tail \in Nat
    BY Zenon DEF AInv, Types, QueueTypes
  <2> QED
    BY <2>1, <2>2
<1>2. \A i, j \in DOMAIN cell : cell[i].item[1] = cell[j].item[1] => i = j
  BY Zenon, <1>1 DEF AInv, Late
<1>3. ASSUME NEW m \in {k \in InQueue : k[1] = p}, NEW n \in {k \in InQueue : k[1] = p}
      PROVE  m = n
  <2>1. PICK i \in DOMAIN cell : m = cell[i].item
    BY Zenon, <1>3 DEF InQueue
  <2>2. PICK j \in DOMAIN cell : n = cell[j].item
    BY Zenon, <1>3 DEF InQueue
  <2>3. cell[i].item[1] = cell[j].item[1]
    BY Zenon, <1>3, <2>1, <2>2
  <2> QED
    BY Zenon, <1>2, <2>1, <2>2, <2>3
<1> QED
  BY Zenon, <1>3 DEF Small

\* Everything has its type.
LEMMA InvMeansTypes ==
  ASSUME AInv
  PROVE  TypeOK
<1>1. /\ overflow_policy \in Policies
      /\ {m_running, m_shutdown_requested, m_writer_waiting, m_writer_detached, parking} \subseteq BOOLEAN
      /\ m_pending_messages \in 0 .. (2 ^ Width - 1)
      /\ asleep \subseteq {Writer, Flusher}
  BY Zenon DEF AInv, Types, FlagTypes
<1>2. tail - head \in 0 .. Capacity /\ DOMAIN cell = head .. (tail - 1)
  BY LoggerAssumption DEF AInv, Types, QueueTypes
<1>3. /\ m_dropped_messages \in Nat /\ m_file_stream \in {"good", "bad"}
      /\ \A w \in {Writer, Stopper} : Len(batch[w]) <= BatchSize
  BY Zenon DEF AInv, Types, DataTypes, Consumers
<1>4. \A p \in Producers : sent[p] \in 0 .. Quota[p]
  BY LoggerAssumption DEF AInv, Types, DataTypes
<1>5. Logged \subseteq Items
  <2>1. ASSUME NEW m \in Logged PROVE m \in Items
    <3>1. m \in Messages /\ 1 <= m[2] /\ m[2] <= sent[m[1]]
      BY Zenon, <2>1 DEF Logged
    <3>2. PICK p \in Producers, k \in Nat : m = <<p, k>>
      BY <3>1 DEF Messages
    <3>3. k \in 1 .. Quota[p]
      BY <1>4, <3>1, <3>2, LoggerAssumption
    <3> QED
      BY Zenon, <3>2, <3>3, LoggerAssumption
  <2> QED
    BY Zenon, <2>1
<1>6. accepted \cup refused \cup evicted \subseteq Items
  BY Zenon, <1>5 DEF AInv, Types, Known
<1> QED
  BY Zenon, <1>1, <1>2, <1>3, <1>4, <1>6 DEF TypeOK

-----------------------------------------------------------------------------
(* The count of pending messages. *)

\* Where a producer is while it holds a count and no cell.
CountedPCs == {"push", "undo", "retry", "giveup", "evicting", "repush"}

\* The writer has counted its batch off once it signals.
Taken == IF pc[Writer] = "signal" THEN 0 ELSE Len(batch[Writer])

\* Nobody has forced the count to zero, or drains the queue without counting.
Live == pc[Writer] # "done" /\ pc[Stopper] \in {"idle", "stop", "wake", "join"}

\* What m_pending_messages stands for.
Pending == (tail - head) + Cardinality(Counted) + Taken

Exact == Live => m_pending_messages = Pending

\* There are no more counts than producers.
FewCounted ==
  \A S \in SUBSET Producers :
    IsFiniteSet(S) /\ Cardinality(S) \in Nat /\ Cardinality(S) <= Cardinality(Producers)

\* The parts of the count are numbers.
LEMMA PendingParts ==
  ASSUME Types, FewCounted
  PROVE  head \in Int /\ tail \in Int /\ Cardinality(Counted) \in Nat /\ Taken \in Nat
<1>1. Cardinality(Counted) \in Nat
  BY Zenon DEF FewCounted, Counted
<1>2. batch[Writer] \in Seq(Messages)
  BY Zenon, ProcsApart DEF Types, DataTypes
<1>3. Taken \in Nat
  BY <1>2 DEF Taken
<1> QED
  BY <1>1, <1>3 DEF Types, QueueTypes

\* The count fits into its word.
LEMMA PendingFits ==
  ASSUME Finite, FewCounted, Types'
  PROVE  Pending' \in 0 .. (2 ^ Width - 1)
<1>1. Cardinality(Counted') \in Nat /\ Cardinality(Counted') <= Cardinality(Producers)
  <2>1. Counted' \in SUBSET Producers
    BY Zenon DEF Counted
  <2> QED
    BY Zenon, <2>1 DEF FewCounted
<1>2. batch'[Writer] \in Seq(Messages) /\ Len(batch'[Writer]) <= BatchSize
  BY Zenon, ProcsApart DEF Types, DataTypes
<1>3. Taken' \in 0 .. BatchSize
  BY <1>2, LoggerAssumption DEF Taken
<1>4. tail' - head' \in 0 .. Capacity
  <2>1. head' \in Nat /\ tail' \in Nat /\ head' <= tail' /\ tail' <= head' + Capacity
    BY Zenon DEF Types, QueueTypes
  <2>2. Capacity \in Nat
    BY Zenon, LoggerAssumption
  <2>3. \A a, b, c \in Nat : b <= a /\ a <= b + c => a - b \in 0 .. c
    OBVIOUS
  <2> QED
    BY Zenon, <2>1, <2>2, <2>3
<1>5. Pending' = (tail' - head') + Cardinality(Counted') + Taken'
  BY Zenon DEF Pending
<1> QED
  <2>1. Capacity \in Nat /\ BatchSize \in Nat
    BY Zenon, LoggerAssumption
  <2> QED
    BY <1>1, <1>3, <1>4, <1>5, <2>1, WidthAssumption DEF Finite

\* fetch_add and fetch_sub follow what they count, and never wrap.
LEMMA ExactAdds ==
  ASSUME Finite, FewCounted, Types, Types', Exact, Live, NEW n \in Int,
         AddPending(n), Pending' = Pending + n
  PROVE  Exact'
<1> DEFINE M == 2 ^ Width
<1>1. M \in Nat /\ Pending' \in 0 .. (M - 1)
  BY Zenon, PendingFits, WidthAssumption
<1>2. m_pending_messages' = Pending' % M
  BY Zenon DEF Exact, AddPending
<1> HIDE DEF M
<1>3. \A x \in 0 .. (M - 1) : x % M = x
  BY <1>1
<1>4. m_pending_messages' = Pending'
  BY Zenon, <1>1, <1>2, <1>3
<1> QED
  BY Zenon, <1>4 DEF Exact

\* A step that leaves the count and what it stands for alone.
LEMMA ExactStays ==
  ASSUME Exact, Live' => Live /\ m_pending_messages' = m_pending_messages /\ Pending' = Pending
  PROVE  Exact'
BY Zenon DEF Exact

\* Nobody takes or gives back a count.
LEMMA CountedStays ==
  ASSUME \A p \in Producers : pc'[p] \in CountedPCs <=> pc[p] \in CountedPCs
  PROVE  Counted' = Counted
<1>1. \A p : p \in Counted' <=> p \in Counted
  BY Zenon DEF Counted, CountedPCs
<1> QED
  BY Zenon, <1>1

\* A producer takes a count.
LEMMA CountedGains ==
  ASSUME Counting, FewCounted, NEW p \in Producers, Alone(p),
         pc[p] \notin CountedPCs, pc'[p] \in CountedPCs
  PROVE  Cardinality(Counted') = Cardinality(Counted) + 1
<1>1. \A q \in Producers : q # p => pc'[q] = pc[q]
  BY Zenon, ProducerAlone
<1>2. \A q : q \in Counted' <=> q \in Counted \/ q = p
  BY Zenon, <1>1 DEF Counted, CountedPCs
<1>3. p \notin Counted /\ IsFiniteSet(Counted)
  BY Zenon DEF Counted, CountedPCs, FewCounted
<1>4. Counted' = Counted \cup {p}
  BY Zenon, <1>2
<1> QED
  BY Zenon, <1>3, <1>4, OneMore

\* A producer gives its count back, or passes it on.
LEMMA CountedLoses ==
  ASSUME Counting, FewCounted, NEW p \in Producers, Alone(p),
         pc[p] \in CountedPCs, pc'[p] \notin CountedPCs
  PROVE  Cardinality(Counted) = Cardinality(Counted') + 1
<1>1. \A q \in Producers : q # p => pc'[q] = pc[q]
  BY Zenon, ProducerAlone
<1>2. \A q : q \in Counted <=> q \in Counted' \/ q = p
  BY Zenon, <1>1 DEF Counted, CountedPCs
<1>3. p \notin Counted' /\ IsFiniteSet(Counted')
  <2>1. Counted' \in SUBSET Producers
    BY Zenon DEF Counted
  <2> QED
    BY Zenon, <2>1 DEF Counted, CountedPCs, FewCounted
<1>4. Counted = Counted' \cup {p}
  BY Zenon, <1>2
<1> QED
  BY Zenon, <1>3, <1>4, OneMore

\* What every step of a producer leaves alone.
LEMMA ProducerFrame ==
  ASSUME Types, NEW p \in Producers, Enqueue(p) \/ Produce(p) \/ BlockTimeout(p)
  PROVE  /\ Alone(p) /\ UNCHANGED <<batch, m_running, m_shutdown_requested, overflow_policy, parking>>
         /\ Taken' = Taken /\ (Live' <=> Live)
<1>1. /\ \E to : pc' = [pc EXCEPT ![p] = to]
      /\ UNCHANGED <<batch, m_running, m_shutdown_requested, overflow_policy, parking>>
  <2> USE DEF Goto, others, control
  <2>1. CASE Enqueue(p) \/ WriteSync(p) \/ Count(p) \/ PushClaims(p) \/ PushRefused(p)
    BY Zenon, <2>1 DEF Enqueue, WriteSync, Count, PushClaims, PushRefused
  <2>2. CASE Uncount(p) \/ PushPublishes(p) \/ LookForWriter(p) \/ BlockTimeout(p)
    BY Zenon, <2>2 DEF Uncount, PushPublishes, LookForWriter, BlockTimeout
  <2>3. CASE WakeWriter(p) \/ DropNew(p) \/ EvictTakes(p) \/ EvictFinds(p) \/ EvictFrees(p)
    BY Zenon, <2>3 DEF WakeWriter, DropNew, EvictTakes, EvictFinds, EvictFrees
  <2> QED
    BY Zenon, <2>1, <2>2, <2>3 DEF Produce
<1>2. Alone(p)
  BY Zenon, <1>1, PcMoves, ProcsApart DEF Types
<1>3. pc'[Writer] = pc[Writer] /\ pc'[Stopper] = pc[Stopper]
  BY Zenon, <1>2, ProducerAlone, ProcsApart
<1> QED
  BY Zenon, <1>1, <1>2, <1>3 DEF Taken, Live

\* Producers that take or give back no count, and move no end of the queue.
LEMMA ProducerExactStays ==
  ASSUME Types, Exact, NEW p \in Producers, Enqueue(p) \/ Produce(p) \/ BlockTimeout(p),
         UNCHANGED <<head, tail, m_pending_messages>>,
         pc'[p] \in CountedPCs <=> pc[p] \in CountedPCs
  PROVE  Exact'
<1>1. Alone(p) /\ Taken' = Taken /\ (Live' <=> Live)
  BY Zenon, ProducerFrame
<1>2. Counted' = Counted
  BY Zenon, <1>1, ProducerAlone, CountedStays
<1>3. Pending' = Pending
  BY Zenon, <1>1, <1>2 DEF Pending
<1> QED
  BY Zenon, <1>1, <1>3, ExactStays

\* A producer's step keeps the count exact.
LEMMA ProducerExact ==
  ASSUME Finite, Counting, FewCounted, Types, Types', OnceEach, Exact, NEW p \in Producers,
         Enqueue(p) \/ Produce(p) \/ BlockTimeout(p)
  PROVE  Exact'
<1>1. Alone(p) /\ Taken' = Taken /\ (Live' <=> Live)
  BY Zenon, ProducerFrame
<1>2. head \in Int /\ tail \in Int /\ Cardinality(Counted) \in Nat /\ Taken \in Nat
  BY Zenon, PendingParts
<1>3. /\ Pending = (tail - head) + Cardinality(Counted) + Taken
      /\ Pending' = (tail' - head') + Cardinality(Counted') + Taken
  BY Zenon, <1>1 DEF Pending
<1>4. \A to : pc' = [pc EXCEPT ![p] = to] => pc'[p] = to
  BY Zenon, PcMoves, ProcsApart DEF Types
<1> USE DEF Goto, CountedPCs
<1>5. CASE Enqueue(p) \/ WriteSync(p) \/ LookForWriter(p) \/ WakeWriter(p) \/ DropNew(p) \/ EvictFinds(p)
  <2>1. pc[p] \notin CountedPCs /\ UNCHANGED <<head, tail, m_pending_messages>>
    BY Zenon, <1>5 DEF Enqueue, WriteSync, LookForWriter, WakeWriter, DropNew, EvictFinds, queueVars, counts
  <2>2. PICK to \in {"sync", "count", "idle", "wake", "drop"} : pc' = [pc EXCEPT ![p] = to]
    BY Zenon, <1>5 DEF Enqueue, WriteSync, LookForWriter, WakeWriter, DropNew, EvictFinds
  <2>3. pc'[p] \notin CountedPCs
    BY Zenon, <1>4, <2>2
  <2> QED
    BY Zenon, <2>1, <2>3, ProducerExactStays
<1>6. CASE PushPublishes(p)
  <2>1. pc[p] = "publish" /\ pc'[p] = "notify" /\ UNCHANGED <<head, tail, m_pending_messages>>
    BY Zenon, <1>4, <1>6 DEF PushPublishes, Publish, counts
  <2> QED
    BY Zenon, <2>1, ProducerExactStays
<1>7. CASE PushRefused(p) \/ BlockTimeout(p)
  <2>1. pc[p] \in {"push", "repush", "retry"} /\ UNCHANGED <<head, tail, m_pending_messages>>
    BY Zenon, <1>7 DEF PushRefused, BlockTimeout, queueVars, counts
  <2>2. PICK to \in {"undo", "giveup"} : pc' = [pc EXCEPT ![p] = to]
    BY Zenon, <1>7 DEF PushRefused, BlockTimeout
  <2>3. pc'[p] \in CountedPCs /\ pc[p] \in CountedPCs
    BY Zenon, <1>4, <2>1, <2>2
  <2> QED
    BY Zenon, <2>1, <2>3, ProducerExactStays
<1>8. CASE EvictFrees(p)
  <2>1. pc[p] = "evicting" /\ pc'[p] = "repush" /\ UNCHANGED <<head, tail, m_pending_messages>>
    BY Zenon, <1>4, <1>8 DEF EvictFrees, Free
  <2>2. pc'[p] \in CountedPCs /\ pc[p] \in CountedPCs
    BY Zenon, <2>1
  <2> QED
    BY Zenon, <2>1, <2>2, ProducerExactStays
<1>9. CASE Count(p)
  <2>1. pc[p] \in {"count", "recount"} /\ AddPending(1) /\ UNCHANGED <<head, tail>>
    BY Zenon, <1>9 DEF Count, queueVars
  <2>2. PICK to \in {"push", "retry"} : pc' = [pc EXCEPT ![p] = to]
    BY Zenon, <1>9 DEF Count
  <2>3. pc[p] \notin CountedPCs /\ pc'[p] \in CountedPCs
    BY Zenon, <1>4, <2>1, <2>2
  <2>4. Cardinality(Counted') = Cardinality(Counted) + 1
    BY Zenon, <1>1, <2>3, CountedGains
  <2>5. Pending' = Pending + 1 /\ 1 \in Int
    BY <1>2, <1>3, <2>1, <2>4
  <2> QED
    BY Zenon, <1>1, <2>1, <2>5, ExactAdds DEF Exact
<1>10. CASE Uncount(p)
  <2>1. pc[p] \in {"undo", "giveup"} /\ AddPending(-1) /\ UNCHANGED <<head, tail>>
    BY Zenon, <1>10 DEF Uncount, queueVars
  <2>2. PICK to : pc' = [pc EXCEPT ![p] = to] /\ to \in {"drop", "evict", "recount", "sync"}
    BY Zenon, <1>10, PolicySteps DEF Uncount, Types
  <2>3. pc[p] \in CountedPCs /\ pc'[p] \notin CountedPCs
    BY Zenon, <1>4, <2>1, <2>2
  <2>4. Cardinality(Counted) = Cardinality(Counted') + 1 /\ Cardinality(Counted') \in Nat
    <3>1. Counted' \in SUBSET Producers
      BY Zenon DEF Counted
    <3> QED
      BY Zenon, <1>1, <2>3, <3>1, CountedLoses DEF FewCounted
  <2>5. Pending' = Pending + (-1) /\ -1 \in Int
    BY <1>2, <1>3, <2>1, <2>4
  <2> QED
    BY Zenon, <1>1, <2>1, <2>5, ExactAdds DEF Exact
<1>11. CASE PushClaims(p)
  <2>1. /\ pc[p] \in {"push", "retry", "repush"} /\ pc'[p] = "publish"
        /\ m_pending_messages' = m_pending_messages /\ head' = head /\ tail' = tail + 1
    BY Zenon, <1>4, <1>11 DEF PushClaims, Claim, counts
  <2>2. pc[p] \in CountedPCs /\ pc'[p] \notin CountedPCs
    BY Zenon, <2>1
  <2>3. Cardinality(Counted) = Cardinality(Counted') + 1 /\ Cardinality(Counted') \in Nat
    <3>1. Counted' \in SUBSET Producers
      BY Zenon DEF Counted
    <3> QED
      BY Zenon, <1>1, <2>2, <3>1, CountedLoses DEF FewCounted
  <2>4. Pending' = Pending
    BY <1>2, <1>3, <2>1, <2>3
  <2> QED
    BY Zenon, <1>1, <2>1, <2>4, ExactStays
<1>12. CASE EvictTakes(p)
  <2>1. /\ pc[p] = "evict" /\ pc'[p] = "evicting"
        /\ m_pending_messages' = m_pending_messages /\ head' = head + 1 /\ tail' = tail
    BY Zenon, <1>4, <1>12 DEF EvictTakes, Take, counts
  <2>2. pc[p] \notin CountedPCs /\ pc'[p] \in CountedPCs
    BY Zenon, <2>1
  <2>3. Cardinality(Counted') = Cardinality(Counted) + 1
    BY Zenon, <1>1, <2>2, CountedGains
  <2>4. Pending' = Pending
    BY <1>2, <1>3, <2>1, <2>3
  <2> QED
    BY Zenon, <1>1, <2>1, <2>4, ExactStays
<1> QED
  BY Zenon, <1>5, <1>6, <1>7, <1>8, <1>9, <1>10, <1>11, <1>12 DEF Produce

\* A step of the writer that leaves the count and what it stands for alone.
LEMMA WriterExactStays ==
  ASSUME Exact, Alone(Writer), pc[Writer] # "done",
         UNCHANGED <<head, tail, m_pending_messages>>, Taken' = Taken
  PROVE  Exact'
<1>1. pc'[Stopper] = pc[Stopper] /\ \A p \in Producers : pc'[p] = pc[p]
  BY Zenon, ProcsApart DEF Alone
<1>2. Counted' = Counted
  BY Zenon, <1>1, CountedStays
<1>3. Pending' = Pending
  BY Zenon, <1>2 DEF Pending
<1>4. Live' => Live
  BY Zenon, <1>1 DEF Live
<1> QED
  BY Zenon, <1>3, <1>4, ExactStays

\* The writer's step keeps the count exact.
LEMMA WriterExact ==
  ASSUME Finite, FewCounted, Types, Types', Exact, Drive \/ WriterTimeout
  PROVE  Exact'
<1>1. \A to : pc' = [pc EXCEPT ![Writer] = to] => pc'[Writer] = to /\ Alone(Writer)
  BY Zenon, PcMoves, ProcsApart DEF Types
<1>2. head \in Int /\ tail \in Int /\ Cardinality(Counted) \in Nat /\ Taken \in Nat
  BY Zenon, PendingParts
<1>3. batch[Writer] \in Seq(Messages)
  BY Zenon, ProcsApart DEF Types, DataTypes
<1> USE DEF Goto
<1>4. CASE PopTakes(Writer)
  <2>1. /\ pc[Writer] = "pop" /\ pc'[Writer] = "popping" /\ Alone(Writer)
        /\ m_pending_messages' = m_pending_messages /\ Take
        /\ batch' = [batch EXCEPT ![Writer] = Append(batch[Writer], cell[head].item)]
    BY Zenon, <1>1, <1>4 DEF PopTakes
  <2>2. head' = head + 1 /\ tail' = tail
    BY Zenon, <2>1 DEF Take
  <2>3. batch'[Writer] = Append(batch[Writer], cell[head].item)
    BY Zenon, <2>1, ProcsApart DEF Types, DataTypes
  <2>4. Len(batch'[Writer]) = Len(batch[Writer]) + 1
    BY <1>3, <2>3
  <2>5. Taken' = Taken + 1
    BY Zenon, <2>1, <2>4 DEF Taken
  <2>6. pc'[Stopper] = pc[Stopper] /\ Counted' = Counted
    BY Zenon, <2>1, CountedStays, ProcsApart DEF Alone
  <2>7. Pending' = Pending
    BY <1>2, <2>2, <2>5, <2>6 DEF Pending
  <2> QED
    BY Zenon, <2>1, <2>6, <2>7, ExactStays DEF Live
<1>5. CASE ForceZero(Writer)
  <2>1. pc'[Writer] = "done"
    BY Zenon, <1>1, <1>5 DEF ForceZero
  <2> QED
    BY Zenon, <2>1 DEF Exact, Live
<1>6. CASE UncountBatch
  <2>1. /\ pc[Writer] = "uncount" /\ pc'[Writer] = "signal" /\ Alone(Writer)
        /\ UNCHANGED <<head, tail, batch>> /\ AddPending(- Len(batch[Writer]))
    BY Zenon, <1>1, <1>6 DEF UncountBatch, queueVars
  <2>2. Taken' = 0 /\ Taken = Len(batch[Writer])
    BY Zenon, <2>1 DEF Taken
  <2>3. pc'[Stopper] = pc[Stopper] /\ Counted' = Counted
    BY Zenon, <2>1, CountedStays, ProcsApart DEF Alone
  <2>4. Pending' = Pending + (- Len(batch[Writer])) /\ - Len(batch[Writer]) \in Int
    BY <1>2, <2>1, <2>2, <2>3 DEF Pending
  <2>5. Live' => Live
    BY Zenon, <2>1, <2>3 DEF Live
  <2> QED
    BY Zenon, <2>1, <2>4, <2>5, ExactAdds DEF Exact
<1>7. CASE SignalFlushed
  <2>1. /\ pc[Writer] = "signal" /\ pc'[Writer] = "loop" /\ Alone(Writer)
        /\ UNCHANGED <<head, tail, m_pending_messages>> /\ batch' = [batch EXCEPT ![Writer] = <<>>]
    BY Zenon, <1>1, <1>7 DEF SignalFlushed, queueVars
  <2>2. batch'[Writer] = <<>>
    BY Zenon, <2>1, ProcsApart DEF Types, DataTypes
  <2>3. Len(batch'[Writer]) = 0
    BY <2>2
  <2>4. Taken = 0 /\ Taken' = 0
    BY Zenon, <2>1, <2>3 DEF Taken
  <2>5. Taken' = Taken
    BY Zenon, <2>4
  <2> QED
    BY Zenon, <2>1, <2>5, WriterExactStays
<1>8. CASE \/ PopFrees(Writer) \/ PopEnds(Writer) \/ WriteBatch(Writer) \/ LoopLooks \/ EmptyLoads
           \/ EmptyCompares \/ Park \/ CheckPending \/ CheckRunning \/ WriterWakes \/ WriterTimeout
           \/ Unpark
  <2> USE DEF queueVars, writerIdle
  <2>1. CASE PopFrees(Writer)
    <3>1. /\ pc[Writer] = "popping" /\ pc'[Writer] = "pop" /\ Alone(Writer)
          /\ UNCHANGED <<head, tail, m_pending_messages, batch>>
      BY Zenon, <1>1, <2>1 DEF PopFrees, Free
    <3>2. Taken' = Taken
      BY Zenon, <3>1 DEF Taken
    <3> QED
      BY Zenon, <3>1, <3>2, WriterExactStays
  <2>2. ASSUME NEW to \in {"write", "park", "uncount", "pop", "empty", "emptied", "zero", "pending?",
                           "unpark", "running?", "asleep", "loop"},
               pc' = [pc EXCEPT ![Writer] = to], pc[Writer] \notin {"done", "signal"},
               UNCHANGED <<head, tail, m_pending_messages, batch>>
        PROVE  Exact'
    <3>1. pc'[Writer] = to /\ Alone(Writer) /\ to # "signal"
      BY Zenon, <1>1, <2>2
    <3>2. Taken' = Taken
      BY Zenon, <2>2, <3>1 DEF Taken
    <3> QED
      BY Zenon, <2>2, <3>1, <3>2, WriterExactStays
  <2>3. CASE PopEnds(Writer)
    <3>1. PICK to \in {"write", "park"} : pc' = [pc EXCEPT ![Writer] = to]
      BY Zenon, <2>3 DEF PopEnds
    <3> QED
      BY Zenon, <2>2, <2>3, <3>1 DEF PopEnds
  <2>4. CASE WriteBatch(Writer)
    BY Zenon, <2>2, <2>4 DEF WriteBatch
  <2>5. CASE EmptyLoads \/ Park \/ WriterWakes \/ WriterTimeout \/ Unpark
    BY Zenon, <2>2, <2>5 DEF EmptyLoads, Park, WriterWakes, WriterTimeout, Unpark
  <2>6. CASE LoopLooks \/ EmptyCompares
    <3>1. PICK to \in {"pop", "empty", "zero"} : pc' = [pc EXCEPT ![Writer] = to]
      BY Zenon, <2>6 DEF LoopLooks, EmptyCompares
    <3> QED
      BY Zenon, <2>2, <2>6, <3>1 DEF LoopLooks, EmptyCompares
  <2>7. CASE CheckPending \/ CheckRunning
    <3>1. PICK to \in {"unpark", "running?", "asleep"} : pc' = [pc EXCEPT ![Writer] = to]
      BY Zenon, <2>7 DEF CheckPending, CheckRunning
    <3> QED
      BY Zenon, <2>2, <2>7, <3>1 DEF CheckPending, CheckRunning
  <2> QED
    BY Zenon, <1>8, <2>1, <2>3, <2>4, <2>5, <2>6, <2>7
<1> QED
  BY Zenon, <1>4, <1>5, <1>6, <1>7, <1>8 DEF Drive, Consume

\* The steps of shutdown and of flush_with_timeout, and the failing file, leave these alone.
LEMMA OtherFrame ==
  ASSUME Types, \/ RequestShutdown \/ StopRunning \/ WakeForStop \/ Join \/ Detach \/ Destroy
                \/ Flush \/ FlushLooks \/ FlushWakes \/ FlushTimeout \/ StreamFails \/ UNCHANGED vars
  PROVE  /\ UNCHANGED <<head, tail, cell, batch, written, m_pending_messages, overflow_policy>>
         /\ pc'[Writer] = pc[Writer] /\ \A p \in Producers : pc'[p] = pc[p]
<1>1. UNCHANGED <<head, tail, cell, batch, written, m_pending_messages, overflow_policy>>
  BY Zenon
     DEF RequestShutdown, StopRunning, WakeForStop, Join, Detach, Destroy, stopIdle, Flush, FlushLooks,
         FlushWakes, FlushTimeout, flushIdle, StreamFails, vars, queueVars, counts, control, production
<1>2. pc' = pc \/ \E x \in {Stopper, Flusher} : \E to : pc' = [pc EXCEPT ![x] = to]
  BY Zenon
     DEF RequestShutdown, StopRunning, WakeForStop, Join, Detach, Destroy, Flush, FlushLooks,
         FlushWakes, FlushTimeout, StreamFails, vars, Goto
<1>3. CASE pc' = pc
  BY Zenon, <1>1, <1>3
<1>4. CASE \E x \in {Stopper, Flusher} : \E to : pc' = [pc EXCEPT ![x] = to]
  <2>1. PICK x \in {Stopper, Flusher} : \E to : pc' = [pc EXCEPT ![x] = to]
    BY Zenon, <1>4
  <2>2. Alone(x)
    BY Zenon, <2>1, PcMoves, ProcsApart DEF Types
  <2> QED
    BY Zenon, <1>1, <2>2, ProcsApart DEF Alone
<1> QED
  BY Zenon, <1>2, <1>3, <1>4

\* The others' steps keep the count exact.
LEMMA OtherExact ==
  ASSUME Types, Exact, \/ RequestShutdown \/ StopRunning \/ WakeForStop \/ Join \/ Detach \/ Destroy
                       \/ Flush \/ FlushLooks \/ FlushWakes \/ FlushTimeout \/ StreamFails
                       \/ UNCHANGED vars
  PROVE  Exact'
<1>1. /\ UNCHANGED <<head, tail, batch, m_pending_messages>>
      /\ pc'[Writer] = pc[Writer] /\ \A p \in Producers : pc'[p] = pc[p]
  BY Zenon, OtherFrame
<1>2. Counted' = Counted /\ Taken' = Taken
  BY Zenon, <1>1, CountedStays DEF Taken
<1>3. Pending' = Pending
  BY Zenon, <1>1, <1>2 DEF Pending
<1>4. Live' => Live
  <2>1. \A to : pc' = [pc EXCEPT ![Stopper] = to] => pc'[Stopper] = to
    BY Zenon, PcMoves, ProcsApart DEF Types
  <2>2. CASE RequestShutdown \/ StopRunning \/ WakeForStop \/ Join \/ Detach
    <3>1. pc[Stopper] \in {"idle", "stop", "wake", "join"}
      BY Zenon, <2>2 DEF RequestShutdown, StopRunning, WakeForStop, Join, Detach, Goto
    <3> QED
      BY Zenon, <1>1, <3>1 DEF Live
  <2>3. CASE Destroy
    <3>1. PICK to \in {"leaked", "freed"} : pc' = [pc EXCEPT ![Stopper] = to]
      BY Zenon, <2>3 DEF Destroy, Goto
    <3> QED
      BY Zenon, <2>1, <3>1 DEF Live
  <2>4. CASE Flush \/ FlushLooks \/ FlushWakes \/ FlushTimeout
    <3>1. \E to : pc' = [pc EXCEPT ![Flusher] = to]
      BY Zenon, <2>4 DEF Flush, FlushLooks, FlushWakes, FlushTimeout, Goto
    <3>2. pc'[Stopper] = pc[Stopper]
      BY Zenon, <3>1, PcMoves, ProcsApart DEF Types, Alone
    <3> QED
      BY Zenon, <1>1, <3>2 DEF Live
  <2>5. CASE StreamFails \/ UNCHANGED vars
    BY Zenon, <2>5 DEF StreamFails, vars, Live
  <2> QED
    BY Zenon, <2>2, <2>3, <2>4, <2>5
<1> QED
  BY Zenon, <1>1, <1>3, <1>4, ExactStays

\* shutdown drains after it has joined or detached the writer.
LEMMA DrainPCs ==
  ASSUME Types, Consume(Stopper)
  PROVE  /\ pc[Stopper] \in {"pop", "popping", "write", "zero"}
         /\ pc'[Stopper] \in {"popping", "pop", "write", "zero", "done"}
<1>1. PICK to : pc' = [pc EXCEPT ![Stopper] = to] /\ to \in {"popping", "pop", "write", "zero", "done"}
  <2>1. CASE PopTakes(Stopper) \/ PopFrees(Stopper) \/ ForceZero(Stopper)
    BY Zenon, <2>1 DEF PopTakes, PopFrees, ForceZero, Goto
  <2>2. CASE PopEnds(Stopper)
    BY Zenon, <2>2, ProcsApart DEF PopEnds, Goto
  <2>3. CASE WriteBatch(Stopper)
    BY Zenon, <2>3, ProcsApart DEF WriteBatch, Goto
  <2> QED
    BY Zenon, <2>1, <2>2, <2>3 DEF Consume
<1>2. pc'[Stopper] \in {"popping", "pop", "write", "zero", "done"}
  BY Zenon, <1>1, PcMoves, ProcsApart DEF Types
<1>3. pc[Stopper] \in {"pop", "popping", "write", "zero"}
  BY Zenon DEF Consume, PopTakes, PopFrees, PopEnds, WriteBatch, ForceZero, Goto
<1> QED
  BY Zenon, <1>2, <1>3

\* Every step keeps the count exact.
LEMMA ExactStep ==
  ASSUME Finite, Counting, FewCounted, AInv, AInv', Exact, [Next]_vars
  PROVE  Exact'
<1>1. Types /\ Types' /\ OnceEach
  BY Zenon DEF AInv
<1>2. CASE \E p \in Producers : Enqueue(p) \/ Produce(p) \/ BlockTimeout(p)
  BY Zenon, <1>1, <1>2, ProducerExact
<1>3. CASE Drive \/ WriterTimeout
  BY Zenon, <1>1, <1>3, WriterExact
<1>4. CASE Consume(Stopper)
  BY Zenon, <1>1, <1>4, DrainPCs DEF Exact, Live
<1>5. CASE \/ RequestShutdown \/ StopRunning \/ WakeForStop \/ Join \/ Detach \/ Destroy
           \/ Flush \/ FlushLooks \/ FlushWakes \/ FlushTimeout \/ StreamFails \/ UNCHANGED vars
  BY Zenon, <1>1, <1>5, OtherExact
<1> QED
  BY Zenon, <1>2, <1>3, <1>4, <1>5 DEF Next, Stop

-----------------------------------------------------------------------------
(* The wake-up of the writer. *)

\* The writer sleeps, or nothing keeps it from going to sleep.
Sleepy == (pc[Writer] = "running?" /\ m_running) \/ Writer \in asleep

\* Where a producer is between publishing its message and waking the writer.
WakePCs == {"notify", "wake"}

\* A published message is not slept over.
Alert ==
  Sleepy => \A n \in DOMAIN cell : cell[n].ready => \E p \in Producers : pc[p] \in WakePCs

\* A step that publishes nothing and lets no producer get past its wake-up.
LEMMA AlertKept ==
  ASSUME Alert, Sleepy' => Sleepy,
         \A n \in DOMAIN cell' : cell'[n].ready => n \in DOMAIN cell /\ cell[n].ready,
         \A p \in Producers : pc[p] \in WakePCs => pc'[p] \in WakePCs
  PROVE  Alert'
BY Zenon DEF Alert

\* A producer's step sleeps over no message.
LEMMA ProducerAlert ==
  ASSUME Types, Control, OnceEach, Alert, NEW p \in Producers,
         Enqueue(p) \/ Produce(p) \/ BlockTimeout(p)
  PROVE  Alert'
<1>1. /\ Alone(p) /\ UNCHANGED <<m_running, parking>>
      /\ pc'[Writer] = pc[Writer] /\ \A q \in Producers : q # p => pc'[q] = pc[q]
  BY Zenon, ProducerFrame, ProducerAlone, ProcsApart
<1>2. \A to : pc' = [pc EXCEPT ![p] = to] => pc'[p] = to
  BY Zenon, PcMoves, ProcsApart DEF Types
<1>3. ASSUME asleep' = asleep, pc[p] \notin WakePCs,
             \A n \in DOMAIN cell' : cell'[n].ready => n \in DOMAIN cell /\ cell[n].ready
      PROVE  Alert'
  <2>1. Sleepy' => Sleepy
    BY Zenon, <1>1, <1>3 DEF Sleepy
  <2> QED
    BY Zenon, <1>1, <1>3, <2>1, AlertKept
<1> USE DEF Goto, others
<1>4. CASE \/ Enqueue(p) \/ WriteSync(p) \/ Count(p) \/ PushRefused(p) \/ BlockTimeout(p) \/ Uncount(p)
           \/ DropNew(p) \/ EvictFinds(p)
  <2>1. pc[p] \notin WakePCs /\ UNCHANGED <<asleep, cell>>
    BY Zenon, <1>4
       DEF Enqueue, WriteSync, Count, PushRefused, BlockTimeout, Uncount, DropNew, EvictFinds, queueVars,
           WakePCs
  <2> QED
    BY Zenon, <1>3, <2>1
<1>5. CASE PushClaims(p)
  <2>1. pc[p] \notin WakePCs /\ asleep' = asleep /\ Claim(Message(p))
    BY Zenon, <1>5 DEF PushClaims, WakePCs
  <2>2. Message(p) \in Messages
    BY Zenon, MessageLogged DEF Types
  <2>3. /\ DOMAIN cell' = DOMAIN cell \cup {tail} /\ ~ cell'[tail].ready
        /\ \A n \in DOMAIN cell : cell'[n] = cell[n]
    BY Zenon, <2>1, <2>2, ClaimDoes DEF Types
  <2> QED
    BY Zenon, <1>3, <2>1, <2>3
<1>6. CASE EvictTakes(p)
  <2>1. pc[p] \notin WakePCs /\ asleep' = asleep /\ Take
    BY Zenon, <1>6 DEF EvictTakes, WakePCs
  <2>2. DOMAIN cell' = DOMAIN cell \ {head} /\ \A n \in DOMAIN cell' : cell'[n] = cell[n]
    BY Zenon, <2>1, TakeDoes DEF Types
  <2> QED
    BY Zenon, <1>3, <2>1, <2>2
<1>7. CASE EvictFrees(p)
  <2>1. pc[p] \notin WakePCs /\ UNCHANGED <<asleep, cell>>
    BY Zenon, <1>7 DEF EvictFrees, Free, WakePCs
  <2> QED
    BY Zenon, <1>3, <2>1
<1>8. CASE PushPublishes(p)
  <2>1. pc'[p] = "notify"
    BY Zenon, <1>2, <1>8 DEF PushPublishes
  <2> QED
    BY Zenon, <2>1 DEF Alert, WakePCs
<1>9. CASE LookForWriter(p)
  <2>1. asleep' = asleep
    BY Zenon, <1>9 DEF LookForWriter
  <2>2. Sleepy' => pc'[p] = "wake"
    <3>1. Sleepy' => m_writer_waiting
      BY Zenon, <1>1, <2>1 DEF Sleepy, Control
    <3>2. m_writer_waiting => pc' = [pc EXCEPT ![p] = "wake"]
      BY Zenon, <1>9 DEF LookForWriter
    <3> QED
      BY Zenon, <1>2, <3>1, <3>2
  <2> QED
    BY Zenon, <2>2 DEF Alert, WakePCs
<1>10. CASE WakeWriter(p)
  <2>1. asleep' = {} /\ ~ parking
    BY Zenon, <1>10 DEF WakeWriter, NotifyAll, LockFlush
  <2>2. ~ Sleepy'
    BY Zenon, <1>1, <2>1 DEF Sleepy, Control
  <2> QED
    BY Zenon, <2>2 DEF Alert
<1> QED
  BY Zenon, <1>4, <1>5, <1>6, <1>7, <1>8, <1>9, <1>10 DEF Produce

\* The writer goes to sleep only if nothing is pending.
LEMMA WriterAlert ==
  ASSUME FewCounted, Types, Control, Control', Exact, Alert, Drive \/ WriterTimeout
  PROVE  Alert'
<1>1. \A to : pc' = [pc EXCEPT ![Writer] = to] => pc'[Writer] = to /\ Alone(Writer)
  BY Zenon, PcMoves, ProcsApart DEF Types
<1>2. ASSUME pc'[Writer] \notin {"running?", "asleep"}
      PROVE  Alert'
  BY Zenon, <1>2 DEF Alert, Sleepy, Control
<1>3. ASSUME NEW to \in WriterPCs \ {"running?", "asleep"}, pc' = [pc EXCEPT ![Writer] = to]
      PROVE  Alert'
  BY Zenon, <1>1, <1>2, <1>3
<1> USE DEF Goto, WriterPCs
<1>4. CASE \/ PopTakes(Writer) \/ PopFrees(Writer) \/ WriteBatch(Writer) \/ ForceZero(Writer)
           \/ EmptyLoads \/ UncountBatch
  BY Zenon, <1>3, <1>4 DEF PopTakes, PopFrees, WriteBatch, ForceZero, EmptyLoads, UncountBatch
<1>5. CASE SignalFlushed \/ Park \/ WriterWakes \/ WriterTimeout \/ Unpark
  BY Zenon, <1>3, <1>5 DEF SignalFlushed, Park, WriterWakes, WriterTimeout, Unpark
<1>6. CASE PopEnds(Writer)
  <2>1. PICK to \in {"write", "park"} : pc' = [pc EXCEPT ![Writer] = to]
    BY Zenon, <1>6 DEF PopEnds
  <2> QED
    BY Zenon, <1>3, <2>1
<1>7. CASE LoopLooks \/ EmptyCompares
  <2>1. PICK to \in {"pop", "empty", "zero"} : pc' = [pc EXCEPT ![Writer] = to]
    BY Zenon, <1>7 DEF LoopLooks, EmptyCompares
  <2> QED
    BY Zenon, <1>3, <2>1
<1>8. CASE CheckPending
  <2>1. CASE m_pending_messages # 0
    BY Zenon, <1>3, <1>8, <2>1 DEF CheckPending
  <2>2. CASE m_pending_messages = 0 /\ ~ m_running
    <3>1. pc[Writer] = "pending?" /\ UNCHANGED <<m_running, asleep>>
      BY Zenon, <1>8 DEF CheckPending, control
    <3>2. ~ Sleepy'
      BY Zenon, <2>2, <3>1 DEF Sleepy, Control
    <3> QED
      BY Zenon, <3>2 DEF Alert
  <2>3. CASE m_pending_messages = 0 /\ m_running
    <3>1. pc[Writer] = "pending?" /\ cell' = cell
      BY Zenon, <1>8 DEF CheckPending, writerIdle, queueVars
    <3>2. Live
      BY Zenon, <2>3, <3>1 DEF Live, Control
    <3>3. (tail - head) + Cardinality(Counted) + Taken = 0
      BY Zenon, <2>3, <3>2 DEF Exact, Pending
    <3>4. Cardinality(Counted) \in Nat /\ Taken \in Nat
      BY Zenon, PendingParts
    <3>5. head \in Nat /\ tail \in Nat /\ DOMAIN cell = head .. (tail - 1)
      BY Zenon DEF Types, QueueTypes
    <3>6. DOMAIN cell = {}
      BY <3>3, <3>4, <3>5
    <3> QED
      BY Zenon, <3>1, <3>6 DEF Alert
  <2> QED
    BY Zenon, <2>1, <2>2, <2>3
<1>9. CASE CheckRunning
  <2>1. CASE ~ m_running
    BY Zenon, <1>3, <1>9, <2>1 DEF CheckRunning
  <2>2. CASE m_running
    <3>1. pc[Writer] = "running?" /\ cell' = cell /\ Alone(Writer)
      BY Zenon, <1>1, <1>9, <2>2 DEF CheckRunning, writerIdle, queueVars
    <3>2. Sleepy /\ \A p \in Producers : pc'[p] = pc[p]
      BY Zenon, <2>2, <3>1, ProcsApart DEF Sleepy, Alone
    <3> QED
      BY Zenon, <3>1, <3>2, AlertKept
  <2> QED
    BY Zenon, <2>1, <2>2
<1> QED
  BY Zenon, <1>4, <1>5, <1>6, <1>7, <1>8, <1>9 DEF Drive, Consume

\* Every step keeps the writer alert.
LEMMA AlertStep ==
  ASSUME FewCounted, AInv, AInv', Exact, Alert, [Next]_vars
  PROVE  Alert'
<1>1. Types /\ Control /\ Control' /\ OnceEach
  BY Zenon DEF AInv
<1>2. CASE \E p \in Producers : Enqueue(p) \/ Produce(p) \/ BlockTimeout(p)
  BY Zenon, <1>1, <1>2, ProducerAlert
<1>3. CASE Drive \/ WriterTimeout
  BY Zenon, <1>1, <1>3, WriterAlert
<1>4. CASE Consume(Stopper)
  <2>1. ~ Live'
    BY Zenon, <1>1, <1>4, DrainPCs DEF Live
  <2>2. ~ Sleepy'
    BY Zenon, <1>1, <2>1 DEF Sleepy, Control, Live
  <2> QED
    BY Zenon, <2>2 DEF Alert
<1>5. CASE \/ RequestShutdown \/ StopRunning \/ WakeForStop \/ Join \/ Detach \/ Destroy
           \/ Flush \/ FlushLooks \/ FlushWakes \/ FlushTimeout \/ StreamFails \/ UNCHANGED vars
  <2>1. cell' = cell /\ pc'[Writer] = pc[Writer] /\ \A p \in Producers : pc'[p] = pc[p]
    BY Zenon, <1>1, <1>5, OtherFrame
  <2>2. m_running' \in {m_running, FALSE} /\ asleep' \subseteq asleep \cup {Flusher}
    <3>1. CASE StopRunning
      BY Zenon, <3>1 DEF StopRunning
    <3>2. CASE RequestShutdown \/ WakeForStop \/ Join \/ Detach \/ Destroy
      BY Zenon, <3>2 DEF RequestShutdown, WakeForStop, Join, Detach, Destroy, NotifyAll
    <3>3. CASE Flush \/ FlushLooks \/ FlushWakes \/ FlushTimeout
      BY Zenon, <3>3 DEF Flush, FlushLooks, FlushWakes, FlushTimeout, flushIdle, control
    <3>4. CASE StreamFails \/ UNCHANGED vars
      BY Zenon, <3>4 DEF StreamFails, vars, control
    <3> QED
      BY Zenon, <1>5, <3>1, <3>2, <3>3, <3>4
  <2>3. Sleepy' => Sleepy
    BY Zenon, <2>1, <2>2, ProcsApart DEF Sleepy
  <2> QED
    BY Zenon, <2>1, <2>3, AlertKept
<1> QED
  BY Zenon, <1>2, <1>3, <1>4, <1>5 DEF Next, Stop

-----------------------------------------------------------------------------
(* The order of each producer's messages. *)

\* b is not an earlier message of the producer of a.
Before(a, b) == a[1] = b[1] => a[2] < b[2]
Sorted(s) == \A i, j \in DOMAIN s : i < j => Before(s[i], s[j])

\* Nobody writes past the queue.
Ordering == ~ m_shutdown_requested /\ overflow_policy # "SyncFallback"

\* The file, then the batch, then the queue.
InOrder ==
  /\ Sorted(written) /\ Sorted(batch[Writer])
  /\ \A i, j \in DOMAIN cell : i < j => Before(cell[i].item, cell[j].item)
  /\ \A a \in InFile, b \in InBatch(Writer) : Before(a, b)
  /\ \A a \in InFile \cup InBatch(Writer), b \in InQueue : Before(a, b)

Ordered == Ordering => InOrder

\* A later message at the end.
LEMMA SortedAppend ==
  ASSUME NEW S, NEW s \in Seq(S), NEW e \in S, Sorted(s), \A a \in Range(s) : Before(a, e)
  PROVE  Sorted(Append(s, e))
<1>1. \A i \in 1 .. Len(s) : Before(s[i], e)
  BY Zenon, RangeAppend DEF Range
<1>2. /\ \A i \in 1 .. Len(s) : Append(s, e)[i] = s[i]
      /\ Append(s, e)[Len(s) + 1] = e /\ Len(s) \in Nat
      /\ DOMAIN s = 1 .. Len(s) /\ DOMAIN Append(s, e) = 1 .. (Len(s) + 1)
  OBVIOUS
<1>3. \A i, j \in 1 .. (Len(s) + 1) : i < j =>
        i \in 1 .. Len(s) /\ (j \in 1 .. Len(s) \/ j = Len(s) + 1)
  BY <1>2
<1> QED
  BY Zenon, <1>1, <1>2, <1>3 DEF Sorted

\* Later messages at the end.
LEMMA SortedConcat ==
  ASSUME NEW S, NEW s \in Seq(S), NEW t \in Seq(S), Sorted(s), Sorted(t),
         \A a \in Range(s), b \in Range(t) : Before(a, b)
  PROVE  Sorted(s \o t)
<1>0. Joined(s, t)
  BY ConcatIndices
<1>1. \A i \in 1 .. Len(s), j \in 1 .. Len(t) : Before(s[i], t[j])
  BY Zenon, <1>0 DEF Range, Joined
<1>2. SUFFICES ASSUME NEW i \in 1 .. (Len(s) + Len(t)), NEW j \in 1 .. (Len(s) + Len(t)), i < j
               PROVE  Before((s \o t)[i], (s \o t)[j])
  BY Zenon, <1>0 DEF Sorted, Joined
<1>3. CASE i \in 1 .. Len(s) /\ (s \o t)[i] = s[i] /\ j \in 1 .. Len(s) /\ (s \o t)[j] = s[j]
  BY Zenon, <1>0, <1>2, <1>3 DEF Sorted, Joined
<1>4. CASE /\ i - Len(s) \in 1 .. Len(t) /\ (s \o t)[i] = t[i - Len(s)]
           /\ j - Len(s) \in 1 .. Len(t) /\ (s \o t)[j] = t[j - Len(s)]
  <2>1. i - Len(s) < j - Len(s)
    <3>1. Len(s) \in Nat /\ i \in Int /\ j \in Int
      BY <1>0 DEF Joined
    <3> QED
      BY <1>2, <3>1
  <2> QED
    BY Zenon, <1>0, <1>4, <2>1 DEF Sorted, Joined
<1>5. CASE i \in 1 .. Len(s) /\ (s \o t)[i] = s[i] /\ j - Len(s) \in 1 .. Len(t) /\ (s \o t)[j] = t[j - Len(s)]
  BY Zenon, <1>1, <1>5
<1>6. CASE i > Len(s) /\ j \in 1 .. Len(s)
  <2>1. Len(s) \in Nat /\ i \in Int /\ j \in Int
    BY <1>0 DEF Joined
  <2> QED
    BY <1>2, <1>6, <2>1
<1> QED
  BY Zenon, <1>0, <1>2, <1>3, <1>4, <1>5, <1>6 DEF Joined

\* What a producer still has is later than all of its messages that have gone ahead.
LEMMA OwnIsLast ==
  ASSUME AInv, NEW p \in Producers, pc[p] \in OwnPCs,
         NEW a \in InFile \cup InBatch(Writer) \cup InQueue
  PROVE  Before(a, Message(p))
<1>1. Types /\ Apart
  BY Zenon DEF AInv
<1>2. Message(p) \in Own /\ Message(p) = <<p, sent[p]>> /\ sent[p] \in Nat
  BY Zenon, <1>1 DEF Own, Message, Types, DataTypes
<1>3. a \in Logged /\ a \notin Own
  <2>1. \A b \in PlaceNames : b # "own" => Place("own") \cap Place(b) = {}
    BY Zenon, <1>1 DEF Apart, PlaceNames
  <2>2. {"file", "writer", "queue"} \subseteq PlaceNames
    BY Zenon DEF PlaceNames
  <2>3. \A b \in PlaceNames : Place(b) \subseteq Logged
    BY Zenon, <1>1, PlacesLogged DEF Types
  <2> QED
    BY Zenon, <2>1, <2>2, <2>3, PlacesAre
<1>4. a \in Messages /\ a[2] <= sent[a[1]] /\ a # <<p, sent[p]>>
  BY Zenon, <1>2, <1>3 DEF Logged
<1>5. PICK q \in Producers, k \in Nat : a = <<q, k>>
  BY <1>4 DEF Messages
<1>6. a[1] = q /\ a[2] = k
  BY <1>5
<1>7. q = p => k < sent[p]
  BY <1>2, <1>4, <1>5, <1>6
<1>8. Message(p)[1] = p /\ Message(p)[2] = sent[p]
  BY <1>2
<1> QED
  BY Zenon, <1>6, <1>7, <1>8 DEF Before

\* The policy is for good, and so is a shutdown.
LEMMA OrderingLasts ==
  ASSUME Types, [Next]_vars
  PROVE  Ordering' => Ordering
<1>1. overflow_policy' = overflow_policy /\ m_shutdown_requested' \in {m_shutdown_requested, TRUE}
  <2>1. CASE \E p \in Producers : Enqueue(p) \/ Produce(p) \/ BlockTimeout(p)
    BY Zenon, <2>1, ProducerFrame
  <2>2. ASSUME NEW w, Consume(w)
        PROVE  UNCHANGED <<overflow_policy, m_shutdown_requested>>
    BY Zenon, <2>2 DEF Consume, PopTakes, PopFrees, PopEnds, WriteBatch, ForceZero, control
  <2>3. CASE Drive \/ WriterTimeout
    <3>1. CASE LoopLooks \/ EmptyLoads \/ EmptyCompares \/ UncountBatch \/ SignalFlushed
      BY Zenon, <3>1 DEF LoopLooks, EmptyLoads, EmptyCompares, UncountBatch, SignalFlushed, control
    <3>2. CASE Park \/ CheckPending \/ CheckRunning \/ WriterWakes \/ Unpark \/ WriterTimeout
      BY Zenon, <3>2
         DEF Park, CheckPending, CheckRunning, WriterWakes, Unpark, WriterTimeout, control, writerIdle,
             production
    <3> QED
      BY Zenon, <2>2, <2>3, <3>1, <3>2 DEF Drive
  <2>4. CASE RequestShutdown \/ StopRunning \/ WakeForStop \/ Join \/ Detach \/ Destroy
    BY Zenon, <2>4 DEF RequestShutdown, StopRunning, WakeForStop, Join, Detach, Destroy, stopIdle
  <2>5. CASE Flush \/ FlushLooks \/ FlushWakes \/ FlushTimeout \/ StreamFails \/ UNCHANGED vars
    BY Zenon, <2>5 DEF Flush, FlushLooks, FlushWakes, FlushTimeout, flushIdle, StreamFails, vars, control
  <2> QED
    BY Zenon, <2>1, <2>2, <2>3, <2>4, <2>5 DEF Next, Stop
<1> QED
  BY Zenon, <1>1 DEF Ordering

\* A step that puts no message anywhere but out of the batch or the queue.
LEMMA OrderKept ==
  ASSUME Ordered, Ordering' => Ordering, written' = written, batch'[Writer] = batch[Writer],
         InBatch(Writer)' \subseteq InBatch(Writer),
         \A n \in DOMAIN cell' : n \in DOMAIN cell /\ cell'[n].item = cell[n].item
  PROVE  Ordered'
<1>1. InQueue' \subseteq InQueue /\ InFile' = InFile
  BY Zenon DEF InQueue, InFile
<1>2. ASSUME InOrder PROVE InOrder'
  <2>1. \A i, j \in DOMAIN cell' : i < j => Before(cell'[i].item, cell'[j].item)
    BY Zenon, <1>2 DEF InOrder
  <2>2. \A a \in InFile', b \in InBatch(Writer)' : Before(a, b)
    BY Zenon, <1>1, <1>2 DEF InOrder
  <2>3. \A a \in InFile' \cup InBatch(Writer)', b \in InQueue' : Before(a, b)
    BY Zenon, <1>1, <1>2 DEF InOrder
  <2>4. Sorted(written') /\ Sorted(batch'[Writer])
    BY Zenon, <1>2 DEF InOrder
  <2> QED
    BY Zenon, <2>1, <2>2, <2>3, <2>4 DEF InOrder
<1> QED
  BY Zenon, <1>2 DEF Ordered

\* try_push puts a message behind all others of its producer.
LEMMA PushClaimsOrder ==
  ASSUME AInv, Ordered, Ordering' => Ordering, NEW p \in Producers, PushClaims(p)
  PROVE  Ordered'
<1> SUFFICES ASSUME InOrder PROVE InOrder'
  BY Zenon DEF Ordered
<1> DEFINE m == Message(p)
<1>0. Types
  BY Zenon DEF AInv
<1>1. pc[p] \in {"push", "retry", "repush"} /\ Claim(m) /\ UNCHANGED <<written, batch>>
  BY Zenon DEF PushClaims, others
<1>2. \A a \in InFile \cup InBatch(Writer) \cup InQueue : Before(a, m)
  <2>1. pc[p] \in OwnPCs
    BY Zenon, <1>1 DEF OwnPCs
  <2> QED
    BY Zenon, <2>1, OwnIsLast
<1>3. /\ DOMAIN cell = head .. (tail - 1) /\ DOMAIN cell' = DOMAIN cell \cup {tail}
      /\ cell'[tail].item = m /\ \A n \in DOMAIN cell : cell'[n] = cell[n]
      /\ InQueue' = InQueue \cup {m}
  BY Zenon, <1>0, <1>1, ClaimDoes, MessageLogged DEF Types
<1>4. pc'[Writer] = pc[Writer]
  BY Zenon, <1>0, ProducerFrame, ProducerAlone, ProcsApart DEF Produce
<1>5. InFile' = InFile /\ InBatch(Writer)' = InBatch(Writer)
  BY Zenon, <1>1, <1>4 DEF InFile, InBatch
<1>6. \A i \in DOMAIN cell : i < tail /\ ~ (tail < i)
  BY <1>0, <1>3 DEF Types, QueueTypes
<1>7. ~ (tail < tail)
  BY <1>0 DEF Types, QueueTypes
<1> HIDE DEF m
<1>8. \A i, j \in DOMAIN cell' : i < j => Before(cell'[i].item, cell'[j].item)
  <2>1. \A i \in DOMAIN cell : Before(cell[i].item, m)
    BY Zenon, <1>2 DEF InQueue
  <2> QED
    BY Zenon, <1>3, <1>6, <1>7, <2>1 DEF InOrder
<1>9. \A a \in InFile' \cup InBatch(Writer)', b \in InQueue' : Before(a, b)
  BY Zenon, <1>2, <1>3, <1>5 DEF InOrder
<1> QED
  BY Zenon, <1>1, <1>5, <1>8, <1>9 DEF InOrder

\* try_pop_batch puts the oldest message at the end of the batch.
LEMMA PopTakesOrder ==
  ASSUME AInv, Ordered, Ordering' => Ordering, PopTakes(Writer)
  PROVE  Ordered'
<1> SUFFICES ASSUME InOrder PROVE InOrder'
  BY Zenon DEF Ordered
<1> DEFINE x == cell[head].item
<1>0. Types /\ OnceEach /\ batch[Writer] \in Seq(Messages)
  BY Zenon, ProcsApart DEF AInv, Types, DataTypes
<1>1. /\ pc[Writer] = "pop" /\ pc'[Writer] = "popping" /\ Take /\ written' = written
      /\ batch' = [batch EXCEPT ![Writer] = Append(batch[Writer], x)]
  BY Zenon, <1>0, PcMoves, ProcsApart DEF PopTakes, Goto, Types
<1>2. /\ head \in DOMAIN cell /\ x \in Messages /\ x \in InQueue
      /\ DOMAIN cell' = DOMAIN cell \ {head} /\ \A n \in DOMAIN cell' : cell'[n] = cell[n]
      /\ InQueue' = InQueue \ {x}
  BY Zenon, <1>0, <1>1, TakeDoes DEF Types
<1>3. batch'[Writer] = Append(batch[Writer], x)
  BY Zenon, <1>0, <1>1, ProcsApart DEF Types, DataTypes
<1> HIDE DEF x
<1>4. Range(Append(batch[Writer], x)) = Range(batch[Writer]) \cup {x}
  BY <1>0, <1>2, RangeAppend
<1>5. /\ InBatch(Writer) = Range(batch[Writer]) /\ InBatch(Writer)' = InBatch(Writer) \cup {x}
      /\ InFile' = InFile
  BY Zenon, <1>1, <1>3, <1>4 DEF InBatch, InFile
<1>6. Sorted(batch'[Writer])
  <2>1. Sorted(batch[Writer]) /\ \A a \in Range(batch[Writer]) : Before(a, x)
    BY Zenon, <1>2, <1>5 DEF InOrder
  <2>2. Sorted(Append(batch[Writer], x))
    BY ZenonT(40), <1>0, <1>2, <2>1, SortedAppend
  <2> QED
    BY Zenon, <1>3, <2>2
<1>7. \A b \in InQueue' : Before(x, b)
  <2>1. \A n \in DOMAIN cell' : n \in DOMAIN cell /\ head < n
    <3>1. DOMAIN cell = head .. (tail - 1) /\ head \in Nat /\ tail \in Nat
      BY Zenon, <1>0 DEF Types, QueueTypes
    <3> QED
      BY <1>2, <3>1
  <2>2. \A n \in DOMAIN cell' : Before(x, cell'[n].item)
    BY Zenon, <1>2, <2>1 DEF InOrder, x
  <2> QED
    BY Zenon, <2>2 DEF InQueue
<1>8. \A i, j \in DOMAIN cell' : i < j => Before(cell'[i].item, cell'[j].item)
  BY Zenon, <1>2 DEF InOrder
<1>9. \A a \in InFile', b \in InBatch(Writer)' : Before(a, b)
  BY Zenon, <1>2, <1>5 DEF InOrder
<1>10. \A a \in InFile' \cup InBatch(Writer)', b \in InQueue' : Before(a, b)
  BY Zenon, <1>2, <1>5, <1>7 DEF InOrder
<1> QED
  BY Zenon, <1>1, <1>6, <1>8, <1>9, <1>10 DEF InOrder

\* write_batch puts the batch behind the file.
LEMMA WriteBatchOrder ==
  ASSUME AInv, Ordered, Ordering' => Ordering, WriteBatch(Writer)
  PROVE  Ordered'
<1> SUFFICES ASSUME InOrder PROVE InOrder'
  BY Zenon DEF Ordered
<1>0. Types /\ batch[Writer] \in Seq(Messages) /\ written \in Seq(Messages)
  BY Zenon, ProcsApart DEF AInv, Types, DataTypes
<1>1. /\ pc[Writer] = "write" /\ pc'[Writer] = "uncount" /\ UNCHANGED <<cell, batch>>
      /\ written' = IF m_file_stream = "good" THEN written \o batch[Writer] ELSE written
  BY Zenon, <1>0, PcMoves, ProcsApart DEF WriteBatch, Goto, Write, Types, queueVars
<1>2. InBatch(Writer) = Range(batch[Writer]) /\ InBatch(Writer)' = {} /\ InQueue' = InQueue
  BY Zenon, <1>1 DEF InBatch, InQueue
<1>3. Range(written \o batch[Writer]) = Range(written) \cup Range(batch[Writer])
  BY ZenonT(40), <1>0, RangeConcat
<1>4. InFile' \subseteq InFile \cup InBatch(Writer)
  BY Zenon, <1>1, <1>2, <1>3 DEF InFile
<1>5. Sorted(written')
  <2>1. /\ Sorted(written) /\ Sorted(batch[Writer])
        /\ \A a \in Range(written), b \in Range(batch[Writer]) : Before(a, b)
    BY Zenon, <1>2 DEF InOrder, InFile
  <2>2. Sorted(written \o batch[Writer])
    BY ZenonT(40), <1>0, <2>1, SortedConcat
  <2> QED
    BY Zenon, <1>1, <2>1, <2>2
<1> QED
  BY Zenon, <1>1, <1>2, <1>4, <1>5 DEF InOrder

\* Every step keeps the order.
LEMMA OrderStep ==
  ASSUME AInv, AInv', Ordered, [Next]_vars
  PROVE  Ordered'
<1>0. Types /\ Control /\ Control' /\ OnceEach
  BY Zenon DEF AInv
<1>1. Ordering' => Ordering
  BY Zenon, <1>0, OrderingLasts
<1>2. CASE Still
  <2>1. UNCHANGED <<written, batch, cell>> /\ InBatch(Writer)' = InBatch(Writer)
    BY Zenon, <1>2, ProcsApart DEF Still, InBatch
  <2> QED
    BY Zenon, <1>1, <2>1, OrderKept
<1>3. ASSUME NEW p \in Producers,
             \/ Enqueue(p) \/ WriteSync(p) \/ PushClaims(p) \/ PushPublishes(p) \/ LookForWriter(p)
             \/ WakeWriter(p) \/ DropNew(p) \/ EvictTakes(p) \/ EvictFrees(p)
      PROVE  Ordered'
  <2>1. batch' = batch /\ pc'[Writer] = pc[Writer]
    BY Zenon, <1>0, <1>3, ProducerFrame, ProducerAlone, ProcsApart DEF Produce
  <2>2. InBatch(Writer)' = InBatch(Writer)
    BY Zenon, <2>1 DEF InBatch
  <2>3. CASE Enqueue(p) \/ LookForWriter(p) \/ WakeWriter(p) \/ DropNew(p) \/ EvictFrees(p)
    <3>1. UNCHANGED <<written, cell>>
      BY Zenon, <2>3 DEF Enqueue, LookForWriter, WakeWriter, DropNew, EvictFrees, Free, queueVars
    <3> QED
      BY Zenon, <1>1, <2>1, <2>2, <3>1, OrderKept
  <2>4. CASE WriteSync(p)
    <3>1. ~ Ordering
      BY Zenon, <1>0, <2>4 DEF WriteSync, Goto, Control, Ordering
    <3> QED
      BY Zenon, <1>1, <3>1 DEF Ordered
  <2>5. CASE PushPublishes(p)
    <3>1. Publish(num[p]) /\ written' = written
      BY Zenon, <2>5 DEF PushPublishes
    <3>2. DOMAIN cell' = DOMAIN cell /\ \A n \in DOMAIN cell : cell'[n].item = cell[n].item
      BY Zenon, <1>0, <3>1, PublishDoes DEF Types
    <3> QED
      BY Zenon, <1>1, <2>1, <2>2, <3>1, <3>2, OrderKept
  <2>6. CASE EvictTakes(p)
    <3>1. Take /\ written' = written
      BY Zenon, <2>6 DEF EvictTakes
    <3>2. DOMAIN cell' = DOMAIN cell \ {head} /\ \A n \in DOMAIN cell' : cell'[n] = cell[n]
      BY Zenon, <1>0, <3>1, TakeDoes DEF Types
    <3> QED
      BY Zenon, <1>1, <2>1, <2>2, <3>1, <3>2, OrderKept
  <2> QED
    BY Zenon, <1>1, <1>3, <2>3, <2>4, <2>5, <2>6, PushClaimsOrder
<1>4. CASE Consume(Stopper)
  <2>1. ~ Ordering'
    BY Zenon, <1>0, <1>4, DrainPCs DEF Control, Ordering
  <2> QED
    BY Zenon, <2>1 DEF Ordered
<1>5. CASE PopFrees(Writer)
  <2>1. UNCHANGED <<written, batch, cell>> /\ pc[Writer] = "popping"
    BY Zenon, <1>5 DEF PopFrees, Free, Goto
  <2>2. InBatch(Writer)' \subseteq InBatch(Writer)
    BY Zenon, <2>1 DEF InBatch
  <2> QED
    BY Zenon, <1>1, <2>1, <2>2, OrderKept
<1>6. CASE SignalFlushed
  <2>1. UNCHANGED <<written, cell>> /\ batch' = [batch EXCEPT ![Writer] = <<>>]
    BY Zenon, <1>6 DEF SignalFlushed, queueVars
  <2>2. batch'[Writer] = <<>>
    BY Zenon, <1>0, <2>1, ProcsApart DEF Types, DataTypes
  <2>3. InBatch(Writer)' = {} /\ InFile' = InFile /\ InQueue' = InQueue
    BY Zenon, <2>1, <2>2, NoMessages DEF InBatch, InFile, InQueue
  <2>4. DOMAIN <<>> = {}
    OBVIOUS
  <2>5. Sorted(batch'[Writer])
    BY Zenon, <2>2, <2>4 DEF Sorted
  <2>6. InOrder => InOrder'
    BY Zenon, <2>1, <2>3, <2>5 DEF InOrder
  <2> QED
    BY Zenon, <1>1, <2>6 DEF Ordered
<1>7. CASE Moving
  BY Zenon, <1>1, <1>3, <1>4, <1>5, <1>6, <1>7, PopTakesOrder, WriteBatchOrder
     DEF Moving, Consumers, Consume
<1> QED
  BY Zenon, <1>0, <1>2, <1>7, StepKinds

-----------------------------------------------------------------------------
(* What these say. *)

\* The queue has as many messages as cells.
QueueSize == \A a, b \in Nat : a <= b => IsFiniteSet(a .. (b - 1)) /\ Cardinality(a .. (b - 1)) = b - a
Images ==
  \A S, T, f : IsFiniteSet(S) /\ f \in [S -> T] /\ (\A y \in T : \E x \in S : f[x] = y)
               /\ (\A x, y \in S : f[x] = f[y] => x = y) => Cardinality(T) = Cardinality(S)

\* A message is in one cell, so the queue has as many messages as cells.
LEMMA ExactMeansPending ==
  ASSUME QueueSize, Images, AInv, Exact
  PROVE  PendingIsExact
<1>1. QueueTypes /\ OnceEach
  BY Zenon DEF AInv, Types
<1>2. /\ head \in Nat /\ tail \in Nat /\ head <= tail
      /\ DOMAIN cell = head .. (tail - 1)
  BY Zenon, <1>1 DEF QueueTypes
<1>3. IsFiniteSet(DOMAIN cell) /\ Cardinality(DOMAIN cell) = tail - head
  BY Zenon, <1>2 DEF QueueSize
<1> DEFINE f == [n \in DOMAIN cell |-> cell[n].item]
<1>4. /\ f \in [DOMAIN cell -> InQueue]
      /\ \A y \in InQueue : \E x \in DOMAIN cell : f[x] = y
      /\ \A x, y \in DOMAIN cell : f[x] = f[y] => x = y
  BY Zenon, <1>1 DEF InQueue, OnceEach
<1> HIDE DEF f
<1>5. Cardinality(InQueue) = tail - head
  BY Zenon, <1>3, <1>4 DEF Images
<1>6. Taken = IF pc[Writer] \in {"signal"} THEN 0 ELSE Len(batch[Writer])
  BY Zenon DEF Taken
<1> QED
  BY Zenon, <1>5, <1>6 DEF PendingIsExact, Exact, Live, Pending

\* A writer that sleeps is about to be woken if there is something to do.
LEMMA AlertMeansWoken ==
  ASSUME AInv, Alert
  PROVE  NoLostWakeup
<1>1. Ready => head \in DOMAIN cell /\ cell[head].ready
  <2>1. head \in Nat /\ tail \in Nat /\ DOMAIN cell = head .. (tail - 1)
    BY Zenon DEF AInv, Types, QueueTypes
  <2>2. head < tail => head \in DOMAIN cell
    BY <2>1
  <2> QED
    BY Zenon, <2>2 DEF Ready
<1>2. Writer \in asleep /\ ~ m_running => pc[Stopper] = "wake"
  BY Zenon DEF AInv, Control
<1> QED
  BY Zenon, <1>1, <1>2 DEF NoLostWakeup, Alert, Sleepy, WakePCs

\* Nothing pending is nothing on its way.
LEMMA NothingPending ==
  ASSUME FewCounted, AInv, Exact, ~ m_shutdown_requested, m_file_stream = "good", m_pending_messages = 0,
         \A S \in SUBSET Producers : Cardinality(S) = 0 => S = {}
  PROVE  accepted \subseteq Range(written) \cup evicted
<1>1. Types /\ Control /\ Slots /\ Accounts
  BY Zenon DEF AInv
<1>2. pc[Stopper] = "idle" /\ pc[Writer] # "done"
  BY Zenon, <1>1 DEF Control
<1>3. (tail - head) + Cardinality(Counted) + Taken = 0
  BY Zenon, <1>2 DEF Exact, Live, Pending
<1>4. Cardinality(Counted) \in Nat /\ Taken \in Nat
  BY Zenon, <1>1, PendingParts
<1>5. head \in Nat /\ tail \in Nat /\ head <= tail /\ DOMAIN cell = head .. (tail - 1)
  BY Zenon, <1>1 DEF Types, QueueTypes
<1>6. DOMAIN cell = {} /\ Cardinality(Counted) = 0 /\ Taken = 0
  BY <1>3, <1>4, <1>5
<1>7. InQueue = {} /\ Counted = {}
  BY Zenon, <1>6 DEF InQueue, Counted
<1>8. Range(batch[Stopper]) = {}
  BY Zenon, <1>1, <1>2, NoMessages DEF Control
<1>9. batch[Writer] \in Seq(Messages)
  BY Zenon, ProcsApart, <1>1 DEF Types, DataTypes
<1>10. pc[Writer] # "signal" => Len(batch[Writer]) = 0
  BY Zenon, <1>6 DEF Taken
<1>11. Range(batch[Writer]) \subseteq InFile
  <2>1. CASE pc[Writer] = "signal"
    BY Zenon, <1>1, <2>1 DEF Accounts
  <2>2. CASE pc[Writer] # "signal"
    <3>1. batch[Writer] = <<>>
      BY <1>9, <1>10, <2>2
    <3> QED
      BY Zenon, <3>1, NoMessages
  <2> QED
    BY Zenon, <2>1, <2>2
<1>12. HeldItems = {}
  <2>1. \A p \in Producers : pc[p] # "evicting"
    BY Zenon, <1>7 DEF Counted
  <2>2. ~ (0 > 0)
    OBVIOUS
  <2>3. \A w \in Consumers : ~ (pc[w] = "popping" /\ Len(batch[w]) > 0)
    BY Zenon, <1>2, <1>10, <2>2 DEF Consumers
  <2>4. held = {}
    BY Zenon, <1>1, <2>1, <2>3 DEF Slots, Evicts, Pops
  <2> QED
    BY Zenon, <2>4 DEF HeldItems
<1> QED
  BY Zenon, <1>1, <1>7, <1>8, <1>11, <1>12 DEF Accounts, Somewhere, InFile

\* flush_with_timeout returns true only when it has seen nothing pending.
LEMMA FlushTruthful ==
  ASSUME FewCounted, AInv, Exact, [Next]_vars,
         \A S \in SUBSET Producers : Cardinality(S) = 0 => S = {}
  PROVE  TruthfulStep
<1> SUFFICES ASSUME pc[Flusher] # "flushed", pc'[Flusher] = "flushed",
                    ~ m_shutdown_requested, m_file_stream = "good"
             PROVE  snapshot \subseteq Range(written) \cup evicted
  BY Zenon DEF TruthfulStep
<1>1. Types /\ Control
  BY Zenon DEF AInv
<1>2. m_running
  BY Zenon, <1>1 DEF Control
<1>3. \A to : pc' = [pc EXCEPT ![Flusher] = to] => pc'[Flusher] = to
  BY Zenon, <1>1, PcMoves, ProcsApart DEF Types
<1>4. ASSUME NEW x \in Procs, x # Flusher, NEW to, pc' = [pc EXCEPT ![x] = to]
      PROVE  FALSE
  BY Zenon, <1>1, <1>4, PcMoves, ProcsApart DEF Types, Alone
<1>5. m_pending_messages = 0
  <2>1. CASE \E p \in Producers : Enqueue(p) \/ Produce(p) \/ BlockTimeout(p)
    BY Zenon, <1>1, <2>1, ProducerFrame, ProcsApart DEF Alone
  <2>2. CASE Drive \/ WriterTimeout
    <3>1. \E to : pc' = [pc EXCEPT ![Writer] = to]
      <4>1. CASE Consume(Writer)
        BY Zenon, <4>1 DEF Consume, PopTakes, PopFrees, PopEnds, WriteBatch, ForceZero, Goto
      <4>2. CASE LoopLooks \/ EmptyLoads \/ EmptyCompares \/ UncountBatch \/ SignalFlushed
        BY Zenon, <4>2 DEF LoopLooks, EmptyLoads, EmptyCompares, UncountBatch, SignalFlushed, Goto
      <4>3. CASE Park \/ CheckPending \/ CheckRunning \/ WriterWakes \/ Unpark \/ WriterTimeout
        BY Zenon, <4>3 DEF Park, CheckPending, CheckRunning, WriterWakes, Unpark, WriterTimeout, Goto
      <4> QED
        BY Zenon, <2>2, <4>1, <4>2, <4>3 DEF Drive
    <3> QED
      BY Zenon, <1>4, <3>1, ProcsApart
  <2>3. CASE RequestShutdown \/ Stop \/ Detach \/ Destroy
    <3>1. \E to : pc' = [pc EXCEPT ![Stopper] = to]
      <4>1. CASE Consume(Stopper)
        BY Zenon, <4>1 DEF Consume, PopTakes, PopFrees, PopEnds, WriteBatch, ForceZero, Goto
      <4>2. CASE RequestShutdown \/ StopRunning \/ WakeForStop \/ Join \/ Detach \/ Destroy
        BY Zenon, <4>2 DEF RequestShutdown, StopRunning, WakeForStop, Join, Detach, Destroy, Goto
      <4> QED
        BY Zenon, <2>3, <4>1, <4>2 DEF Stop
    <3> QED
      BY Zenon, <1>4, <3>1, ProcsApart
  <2>4. CASE Flush
    <3>1. pc' = [pc EXCEPT ![Flusher] = "lock"]
      BY Zenon, <1>2, <2>4 DEF Flush
    <3> QED
      BY Zenon, <1>3, <3>1
  <2>5. CASE FlushLooks \/ FlushWakes
    BY Zenon, <1>3, <2>5 DEF FlushLooks, FlushWakes, Goto
  <2>6. CASE FlushTimeout
    <3>1. m_pending_messages # 0 => pc' = [pc EXCEPT ![Flusher] = "late"]
      BY Zenon, <2>6 DEF FlushTimeout, Goto
    <3> QED
      BY Zenon, <1>3, <3>1
  <2>7. CASE StreamFails \/ UNCHANGED vars
    BY Zenon, <2>7 DEF StreamFails, vars
  <2> QED
    BY Zenon, <2>1, <2>2, <2>3, <2>4, <2>5, <2>6, <2>7 DEF Next
<1>6. accepted \subseteq Range(written) \cup evicted
  BY Zenon, <1>5, NothingPending
<1> QED
  BY Zenon, <1>1, <1>6 DEF Types, Known

-----------------------------------------------------------------------------

INSTANCE FiniteSetTheorems

\* Producers are finitely many, and sets of messages have the sizes one expects.
LEMMA CountingHolds ==
  Finite /\ Counting /\ Small /\ IsFiniteSet({}) /\ Cardinality({}) = 0
<1>1. Finite
  BY Zenon, LoggerAssumption, FS_CardinalityType DEF Finite
<1>2. IsFiniteSet({}) /\ Cardinality({}) = 0
  BY Zenon, FS_EmptySet
<1>3. Counting
  BY Zenon, FS_AddElement DEF Counting
<1>4. ASSUME NEW S, \A x, y \in S : x = y
      PROVE  Cardinality(S) <= 1
  <2>1. CASE S = {}
    BY <1>2, <2>1
  <2>2. CASE S # {}
    <3> PICK x : x \in S
      BY Zenon, <2>2
    <3>1. S = {x}
      BY Zenon, <1>4
    <3>2. Cardinality(S) = 1
      BY Zenon, <3>1, FS_Singleton
    <3> QED
      BY <3>2
  <2> QED
    BY Zenon, <2>1, <2>2
<1> QED
  BY Zenon, <1>1, <1>2, <1>3, <1>4 DEF Small

\* async_logger.cpp, enqueue, the overflow policies, the writer and shutdown: the inductive
\* invariant behind the results below.
THEOREM LoggerInvariantHolds == Spec => []AInv
<1>1. Init => AInv
  BY Zenon, InvInit, CountingHolds
<1>2. AInv /\ [Next]_vars => AInv'
  BY Zenon, InvStep, CountingHolds
<1> QED
  BY <1>1, <1>2, PTL DEF Spec

\* async_logger.cpp, shutdown and the destructor: every message has one fate and the drop
\* counter is exact; a shutdown that joins the writer loses at most the one message of each
\* producer whose enqueue had passed the check of m_shutdown_requested; and nothing is freed
\* while the writer runs.
THEOREM ShutdownStaysGentle == Spec => []ShutdownLosesLittle
<1>1. AInv => ShutdownLosesLittle
  BY Zenon, InvMeansOneFate, InvMeansLittleLost, InvMeansFreedAfter, CountingHolds
     DEF ShutdownLosesLittle
<1> QED
  BY <1>1, LoggerInvariantHolds, PTL

\* async_logger.cpp, the state of the logger: every variable keeps its type, the queue never
\* holds more than its capacity and a batch never more than m_config.batch_size.
THEOREM LoggerTypesHold == Spec => []TypeOK
<1>1. AInv => TypeOK
  BY Zenon, InvMeansTypes
<1> QED
  BY <1>1, LoggerInvariantHolds, PTL

\* Sets of producers and of cells have the sizes one expects.
LEMMA SizesHold ==
  FewCounted /\ QueueSize /\ Images /\ \A S \in SUBSET Producers : Cardinality(S) = 0 => S = {}
<1>1. FewCounted
  <2>1. ASSUME NEW S \in SUBSET Producers
        PROVE  IsFiniteSet(S) /\ Cardinality(S) \in Nat /\ Cardinality(S) <= Cardinality(Producers)
    BY Zenon, LoggerAssumption, FS_Subset, FS_CardinalityType
  <2> QED
    BY Zenon, <2>1 DEF FewCounted
<1>2. QueueSize
  <2>1. ASSUME NEW a \in Nat, NEW b \in Nat, a <= b
        PROVE  IsFiniteSet(a .. (b - 1)) /\ Cardinality(a .. (b - 1)) = b - a
    <3>1. a \in Int /\ b - 1 \in Int
      OBVIOUS
    <3>2. /\ IsFiniteSet(a .. (b - 1))
          /\ Cardinality(a .. (b - 1)) = IF a > b - 1 THEN 0 ELSE (b - 1) - a + 1
      BY Zenon, <3>1, FS_Interval
    <3> QED
      BY <2>1, <3>2
  <2> QED
    BY Zenon, <2>1 DEF QueueSize
<1>3. Images
  <2>1. ASSUME NEW S, NEW T, NEW f, IsFiniteSet(S), f \in [S -> T],
               \A y \in T : \E x \in S : f[x] = y, \A x, y \in S : f[x] = f[y] => x = y
        PROVE  Cardinality(T) = Cardinality(S)
    <3>1. DOMAIN f = S
      BY <2>1
    <3>2. f \in Surjection(S, T) /\ f \in Injection(S, T)
      BY Zenon, <2>1, <3>1 DEF Surjection, Injection, IsInjective
    <3> QED
      BY Zenon, <2>1, <3>2, FS_Surjection
  <2> QED
    BY Zenon, <2>1 DEF Images
<1>4. ASSUME NEW S \in SUBSET Producers, Cardinality(S) = 0 PROVE S = {}
  BY Zenon, <1>1, <1>4, FS_EmptySet DEF FewCounted
<1> QED
  BY Zenon, <1>1, <1>2, <1>3, <1>4

\* async_logger.cpp, enqueue, writer_thread_func and flush_with_timeout: the invariant of the
\* pending count, of the writer's sleep and of the order of messages.
LInv == AInv /\ Exact /\ Alert /\ Ordered

\* A logger just made has nothing pending.
LEMMA LInvInit ==
  ASSUME Init
  PROVE  LInv
<1>1. AInv
  BY Zenon, InvInit, CountingHolds
<1>2. /\ pc[Writer] = "loop" /\ asleep = {} /\ DOMAIN cell = {} /\ \A p \in Producers : pc[p] = "idle"
      /\ head = 0 /\ tail = 0 /\ m_pending_messages = 0 /\ written = <<>>
  BY ProcsApart DEF Init, QueueInit
<1>3. batch[Writer] = <<>>
  BY Zenon, ProcsApart DEF Init
<1>4. Counted = {} /\ Cardinality({}) = 0 /\ Taken = 0
  BY Zenon, <1>2, <1>3, NoMessages, CountingHolds DEF Counted, Taken
<1>5. Pending = 0
  BY <1>2, <1>4 DEF Pending
<1>6. Exact
  BY Zenon, <1>2, <1>5 DEF Exact
<1>7. Alert
  BY Zenon, <1>2 DEF Alert
<1>8. Ordered
  <2>1. DOMAIN <<>> = {}
    OBVIOUS
  <2>2. InFile = {} /\ InBatch(Writer) = {} /\ InQueue = {}
    BY Zenon, <1>2, <1>3, NoMessages DEF InFile, InBatch, InQueue
  <2> QED
    BY Zenon, <1>2, <1>3, <2>1, <2>2 DEF Ordered, InOrder, Sorted
<1> QED
  BY Zenon, <1>1, <1>6, <1>7, <1>8 DEF LInv

\* Every step keeps it.
LEMMA LInvStep ==
  ASSUME LInv, [Next]_vars
  PROVE  LInv'
<1>1. AInv /\ Exact /\ Alert /\ Ordered
  BY Zenon DEF LInv
<1>2. AInv'
  BY Zenon, <1>1, InvStep, CountingHolds
<1>3. Exact'
  BY Zenon, <1>1, <1>2, ExactStep, CountingHolds, SizesHold
<1>4. Alert'
  BY Zenon, <1>1, <1>2, AlertStep, SizesHold
<1>5. Ordered'
  BY Zenon, <1>1, <1>2, OrderStep
<1> QED
  BY Zenon, <1>2, <1>3, <1>4, <1>5 DEF LInv

\* The invariant behind the last three results.
LEMMA LInvHolds == Spec => []LInv
<1>1. Init => LInv
  BY Zenon, LInvInit
<1>2. LInv /\ [Next]_vars => LInv'
  BY Zenon, LInvStep
<1> QED
  BY <1>1, <1>2, PTL DEF Spec

\* async_logger.cpp, enqueue and writer_thread_func: m_pending_messages is exact until it is forced
\* to zero, whatever the overflow policy, and never wraps; and no wake-up is lost: a writer that
\* sleeps un-notified over a published message has a producer about to wake it, and one that sleeps
\* over a shutdown has shutdown about to.
THEOREM WakeupsStayExact == Spec => []WakeupsAreExact
<1>1. LInv => WakeupsAreExact
  BY Zenon, InvMeansTypes, ExactMeansPending, AlertMeansWoken, SizesHold DEF LInv, WakeupsAreExact
<1> QED
  BY <1>1, LInvHolds, PTL

\* async_logger.cpp, the overflow policies and write_batch: every message has one fate, and the
\* messages of one producer are in the file in the order it logged them, until shutdown begins and
\* unless producers write themselves.
THEOREM FatesStayOrderly == Spec => []FatesAreOrderly
<1>1. LInv => FatesAreOrderly
  BY Zenon, InvMeansOneFate DEF LInv, Ordered, InOrder, Ordering, Sorted, Before, FatesAreOrderly, ProducerOrder
<1> QED
  BY <1>1, LInvHolds, PTL

\* async_logger.cpp, flush_with_timeout: a flush that returns true before any shutdown, with a good
\* file, leaves every message accepted before it began in the file or evicted.
THEOREM FlushStaysTruthful == Spec => [][TruthfulStep]_vars
<1>1. LInv /\ [Next]_vars => TruthfulStep
  BY Zenon, FlushTruthful, SizesHold DEF LInv
<1> QED
  BY <1>1, LInvHolds, PTL DEF Spec
=============================================================================
