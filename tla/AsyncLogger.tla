------------------------------ MODULE AsyncLogger ------------------------------
(***************************************************************************)
(* AsyncLogger (internal/async_logger.cpp): producers hand messages to a   *)
(* writer thread through the queue, count them in m_pending_messages,      *)
(* apply the overflow policy, and wake the writer; flush_with_timeout      *)
(* waits for the count to reach zero; shutdown stops and joins the writer, *)
(* or detaches it under the loader lock, and drains what is left.          *)
(*                                                                         *)
(* The queue is the numbered queue that the ring implements (modules       *)
(* LogQueue and MPMCQueue).  Steps are single atomic accesses, or critical *)
(* sections of m_flush_mutex and *m_log_mutex.  Time is not modelled: a    *)
(* timed wait may end at any moment.                                       *)
(***************************************************************************)
EXTENDS LogQueue, Sequences, FiniteSets, Functions

CONSTANTS Producers,
          Quota,      \* producer -> number of messages it logs
          Policies,   \* overflow policies to consider, one per execution
          BatchSize,  \* m_config.batch_size
          Budgets,    \* how many messages a batch may hold when memory is short
          Events,     \* what may happen besides logging: "flush", "shutdown", "loader lock"
                      \* (shutdown runs under it), "bad stream"
          Width       \* m_pending_messages is Width bits wide

Writer  == "writer"
Stopper == "stopper"
Flusher == "flusher"
Procs   == Producers \cup {Writer, Stopper, Flusher}

ASSUME LoggerAssumption ==
  /\ IsFiniteSet(Producers) /\ Producers \cap {Writer, Stopper, Flusher} = {}
  /\ Quota \in [Producers -> Nat]
  /\ \A p \in Producers : \A k \in 1 .. Quota[p] : <<p, k>> \in Items
  /\ Policies \subseteq {"DropNewest", "DropOldest", "Block", "SyncFallback"}
  /\ Capacity \in Nat \ {0} /\ BatchSize \in Nat

\* The counter is wide enough for all that can be pending at once.
ASSUME WidthAssumption ==
  2 ^ Width \in Nat /\ Capacity + Cardinality(Producers) + BatchSize < 2 ^ Width

VARIABLES overflow_policy,
          m_running, m_shutdown_requested, m_writer_waiting, m_writer_detached,
          m_pending_messages, m_dropped_messages,
          pc,        \* process -> where it is
          asleep,    \* processes blocked in m_flush_cv
          parking,   \* the writer holds m_flush_mutex on its way into the wait
          batch,     \* Writer, Stopper -> the messages of its current batch
          enq,       \* the writer's local copy of m_enqueue_pos in empty()
          sent,      \* producer -> number of messages it has begun to log
          num,       \* producer -> cell it claimed, or evicts
          written,   \* the messages in the file, in order
          m_file_stream, \* "good" or "bad"
          accepted, refused, evicted, \* messages by fate
          snapshot   \* messages accepted before the current flush began

control == <<m_running, m_shutdown_requested, m_writer_waiting, m_writer_detached, overflow_policy>>
counts  == <<m_pending_messages, m_dropped_messages>>
fates   == <<accepted, refused, evicted>>
vars == <<queueVars, control, counts, fates, pc, asleep, parking, batch, enq, sent, num,
          written, m_file_stream, snapshot>>

TypeOK ==
  /\ overflow_policy \in Policies
  /\ {m_running, m_shutdown_requested, m_writer_waiting, m_writer_detached, parking} \subseteq BOOLEAN
  /\ m_pending_messages \in 0 .. (2 ^ Width - 1)
  /\ m_dropped_messages \in Nat
  /\ tail - head \in 0 .. Capacity /\ DOMAIN cell = head .. (tail - 1)
  /\ asleep \subseteq {Writer, Flusher}
  /\ \A w \in {Writer, Stopper} : Len(batch[w]) <= BatchSize
  /\ \A p \in Producers : sent[p] \in 0 .. Quota[p]
  /\ m_file_stream \in {"good", "bad"}
  /\ accepted \cup refused \cup evicted \subseteq Items

Init ==
  /\ QueueInit
  /\ overflow_policy \in Policies
  /\ m_running = TRUE /\ m_shutdown_requested = FALSE /\ m_writer_waiting = FALSE
  /\ m_writer_detached = FALSE
  /\ m_pending_messages = 0 /\ m_dropped_messages = 0
  /\ pc = [x \in Procs |-> IF x = Writer THEN "loop" ELSE "idle"]
  /\ asleep = {} /\ parking = FALSE
  /\ batch = [w \in {Writer, Stopper} |-> <<>>]
  /\ enq = 0
  /\ sent = [p \in Producers |-> 0]
  /\ num = [p \in Producers |-> 0]
  /\ written = <<>> /\ m_file_stream = "good"
  /\ accepted = {} /\ refused = {} /\ evicted = {} /\ snapshot = {}

Goto(x, from, to) == pc[x] = from /\ pc' = [pc EXCEPT ![x] = to]

\* fetch_add and fetch_sub on m_pending_messages.
AddPending(n) == m_pending_messages' = (m_pending_messages + n) % 2 ^ Width

\* The object is there for its callers until its destructor has run.
Alive == pc[Stopper] \notin {"freed", "leaked"}

\* A step of x that takes m_flush_mutex and releases it.
LockFlush(x) == ~ parking

NotifyAll == asleep' = {}

\* write_batch: everything, if the stream is good.
Write(ms) == written' = IF m_file_stream = "good" THEN written \o ms ELSE written

-----------------------------------------------------------------------------
(* enqueue and handle_overflow *)

Message(p) == <<p, sent[p]>>

Accept(p) == accepted' = accepted \cup {Message(p)} /\ UNCHANGED <<refused, evicted>>
Refuse(p) == refused' = refused \cup {Message(p)} /\ UNCHANGED <<accepted, evicted>>
Drop == m_dropped_messages' = m_dropped_messages + 1

others == <<control, asleep, parking, batch, enq, m_file_stream, snapshot>>

\* enqueue begins; the shutdown flag is looked at once.
Enqueue(p) ==
  /\ sent[p] < Quota[p]
  /\ Alive
  /\ Goto(p, "idle", IF m_shutdown_requested THEN "sync" ELSE "count")
  /\ sent' = [sent EXCEPT ![p] = @ + 1]
  /\ UNCHANGED <<queueVars, counts, fates, num, written, others>>

\* After shutdown was requested, and under SyncFallback, the producer writes itself.
WriteSync(p) ==
  /\ Goto(p, "sync", "idle")
  /\ Write(<<Message(p)>>)
  /\ IF m_file_stream = "good" THEN Accept(p) ELSE Refuse(p)
  /\ UNCHANGED <<queueVars, counts, sent, num, others>>

\* The pre-increment, before the first try_push and before the retries of Block.
Count(p) ==
  /\ pc[p] \in {"count", "recount"}
  /\ pc' = [pc EXCEPT ![p] = IF pc[p] = "count" THEN "push" ELSE "retry"]
  /\ AddPending(1)
  /\ UNCHANGED <<queueVars, m_dropped_messages, fates, sent, num, written, others>>

\* try_push wins a cell: from enqueue, from the retries of Block, after an eviction.
PushClaims(p) ==
  /\ pc[p] \in {"push", "retry", "repush"}
  /\ pc' = [pc EXCEPT ![p] = "publish"]
  /\ Claim(Message(p))
  /\ num' = [num EXCEPT ![p] = tail]
  /\ UNCHANGED <<counts, fates, sent, written, others>>

\* try_push fails, after an eviction for good.
PushRefused(p) ==
  /\ Full
  /\ Goto(p, "push", "undo") \/ Goto(p, "repush", "giveup")
  /\ UNCHANGED <<queueVars, counts, fates, sent, num, written, others>>

\* Block: the deadline has passed, whatever the last try found.
BlockTimeout(p) ==
  /\ Goto(p, "retry", "giveup")
  /\ UNCHANGED <<queueVars, counts, fates, sent, num, written, others>>

\* The pre-increment is undone, before handle_overflow or before giving up.
Uncount(p) ==
  /\ \/ Goto(p, "undo", [DropNewest |-> "drop", DropOldest |-> "evict", Block |-> "recount",
                         SyncFallback |-> "sync"][overflow_policy])
     \/ Goto(p, "giveup", "drop")
  /\ AddPending(-1)
  /\ UNCHANGED <<queueVars, m_dropped_messages, fates, sent, num, written, others>>

PushPublishes(p) ==
  /\ Goto(p, "publish", "notify")
  /\ Publish(num[p])
  /\ UNCHANGED <<counts, fates, sent, num, written, others>>

\* notify_writer looks at m_writer_waiting; enqueue returns true if nobody waits.
LookForWriter(p) ==
  /\ Goto(p, "notify", IF m_writer_waiting THEN "wake" ELSE "idle")
  /\ IF m_writer_waiting THEN UNCHANGED fates ELSE Accept(p)
  /\ UNCHANGED <<queueVars, counts, sent, num, written, others>>

WakeWriter(p) ==
  /\ Goto(p, "wake", "idle")
  /\ LockFlush(p)
  /\ NotifyAll
  /\ Accept(p)
  /\ UNCHANGED <<queueVars, control, counts, parking, batch, enq, sent, num, written, m_file_stream, snapshot>>

\* The message is counted as dropped and enqueue returns false.
DropNew(p) ==
  /\ Goto(p, "drop", "idle")
  /\ Drop
  /\ Refuse(p)
  /\ UNCHANGED <<queueVars, m_pending_messages, sent, num, written, others>>

\* DropOldest: try_pop, which may find the oldest cell gone or not yet published.
EvictTakes(p) ==
  /\ Goto(p, "evict", "evicting")
  /\ Take
  /\ num' = [num EXCEPT ![p] = head]
  /\ UNCHANGED <<counts, fates, sent, written, others>>

EvictFinds(p) ==
  /\ Goto(p, "evict", "drop")
  /\ ~ Ready
  /\ UNCHANGED <<queueVars, counts, fates, sent, num, written, others>>

EvictFrees(p) ==
  /\ Goto(p, "evicting", "repush")
  /\ \E h \in held : /\ h.pos = num[p]
                     /\ Free(h)
                     /\ evicted' = evicted \cup {h.item}
  /\ Drop
  /\ UNCHANGED <<m_pending_messages, accepted, refused, sent, num, written, others>>

Produce(p) == \/ WriteSync(p) \/ Count(p) \/ PushClaims(p) \/ PushRefused(p)
              \/ Uncount(p)
              \/ PushPublishes(p) \/ LookForWriter(p) \/ WakeWriter(p)
              \/ DropNew(p)
              \/ EvictTakes(p) \/ EvictFinds(p) \/ EvictFrees(p)

-----------------------------------------------------------------------------
(* try_pop_batch and write_batch, of the writer and of drain_remaining *)

production == <<m_dropped_messages, fates, sent, num, snapshot, overflow_policy, m_file_stream>>

PopTakes(w) ==
  /\ Goto(w, "pop", "popping")
  /\ Len(batch[w]) < BatchSize
  /\ Take
  /\ batch' = [batch EXCEPT ![w] = Append(@, cell[head].item)]
  /\ UNCHANGED <<control, m_pending_messages, asleep, parking, enq, written, production>>

PopFrees(w) ==
  /\ Goto(w, "popping", "pop")
  /\ \E h \in held : h.item = batch[w][Len(batch[w])] /\ Free(h)
  /\ UNCHANGED <<control, m_pending_messages, asleep, parking, batch, enq, written, production>>

\* The batch is complete: the queue is empty, or the budget is used up.
PopEnds(w) ==
  /\ ~ Ready \/ Len(batch[w]) \in Budgets \cup {BatchSize}
  /\ Goto(w, "pop", IF batch[w] # <<>> THEN "write" ELSE IF w = Writer THEN "park" ELSE "zero")
  /\ UNCHANGED <<queueVars, control, m_pending_messages, asleep, parking, batch, enq, written, production>>

\* drain_remaining keeps the count as it is.
WriteBatch(w) ==
  /\ Goto(w, "write", IF w = Writer THEN "uncount" ELSE "pop")
  /\ Write(batch[w])
  /\ batch' = IF w = Writer THEN batch ELSE [batch EXCEPT ![w] = <<>>]
  /\ UNCHANGED <<queueVars, control, m_pending_messages, asleep, parking, enq, production>>

\* The count goes to zero, whatever it was, at the end of the writer and of shutdown.
ForceZero(w) ==
  /\ Goto(w, "zero", "done")
  /\ LockFlush(w)
  /\ m_pending_messages' = 0
  /\ NotifyAll
  /\ UNCHANGED <<queueVars, control, parking, batch, enq, written, production>>

-----------------------------------------------------------------------------
(* writer_thread_func *)

writerIdle == <<queueVars, m_pending_messages, batch, written, production>>

\* The loop condition: m_running, then empty(), which loads one position after the other.
LoopLooks ==
  /\ Goto(Writer, "loop", IF m_running THEN "pop" ELSE "empty")
  /\ UNCHANGED <<control, asleep, parking, enq, writerIdle>>

EmptyLoads ==
  /\ Goto(Writer, "empty", "emptied")
  /\ enq' = tail
  /\ UNCHANGED <<control, asleep, parking, writerIdle>>

EmptyCompares ==
  /\ Goto(Writer, "emptied", IF head >= enq THEN "zero" ELSE "pop")
  /\ UNCHANGED <<control, asleep, parking, enq, writerIdle>>

UncountBatch ==
  /\ Goto(Writer, "uncount", "signal")
  /\ LockFlush(Writer)
  /\ AddPending(- Len(batch[Writer]))
  /\ UNCHANGED <<queueVars, control, asleep, parking, batch, enq, written, production>>

SignalFlushed ==
  /\ Goto(Writer, "signal", "loop")
  /\ NotifyAll
  /\ batch' = [batch EXCEPT ![Writer] = <<>>]
  /\ UNCHANGED <<queueVars, control, m_pending_messages, parking, enq, written, production>>

\* The writer does not say that it is about to wait.
ParkUnannounced ==
  /\ Goto(Writer, "park", "pending?")
  /\ LockFlush(Writer)
  /\ parking' = TRUE
  /\ UNCHANGED <<control, asleep, enq, writerIdle>>

\* The mutex is taken and m_writer_waiting published; the spins before it change nothing.
Park ==
  /\ Goto(Writer, "park", "pending?")
  /\ LockFlush(Writer)
  /\ parking' = TRUE
  /\ m_writer_waiting' = TRUE
  /\ UNCHANGED <<m_running, m_shutdown_requested, m_writer_detached, asleep, enq, writerIdle>>

\* The wait predicate, first half; the second half blocks and releases the mutex.
CheckPending ==
  /\ Goto(Writer, "pending?", IF m_pending_messages # 0 THEN "unpark" ELSE "running?")
  /\ UNCHANGED <<control, asleep, parking, enq, writerIdle>>

CheckRunning ==
  /\ Goto(Writer, "running?", IF m_running THEN "asleep" ELSE "unpark")
  /\ asleep' = IF m_running THEN asleep \cup {Writer} ELSE asleep
  /\ parking' = ~ m_running
  /\ UNCHANGED <<control, enq, writerIdle>>

\* A notification, or a spurious wake: the predicate is checked again under the mutex.
WriterWakes ==
  /\ Goto(Writer, "asleep", "pending?")
  /\ Writer \notin asleep
  /\ ~ parking
  /\ parking' = TRUE
  /\ UNCHANGED <<control, asleep, enq, writerIdle>>

\* flush_interval has passed.
WriterTimeout ==
  /\ Goto(Writer, "asleep", "unpark")
  /\ LockFlush(Writer)
  /\ parking' = TRUE
  /\ asleep' = asleep \ {Writer}
  /\ UNCHANGED <<control, enq, writerIdle>>

Unpark ==
  /\ Goto(Writer, "unpark", "loop")
  /\ m_writer_waiting' = FALSE
  /\ parking' = FALSE
  /\ UNCHANGED <<m_running, m_shutdown_requested, m_writer_detached, asleep, enq, writerIdle>>

Consume(w) == PopTakes(w) \/ PopFrees(w) \/ PopEnds(w) \/ WriteBatch(w) \/ ForceZero(w)

Drive == \/ Consume(Writer)
         \/ LoopLooks \/ EmptyLoads \/ EmptyCompares
         \/ UncountBatch \/ SignalFlushed
         \/ Park \/ CheckPending \/ CheckRunning \/ WriterWakes \/ Unpark

-----------------------------------------------------------------------------
(* shutdown and ~AsyncLogger *)

stopIdle == <<queueVars, m_writer_waiting, overflow_policy, parking, batch, enq, written,
              production>>

\* A second caller finds the flag set and returns.
RequestShutdown ==
  /\ "shutdown" \in Events
  /\ Goto(Stopper, "idle", "stop")
  /\ m_shutdown_requested' = TRUE
  /\ UNCHANGED <<m_running, m_writer_detached, m_pending_messages, asleep, stopIdle>>

StopRunning ==
  /\ Goto(Stopper, "stop", "wake")
  /\ m_running' = FALSE
  /\ UNCHANGED <<m_shutdown_requested, m_writer_detached, m_pending_messages, asleep, stopIdle>>

\* shutdown relies on the flush interval.
StopUnnotified ==
  /\ Goto(Stopper, "wake", "join")
  /\ LockFlush(Stopper)
  /\ UNCHANGED <<m_running, m_shutdown_requested, m_writer_detached, m_pending_messages, asleep, stopIdle>>

WakeForStop ==
  /\ Goto(Stopper, "wake", "join")
  /\ LockFlush(Stopper)
  /\ NotifyAll
  /\ UNCHANGED <<m_running, m_shutdown_requested, m_writer_detached, m_pending_messages, stopIdle>>

Join ==
  /\ Goto(Stopper, "join", "pop")
  /\ pc[Writer] = "done"
  /\ UNCHANGED <<m_running, m_shutdown_requested, m_writer_detached, m_pending_messages, asleep, stopIdle>>

\* The detach is not latched.
DetachUnlatched ==
  /\ "loader lock" \in Events
  /\ Goto(Stopper, "join", "pop")
  /\ UNCHANGED <<m_running, m_shutdown_requested, m_writer_detached, m_pending_messages, asleep, stopIdle>>

\* Under the loader lock the writer is left running.
Detach ==
  /\ "loader lock" \in Events
  /\ Goto(Stopper, "join", "pop")
  /\ m_writer_detached' = TRUE
  /\ UNCHANGED <<m_running, m_shutdown_requested, m_pending_messages, asleep, stopIdle>>

\* ~AsyncLogger, once no other thread uses the object: free it, or leak it to the writer.
Destroy ==
  /\ Goto(Stopper, "done", IF m_writer_detached THEN "leaked" ELSE "freed")
  /\ \A p \in Producers : pc[p] = "idle"
  /\ pc[Flusher] \in {"idle", "flushed", "late"}
  /\ UNCHANGED <<m_running, m_shutdown_requested, m_writer_detached, m_pending_messages, asleep, stopIdle>>

Stop == StopRunning \/ WakeForStop \/ Join \/ Consume(Stopper)

-----------------------------------------------------------------------------
(* flush_with_timeout *)

flushIdle == <<queueVars, control, counts, fates, parking, batch, enq, sent, num, written,
               m_file_stream>>

\* A logger that does not run any more reports success at once.
Flush ==
  /\ "flush" \in Events
  /\ pc[Flusher] \in {"idle", "flushed", "late"} /\ Alive
  /\ pc' = [pc EXCEPT ![Flusher] = IF m_running THEN "lock" ELSE "flushed"]
  /\ snapshot' = accepted
  /\ UNCHANGED <<asleep, flushIdle>>

\* The flush waits for an empty queue.
FlushLooksAtQueue ==
  /\ LockFlush(Flusher)
  /\ \/ /\ Goto(Flusher, "lock", "flushed") /\ head = tail
        /\ UNCHANGED asleep
     \/ /\ Goto(Flusher, "lock", "asleep") /\ head # tail
        /\ asleep' = asleep \cup {Flusher}
  /\ UNCHANGED <<snapshot, flushIdle>>

FlushLooks ==
  /\ LockFlush(Flusher)
  /\ \/ /\ Goto(Flusher, "lock", "flushed") /\ m_pending_messages = 0
        /\ UNCHANGED asleep
     \/ /\ Goto(Flusher, "lock", "asleep") /\ m_pending_messages # 0
        /\ asleep' = asleep \cup {Flusher}
  /\ UNCHANGED <<snapshot, flushIdle>>

FlushWakes ==
  /\ Goto(Flusher, "asleep", "lock")
  /\ Flusher \notin asleep
  /\ UNCHANGED <<asleep, snapshot, flushIdle>>

\* The timeout is up: the answer is what the predicate says now.
FlushTimeout ==
  /\ LockFlush(Flusher)
  /\ Goto(Flusher, "asleep", IF m_pending_messages = 0 THEN "flushed" ELSE "late")
  /\ asleep' = asleep \ {Flusher}
  /\ UNCHANGED <<snapshot, flushIdle>>

\* A write or a flush of the file fails; the stream stays bad.
StreamFails ==
  /\ "bad stream" \in Events
  /\ m_file_stream = "good"
  /\ m_file_stream' = "bad"
  /\ UNCHANGED <<queueVars, control, counts, fates, pc, asleep, parking, batch, enq, sent, num,
                 written, snapshot>>

-----------------------------------------------------------------------------
Next ==
  \/ \E p \in Producers : Enqueue(p) \/ Produce(p) \/ BlockTimeout(p)
  \/ Drive \/ WriterTimeout
  \/ RequestShutdown \/ Stop \/ Detach \/ Destroy
  \/ Flush \/ FlushLooks \/ FlushWakes \/ FlushTimeout
  \/ StreamFails

Spec == Init /\ [][Next]_vars

\* Threads inside an operation keep running.  The file need not fail, nobody need log or
\* flush, no wait need time out, and nobody need hold the loader lock.
Fairness ==
  /\ \A p \in Producers : WF_vars(Produce(p))
  /\ WF_vars(Drive)
  /\ WF_vars(Stop)

-----------------------------------------------------------------------------
(* Properties. *)

InQueue == {cell[n].item : n \in DOMAIN cell}
Batched(w) == Range(batch[w])

\* Producers whose message is counted but not in the queue, or that hold the count of the
\* message they evicted.
Counted == {p \in Producers : pc[p] \in {"push", "undo", "retry", "giveup", "evicting", "repush"}}

\* m_pending_messages is exact until it is forced to zero: queued messages, the batch being
\* written, pushes in flight, and evictions that pass the count of the old message on.  So
\* it never wraps and a flush never sees zero while a message is queued.
PendingIsExact ==
  pc[Writer] # "done" /\ pc[Stopper] \in {"idle", "stop", "wake", "join"} =>
    m_pending_messages =
      Cardinality(InQueue) + Cardinality(Counted)
        + (IF pc[Writer] \in {"signal"} THEN 0 ELSE Len(batch[Writer]))

\* The handshake of m_writer_waiting closes the lost-wakeup window without a timeout: when
\* the writer sleeps un-notified although a message is published, a producer is about to
\* wake it; when it sleeps although m_running is false, shutdown is.
NoLostWakeup ==
  Writer \in asleep =>
    /\ Ready => \E p \in Producers : pc[p] \in {"notify", "wake"}
    /\ ~ m_running => pc[Stopper] = "wake"

\* flush_with_timeout that returns true before any shutdown means it: what was accepted
\* when it began is in the file, unless DropOldest evicted it.
TruthfulStep ==
  pc[Flusher] # "flushed" /\ pc'[Flusher] = "flushed"
    /\ ~ m_shutdown_requested /\ m_file_stream = "good"
  => snapshot \subseteq Range(written) \cup evicted

\* No message is lost or duplicated without being accounted for: it is accepted and in one
\* place, or evicted or refused; and m_dropped_messages counts exactly those that were
\* dropped.
EveryMessageHasOneFate ==
  /\ \A i, j \in DOMAIN written : written[i] = written[j] => i = j
  /\ refused \cap (accepted \cup evicted \cup Range(written) \cup InQueue) = {}
  /\ evicted \cap (InQueue \cup Range(written)) = {}
  /\ m_file_stream = "good" =>
       accepted \subseteq Range(written) \cup evicted \cup InQueue \cup Batched(Writer)
                           \cup Batched(Stopper) \cup {h.item : h \in held}
  /\ m_file_stream = "good" => m_dropped_messages = Cardinality(refused \cup evicted)

\* Shutdown loses at most one accepted message of each producer: one whose enqueue passed
\* the shutdown check before the flag was set.
AtMostOneLostPerProducer ==
  pc[Writer] = "done" /\ pc[Stopper] \in {"done", "freed", "leaked"} =>
    \A p \in Producers : Cardinality({m \in InQueue : m[1] = p}) <= 1

\* Messages of one producer reach the file in the order it logged them, until shutdown
\* begins and as long as it never writes itself.
ProducerOrder ==
  ~ m_shutdown_requested /\ overflow_policy # "SyncFallback" =>
    \A i, j \in DOMAIN written :
      i < j /\ written[i][1] = written[j][1] => written[i][2] < written[j][2]

\* The members are freed only once the writer is done with them; a detached writer keeps
\* them.
FreedAfterWriter == pc[Stopper] = "freed" => pc[Writer] = "done"

\* Every accepted message is written or evicted in the end, without a timeout, while no
\* shutdown comes in between and the file is good.
AcceptedIsWritten ==
  \A m \in Items :
    m \in accepted ~> m \in Range(written) \cup evicted \/ m_shutdown_requested
                        \/ m_file_stream = "bad"

\* shutdown returns, without a timeout: the writer it joins always exits.
ShutdownEnds == m_shutdown_requested ~> pc[Stopper] \in {"done", "freed", "leaked"}

\* What the interface says of flush_with_timeout: "true if all messages were flushed".
TrueMeansFlushed ==
  [][pc[Flusher] # "flushed" /\ pc'[Flusher] = "flushed" /\ m_file_stream = "good"
     => snapshot' \subseteq Range(written) \cup evicted]_vars

\* async_logger.cpp, enqueue and writer_thread_func: the pending count is exact and no wake-up is lost.
WakeupsAreExact == TypeOK /\ PendingIsExact /\ NoLostWakeup

\* async_logger.cpp, the overflow policies: every message has one fate, and those of a producer
\* that are written keep their order.
FatesAreOrderly == EveryMessageHasOneFate /\ ProducerOrder

\* async_logger.cpp, shutdown and the destructor: what shutdown may lose is one message of each
\* producer, and nothing is freed under the writer.
ShutdownLosesLittle == EveryMessageHasOneFate /\ AtMostOneLostPerProducer /\ FreedAfterWriter

\* async_logger.cpp, the writer and shutdown: accepted messages are written and shutdown returns.
WriterFinishes == AcceptedIsWritten /\ ShutdownEnds
=============================================================================
