------------------------------ MODULE MCLogging ------------------------------
(* The logger, one layer at a time: the ring its producers push into, the asynchronous writer  *)
(* behind it, the strings its messages own, the front end that switches between synchronous    *)
(* and asynchronous writing; and the other ring that threads write into without a lock, the    *)
(* sample buffer of the profiler.                                                              *)
(* A behaviour chooses a component and is a behaviour of that component.                       *)
EXTENDS MPMCQueue, Sequences, TLC

CONSTANTS Null, p1, p2, t1, t2, t3, o1, o2, o3

VARIABLES component,
          writePos, ring, w, records, reset, resets, reader, exported, excused,
          head, tail, cell, held, overflow_policy, m_running, m_shutdown_requested, m_writer_waiting,
          m_writer_detached, m_pending_messages, m_dropped_messages, place, asleep, parking, batch,
          enq, sent, num, written, m_file_stream, accepted, refused, evicted, snapshot,
          scenario, shutdownCalled, enabled, current, asyncMutex, level, stream, delivered, taken,
          queue, writer, leaked, late, overlap, th,
          blocks, str, m_heap_fallback_count, m_pool_mutex, obj, job, texts

samples == <<writePos, ring, w, records, reset, resets, reader, exported, excused>>
async == <<head, tail, cell, held, overflow_policy, m_running, m_shutdown_requested, m_writer_waiting,
           m_writer_detached, m_pending_messages, m_dropped_messages, place, asleep, parking, batch,
           enq, sent, num, written, m_file_stream, accepted, refused, evicted, snapshot>>
modes == <<scenario, shutdownCalled, enabled, current, asyncMutex, level, stream, delivered, taken,
           queue, writer, leaked, late, overlap, th>>
strings == <<blocks, str, m_heap_fallback_count, m_pool_mutex, obj, job, texts>>
all == <<component, vars, samples, async, modes, strings>>

TwoWriters == {p1, p2}

Samples == INSTANCE Profiler WITH
  Writers <- TwoWriters, Capacity <- 2, MaxRecords <- 3, MaxResets <- 1

\* Two producers with three messages.
SomeQuota == p1 :> 2 @@ p2 :> 1
SomeItems == {<<p, k>> \in TwoWriters \X (1 .. 2) : k <= SomeQuota[p]}
SomeBudgets == {0, 2}
AllPolicies == {"DropNewest", "DropOldest", "Block", "SyncFallback"}
Flushing == {"flush"}

Async == INSTANCE AsyncLogger WITH
  pc <- place, Producers <- TwoWriters, Quota <- SomeQuota, Items <- SomeItems, Capacity <- 2,
  BatchSize <- 2, Budgets <- SomeBudgets, Policies <- AllPolicies, Events <- Flushing, Width <- 4

\* The same logger whose file goes bad at any time.
SpoiltPolicies == {"SyncFallback"}
Spoiling == {"flush", "bad stream"}

Spoilt == INSTANCE AsyncLogger WITH
  pc <- place, Producers <- TwoWriters, Quota <- SomeQuota, Items <- SomeItems, Capacity <- 2,
  BatchSize <- 2, Budgets <- SomeBudgets, Policies <- SpoiltPolicies, Events <- Spoiling, Width <- 4

Case(a, b, c, l) == [script |-> t1 :> a @@ t2 :> b @@ t3 :> c, loader |-> l]
ModeCases ==
  {Case(<<"enable", "log", "shutdown">>, <<"enable", "log", "disable">>, <<"log", "flush", "log">>, {}),
   Case(<<"shutdown", "configure", "log">>, <<"enable", "log", "enable">>, <<"log", "disable">>, {}),
   Case(<<"enable", "disable", "enable">>, <<"log", "log">>, <<"quiet", "shutdown">>, {}),
   Case(<<"enable", "log", "disable">>, <<"log", "flush">>, <<"enable", "quiet">>, {t1}),
   Case(<<"enable", "log">>, <<"log", "disable">>, <<"shutdown", "configure">>, {t3}),
   Case(<<"enable", "log">>, <<"configure", "log">>, <<"shutdown">>, {})}
ThreeThreads == {t1, t2, t3}
ThreeLoggers == {1, 2, 3}

Modes == INSTANCE LoggerModes WITH
  accepted <- taken, Threads <- ThreeThreads, Loggers <- ThreeLoggers, Scenarios <- ModeCases,
  None <- Null

ThreeObjects == {o1, o2, o3}

Strings == INSTANCE StringPool WITH
  Threads <- TwoWriters, Objects <- ThreeObjects, SlotsPerBlock <- 1, MaxBlocks <- 2,
  MaxTexts <- 2, None <- Null

NoSamples ==
  /\ writePos = Null /\ ring = Null /\ w = Null /\ records = Null /\ reset = Null
  /\ resets = Null /\ reader = Null /\ exported = Null /\ excused = Null

NoAsync ==
  /\ head = Null /\ tail = Null /\ cell = Null /\ held = Null /\ overflow_policy = Null /\ m_running = Null
  /\ m_shutdown_requested = Null /\ m_writer_waiting = Null /\ m_writer_detached = Null
  /\ m_pending_messages = Null /\ m_dropped_messages = Null /\ place = Null /\ asleep = Null
  /\ parking = Null /\ batch = Null /\ enq = Null /\ sent = Null /\ num = Null /\ written = Null
  /\ m_file_stream = Null /\ accepted = Null /\ refused = Null /\ evicted = Null /\ snapshot = Null

NoModes ==
  /\ scenario = Null /\ shutdownCalled = Null /\ enabled = Null /\ current = Null /\ asyncMutex = Null
  /\ level = Null /\ stream = Null /\ delivered = Null /\ taken = Null /\ queue = Null
  /\ writer = Null /\ leaked = Null /\ late = Null /\ overlap = Null /\ th = Null

NoStrings ==
  /\ blocks = Null /\ str = Null /\ m_heap_fallback_count = Null /\ m_pool_mutex = Null
  /\ obj = Null /\ job = Null /\ texts = Null

MCInit ==
  /\ Init
  /\ \/ component = "queue" /\ NoSamples /\ NoAsync /\ NoModes /\ NoStrings
     \/ component = "samples" /\ Samples!Init /\ NoAsync /\ NoModes /\ NoStrings
     \/ component = "writer" /\ Async!Init /\ NoSamples /\ NoModes /\ NoStrings
     \/ component = "spoilt" /\ Spoilt!Init /\ NoSamples /\ NoModes /\ NoStrings
     \/ component = "modes" /\ Modes!Init /\ NoSamples /\ NoAsync /\ NoStrings
     \/ component = "strings" /\ Strings!Init /\ NoSamples /\ NoAsync /\ NoModes

MCNext ==
  \/ component = "queue" /\ Next /\ UNCHANGED <<component, samples, async, modes, strings>>
  \/ component = "samples" /\ Samples!Next /\ UNCHANGED <<component, vars, async, modes, strings>>
  \/ component = "writer" /\ Async!Next /\ UNCHANGED <<component, vars, samples, modes, strings>>
  \/ component = "spoilt" /\ Spoilt!Next /\ UNCHANGED <<component, vars, samples, modes, strings>>
  \/ component = "modes" /\ Modes!Next /\ UNCHANGED <<component, vars, samples, async, strings>>
  \/ component = "strings" /\ Strings!Next /\ UNCHANGED <<component, vars, samples, async, modes>>

MCSpec == MCInit /\ [][MCNext]_all

Symmetry == Permutations(Threads) \cup Permutations(Messages)

-----------------------------------------------------------------------------
\* profiler.cpp, record and export: every exported sample is that of one record() call, but for
\* a writer lapped by a turn of the ring and a reset() meanwhile; and once no record() is in
\* flight every slot is committed.
SamplesAreWhole == component = "samples" => Samples!SamplesAreWhole

\* async_logger.cpp, enqueue, the overflow policies and writer_thread_func: the pending count is
\* exact, no wake-up is lost, every message has one fate, and those of a producer that are
\* written keep their order (see AsyncLogger).
MessagesAreAccounted ==
  /\ component = "writer" => Async!WakeupsAreExact /\ Async!FatesAreOrderly
  /\ component = "spoilt" => Spoilt!WakeupsAreExact /\ Spoilt!FatesAreOrderly

\* async_logger.cpp, StringPool and LogMessage: the string of a long message is owned by one
\* message at a time, keeps its text and is accounted for (see StringPool).
StringsAreOwned == component = "strings" => Strings!StringsAreOwned

\* async_logger.cpp, flush_with_timeout: a flush that returns true means it (see AsyncLogger).
FlushIsTruthful ==
  [][ /\ component = "writer" => Async!TruthfulStep
      /\ component = "spoilt" => Spoilt!TruthfulStep]_all

\* logger.cpp, log and shutdown_internal: a line log() accepted has reached an open sink or waits
\* in a queue whose writer runs, but for the late push the code accepts; and that writer is never
\* without an owner; once shutdown() has returned and nobody configures, no writer runs and the
\* sink is closed.  A configure() that overlaps the shutdown() of another thread is excepted, as
\* are the lines a detached writer leaves behind (see LoggerModes).
AcceptedIsDelivered ==
  component = "modes" => Modes!AcceptedIsDelivered /\ Modes!WriterOutlived /\ Modes!ShutdownIsFinal
=============================================================================
