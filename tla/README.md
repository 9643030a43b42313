# Formal models of DetourModKit

TLA+ models of DetourModKit, the TLC runs that check them on small instances, and TLAPS
proofs that hold for every instance.  `PROJECT.json` maps each definition to the lines it
models and lists the components, the runs, the mutants each property was tried on, the
theorems, the hazards and the places where code and documentation disagree.

All models take atomic operations to be sequentially consistent.  Where the code uses
weaker orders the models say nothing about reorderings the C++ memory model would allow.

## The system

DetourModKit is a static library that a game mod links into its DLL.  Several threads meet
in it: the game's own threads run detours, the mod's threads install and remove hooks, and
the kit starts a log writer, an input poll thread, a cache clean-up thread, a configuration
watcher and a reload servicer.  A mod can be unloaded while the game runs, and the unload
may happen under the Windows loader lock, where nothing may be joined.

Input, memory cache and configuration log through the logger; the session tears everything
down in a fixed order; the configuration rebinds input; writes and protection guards
invalidate the memory cache; the scanner reads foreign memory under the fault guard; every
worker thread pins the module it runs in.

| Part | Module | What is hard about it |
|---|---|---|
| Hook install and teardown (`hook.cpp`, `hook_ledger.hpp`) | `HookLedger` | layers saved and restored out of order, teardown while another thread installs, failed allocations half way |
| Call gate (`hook.hpp`, `hook_backend.hpp`) | `HookGate` | a call that has pinned the gate races the destructor; re-entry |
| Hook tables and stacks (`hook.cpp`) | `HookTable` | rollback of a half-installed table over foreign layers |
| Virtual-table hooks (`hook.cpp`) | `VmtHook` | objects that outlive the clone; clones of clones; addresses used again |
| Log queue (`async_logger_queue.hpp`) | `MPMCQueue`, `LogQueue` | lock-free; stale positions; laps |
| Log message strings (`async_logger.cpp`) | `StringPool` | ownership across moves; failing growth |
| AsyncLogger (`async_logger.cpp`) | `AsyncLogger` | lost wake-ups, overflow policies, shutdown against producers |
| Logger (`logger.cpp`) | `LoggerModes` | mode switches, reconfiguration and shutdown between two critical sections |
| Profiler (`profiler.cpp`) | `Profiler` | sequence locks; two writers a lap apart; reset during an export |
| Event dispatcher (`event_dispatcher.hpp`) | `EventDispatcher` | handlers that re-enter, nested emits, failed allocations |
| Input poller, hold bindings (`input_poller.cpp`, `input_binding_gate.hpp`) | `InputHold` | edges staged under a lock and delivered after it |
| Input interception (`input_intercept.cpp`) | `InputIntercept`, `InputConsume` | retire, bounded drain, leak or free; two clocks and two samples of one pad |
| Configuration (`config.cpp`, `config_reload_gate.hpp`) | `ConfigReload` | passes that overtake each other, re-pointing against disabling, unload against both background threads |
| Configuration watcher, worker (`config_watcher.cpp`, `worker.cpp`) | `ConfigWatcher` | a kernel read that outlives its buffer; debounce; lost notifications |
| Session and bootstrap (`session.cpp`) | `Session` | loader lock, order of teardown, handles retired under users |
| Memory cache (`memory_cache.cpp`) | `CacheShard`, `MemoryCache` | freeing under readers, stale answers, three containers that must agree |
| Guarded access (`memory_guarded.cpp`) | `GuardedAccess` | the handler leaves while an access relies on it |
| Page protection (`memory_protect.cpp`, `memory_access.cpp`) | `PageProtection` | regions that differ inside one span; nested guards |
| Signatures and scan (`pattern_core.hpp`, `scan_engine.cpp`, `scan_pages.cpp`) | `AobPattern`, `PatternScan` | seams between regions, jumps and budgets, overlap and counting |
| Signature resolution (`scan_resolution.cpp`, `fork_join.hpp`) | `ScanResolve` | one answer however many threads; ambiguity; hooked prologues |
| Anchors (`anchor.cpp`) | `AnchorRegistry` | votes of dependent signals, cycles, fail-closed gate |

## The modules

Every module follows the code's names.  Steps are the code's own atomic steps: one atomic
access, one critical section, or one call into user code.  An action is a whole handler or
the whole section between two such points, with its early returns and error paths.  Data is
abstracted to what the properties tell apart: messages, paths, patterns and addresses are
model values or small numbers.

`XProofs` holds the theorems about `X`.  The `MC` modules instantiate the specifications.
Several of them check more than one component in one run: the module extends one
component, instantiates the others, and a variable `component` says which one a behaviour
belongs to; the variables of the others stay at a null value.  Such a run is the union of
the state spaces, not a composition.

### Hooks

`HookLedger`.  `HookLedger::m_targets` is `order` and `pending` (per target: the layers, and
the queue for the serialization slot).  What the first bytes of a target hold is abstracted
to whose jump it is, so `prologue`, `saved` and `trampolines` form the chain a call runs
through.  The actions are the critical sections of the ledger, the backend's accesses to
the prologue, and the branches of `inline_at_raw`, `mid_at` and `~Hook`, including failed
allocations, failed backend calls and the leak of a layer that has newer layers above it.
`Spec` lets a hook be toggled only while it is the newest layer of its target.  Nothing in
the code enforces this; `UnrestrictedSpec` drops the restriction (run `hook_toggle`).

`HookGate`.  `call` and `try_call` pin the gate, lock its recursive mutex and dispatch,
nested up to `MaxDepth`; `enable`, `disable`, `release` and `~Hook` run against them.  The
lifetime rule of `Hook::call` is assumed: the object is not destroyed during a member call.

`HookTable` runs `install_all` (pre-flight, install, rollback) and `HookStack` for one setup
thread; one install or teardown is one step, `HookLedger` opens it.  `VmtHook` clones tables,
moves objects and redirects methods; the backend is external.

### Logging and profiling

`LogQueue` is the abstract queue: numbered cells that are claimed, published and taken in
order.  `MPMCQueue` is `DynamicMPMCQueue`: loads, the look at the slot, the compare-exchange
and the publication of the sequence number are separate steps.  `ImplementsLogQueue` is the
refinement: a cell is published once its sequence number says so, and leaves the queue when
a popper wins its position.

`AsyncLogger` is built on `LogQueue`: `enqueue` and the four overflow policies,
`writer_thread_func`, `flush_with_timeout`, `shutdown` and `~AsyncLogger`, each as its
sequence of atomic accesses.  The pending count wraps at `2^Width`.  Time is not modelled: a
timed wait may end at any moment, so no safety property relies on a timeout being long
enough and no liveness property on one firing.

`StringPool` is the pool of long texts under construction, moves and destruction of
`LogMessage`.  `LoggerModes` is the front end, with an `AsyncLogger` abstracted to its queue
and the state of its writer.  A producer looks at the shutdown flag in one step and pushes in
another, so a line may enter the queue after the last drain; after a shutdown it writes to the
sink itself.  `AcceptedIsDelivered` excepts those late lines (`late`), which the comment at
`async_logger.cpp:714-718` gives up, and runs in which a `configure` overlaps the `shutdown` of
another thread (`overlap`, see the divergences).  `Profiler` is the ring of sequence-locked
samples.

### Events and input

`EventDispatcher` has two dispatchers of one type, so that they share the thread-local emit
stack.  A handler is opaque: within it the thread may emit, subscribe, reset, destroy or
clear.  A writer holds `m_writer_mutex` over two stores (list and count), and emits come
between them.  In which order an emit calls its handlers is abstracted.

`InputHold`: a thread is a stack of frames (a poll cycle, a reshape, callbacks still to fire,
a callback being run).  `gate` is `HoldGate` field by field.  `Poll` is a whole staging pass
of `poll_loop` under the shared lock; the edges it stages are delivered one by one after it,
and callers register, rebind, remove, unload, clear, release guards, take tokens and shut
down in between.  A callback may release or rebind any binding, its own included.  Two that
each retire the binding of the other, on two threads, wait for one another's gate for good;
`Entangled` says so, and `ShutdownEnds` holds in all other cases.

`InputIntercept`: the poller's thread runs a script of install, publish, subclass and
uninstall; game threads run through the detours and the window procedure.  Two uses of a
freed trampoline are outside what is checked.  Uninstall frees the hooks under a thread when it
has no memory to keep them (`flags.pressed` excuses it).  And `install_xinput` frees a new hook
at once when its `enable` fails (`input_intercept.cpp:654-657`): a game thread left over from an
earlier install may have loaded the new trampoline in between.  TLC finds this in a scenario
install, uninstall, install with a failing enable; the run's scenarios leave it out.
`ForwardsToTheGame` excepts a message that is still inside the detour when an uninstall has
ended and the next install publishes another predecessor.
`InputConsume`: the poll loop's and the detour's views of one pad, each on its own clock, with
the published rules, grace, time to live and the wheel counters.

### Configuration, session, memory

`ConfigReload`: `load` and `reload` passes with the content hash and the deferred setters, the
auto-reload slot with its generation, the servicer, the unload gate.  The watcher is seen
from here as a thread that is told of every finished save.  `ConfigWatcher` opens that thread:
start with its handshake, stop, destruction, the pump with debounce, overflow and drain, on
a `StoppableWorker`.  What the kernel does is external.  Allocations fail, and so do the log
calls that allocate: one that throws between the failed drain and `io.release()` unwinds the
bundle under a pending read, and `StorageOutlivesUse` excepts that case (`threw`).  `start` and
`stop` look at `m_impl` in one step and use it in another.  `Session`: start, ordered teardown,
bootstrap, the lifecycle thread, the three ways of detaching, `request_shutdown`.

`MemoryCache` over `CacheShard`: readers register before they look whether the cache is there,
answer from a shard, or lead or follow a `VirtualQuery`; invalidation, clean-up, start, clear,
shutdown and the exit handler run beside them.  `init_cache`, which is for set-up, is not
called while a `shutdown_cache` runs.  `GuardedAccess` is the vectored handler of the MinGW
build: installed by the first access, removed after the accesses that rely on it have left.  A
tripped guard page is armed again by a query and a protection call, each of which may fail; a
page left `bare` that way is excepted.  `PageProtection` is `write_bytes`, `write_in_place`, the
walks over regions and `ProtectGuard`.  Two threads may change one page.  When they put it back
in the order they changed it, each restores what it found, and the page keeps a protection
nobody asked for; `layers` follows who changed a page, and `crossed` holds the pages where this
happened, which `SeamsSurvive` excepts.  An invalidation may leave the snapshots of contended
shards (`unswept`).

### Scanning

`AobPattern` has the signature language and the matchers as (recursive) operators, next to a
reference definition of what a signature means; a byte token is its two nibbles, a jump its
bounds.  `PatternScan` walks the regions of a module.  `ScanResolve` is the candidate ladder with
prologue recovery and the fork-join batch, whose requests may throw and whose set-up may fail.
A request misses only if no candidate could be proved and recovery found no site that the
request accepts; recovery offers one site, so a later good one is not tried (see the
divergences).  `AnchorRegistry` is the table of
anchors, quorums, gate and fingerprints, with hashes taken to be free of collisions.  With a
required ratio of 0, slots nothing was written to do not count against a report, so that part
of the gate's property is stated for positive ratios.  The independence of a vote has the
exception its comment documents (`anchor.cpp:452-456`: an export named with its module and
without), which `SameExportTwice` excludes.

## The runs

Ten runs pass, two show a disagreement.  Every property has a mutant in `PROJECT.json`: a
plausible bug in one mapped definition under which TLC finds the property violated.

| Run | Instance | Shows |
|---|---|---|
| `hooks` | ledger: 1 target, 3 threads, 4 reservations; tables: 2 targets, 2 tables of 3 rows, 6 hooks; virtual tables: 2 threads, 3 handles, 2 objects, 3 bases, 2 methods, 4 scripts | one patcher per target, no jump into freed code, untracked targets pristine (`PatchesAreSound`); enabled layers are reached; no object on a dead clone; rollback leaves nothing of its own behind; whoever queues for the slot gets it |
| `lifecycle` | gate: 3 threads, nesting 2; watcher: 2 controllers, 2 workers, debounce 1, one fault each (an allocation, a log call, a read); session: 2 threads, 3 events, one fault each | no dispatch into a freed trampoline and an honest status; worker, kernel and session never use freed storage or dead handles; closing drains; changes are reported and sessions end |
| `logging` | ring: 3 threads, 2 messages, 2 slots, 3 pushes; logger: 2 producers, 3 messages, 2 cells, batches of 2, all policies, flushes, and once more with a file that goes bad; front end: 3 threads, 6 scripts; strings: 2 threads, 3 messages, 2 blocks; profiler: 2 writers, 2 slots, 3 records, 1 reset | exclusive slots; the ring implements `LogQueue`; exact count, no lost wake-up, one fate per message, order per producer; truthful flush; strings owned once; accepted lines are delivered; exported samples are whole |
| `async_logger_shutdown` | 2 producers, 3 messages, DropOldest, with and without the loader lock | one fate per message, at most one lost per producer, nothing freed under the writer; without a timeout, accepted messages get written and shutdown ends |
| `dispatch` | 2 threads, 2 dispatchers, 2 subscriptions, nesting 2, out of memory; interception: 2 game threads, 2 windows, 4 kinds of script with faults; consumption: 3 buttons, a trigger, a modifier, a wheel | no subscribed handler is missed, none stays behind or comes back; no use of a freed trampoline, whole rule lists, messages reach the game's window; a claimed press stays hidden from the game until released |
| `input_hold` | 2 bindings, 2 combos, 2 callers; one program registers and rewrites in place, one retires bindings by rebinding them to nothing, also from callbacks | what the consumer was told is what is held; nothing is held after a shutdown, and it ends unless callbacks wait for one another |
| `input_reshape` | 1 binding, 2 callers, 1 failed allocation, loader lock | a released guard leaves its consumer at rest; edges alternate; a current token denotes its name's entries |
| `config_reload` | 2 consumer threads, 2 watchers, servicer, 2 files, 2 items, 2 contents, 5 kinds of script | what the hash vouches for; a disable is final, an unload is quiet; everything settles |
| `memory` | cache: 3 pages of 2 bytes, 2 shards, 5 kinds of script; guarded access: 2 threads, 2 removers, 2 stripes, 2 pages, 1 change of the host or failed call; protection: 4 pages, 2 threads, 3 guards, 8 scripts, 2 of them with two threads on one page | shards consistent and never freed under a reader; no stale answer after an uncontended invalidation; no access that relies on the handler faults without it; protections restored where changes do not cross; every call returns |
| `scan` | bytes of two one-bit nibbles, memories of 6 bytes, 10 signatures, all lists of up to 4 of 6 tokens and lists at the caps, 5 region layouts; up to 4 requests on 3 threads; 33 anchors, 24 summaries | the parser accepts exactly the language and compiles what the tokens say; both matchers find the leftmost match, and the value pattern's matcher agrees; a complete scan answers as if no seam divided the range; a batch answers as one thread would, and misses only what cannot be proved or recovered; votes, vetting, gate and fingerprints are honest |
| `hook_toggle` (violation) | 1 target, 2 threads, 3 reservations | toggling a lower layer breaks newest-first teardown |
| `protect_reassign` (violation) | 4 pages, a guard assigned over its own pages | the changed protection stays for good |

**Why the bounds are enough.**  Three threads allow one that waits, one that works and one
that arrives; four reservations a layer below, one being torn down, one being installed and
one that failed.  Two slots and three pushes take the ring into its second lap.  Three
messages overflow a queue of two cells while a second producer is inside an enqueue.  Two
dispatchers and nesting two give every kind of nested emit.  Two watchers let one be joined
while the next runs; two files a re-point.  Three pages over two shards give a range that lies
in both.  Two stripes let an access move in between the reads of a sum.  Where the calls are
scripted (tables, virtual tables, front end, watcher, session, configuration, interception,
cache, protection) the scripts were chosen to bring conflicting operations together; orders of
calls that no script has are not covered.  `async_logger_shutdown` is restricted to DropOldest,
the one policy under which producers also take messages out of the queue that shutdown
drains, and to detachments of the writer before the second producer has logged.

Symmetry is used for threads, messages, dispatchers, subscriptions and callers in `logging`,
`dispatch` and `input_reshape`, which check no liveness.

**Deadlock.**  The configurations say `CHECK_DEADLOCK FALSE` because the programs really stop:
scripts, reservations or messages are used up, or the component has been shut down.  That
nobody is stuck is what the liveness properties show.

**Fairness.**  Weak fairness on the steps of a thread that is inside an operation of the kit:
the scheduler runs every thread, and user code the kit calls (originals, handlers, setters,
input callbacks) returns.  In particular: `HookLedger`, `HookGate` and `InputHold` per thread,
the poll thread included; `AsyncLogger` on each producer inside `enqueue`, the writer and
shutdown, not on timeouts, flushes, file failures or the loader lock; `ConfigWatcher` per
worker on its body, the kernel's completions and the clock; `ConfigReload`, `Session` and
`MemoryCache` on the threads' progress as a whole.  No fairness is assumed for beginning an
operation, for a failure, or for who gets a mutex next.  In `memory` fairness for guarded accesses
and removals is joint (some access, or removal, that can go on does), weaker than the
per-thread fairness `GuardedAccess` states.

## What is proved

TLAPS checks these for every set of threads, targets, messages, subscriptions, files and so
on, and every capacity and bound.  None of the safety properties is inductive as it stands.

* `HookLedgerProofs`: types, `PatchesAreSound` and its three parts, `LiveHooksAreReached`,
  strict hooks at the bottom.  `IInv` adds who works on which hook in what handle state
  (`Control`), that the holder of the slot is at the front of the queue, newcomers queue in
  order and none can arrive between the decision to restore and the restore (`Queues`), and
  that the saved prologues form one chain down to the original bytes (`Code`).
* `HookGateProofs`: `GateIsSound` and the action property that a withdrawal drains the calls.
  `GInv`: one owner of the mutex, toggles on an owned hook, one destroyer, and a null callable
  means that nobody is inside.
* `MPMCQueueProofs`: exclusive slots, positions within one lap, justified refusals, and
  `Spec => ImplementsLogQueue`.  `QInv` says what each sequence number of the current lap
  means, who owns the slot, and what a thread that has looked still knows when it exchanges.
* `AsyncLoggerProofs`: `ShutdownLosesLittle`, `WakeupsAreExact`, `FatesAreOrderly`, and
  `TruthfulStep` as an action property.  `AInv` follows a message: it is in one place at a time
  (its producer, a cell, an eviction, a batch, the file, evicted, refused), and once the writer
  has looked for the last time each producer has at most one still to come.  `LInv` adds that
  the pending count is the number of messages in those places that are counted (`Exact`), that
  a sleeping writer over a published message has a producer on its way to wake it (`Alert`),
  and that file, batch and queue together are ordered per producer (`Ordered`).  That the count
  does not wrap follows from `WidthAssumption`.
* `ProfilerProofs`: `SamplesStayWhole`.  The parity of a slot's sequence counts its writers.
* `EventDispatcherProofs`: `HandlersAreExact` and, as an action property, `RemovedStaysRemoved`.
  `EInv`: the thread between the two stores holds the mutex, the count is off only in the safe
  direction, and a queued removal is owed by a thread that is emitting or draining.
* `GuardedAccessProofs`: `AccessIsGuarded`.  An access counts itself before it decides; until it
  leaves, its stripe is either unread by the remover or was read as non-zero.  A tripped page has
  an access on its way to arm it, unless a call of the system failed (`bare`).
* `ConfigReloadProofs`: `PassesAreWhole` and `OffIsOff`.  `CInv`: the pass lock is held by exactly
  the thread in a pass, the gate's count is the set of threads past it, a re-pointing load
  remembers an older generation once auto-reload was disabled, and what a pass has given to
  the items so far.

The assumptions are named in the modules: `ConstantsAssumption` (there is a target),
`DepthAssumption`, `CapacityAssumption` (a power of two, at least 2, as the constructor
makes it), `BoundAssumption`, `NoneAssumption`, `GuardedAssumption`, `Instances`,
`LoggerAssumption`, `WidthAssumption` (capacity, producers and one batch fit the counter),
`ConfigAssumption`; for the profiler `Sizes`, a hypothesis of its theorems.  They say that
bounds are naturals, that capacities are positive, sets finite where they are counted and
names distinct.

**Only model-checked.**  Liveness, which the provers do not handle: `EveryoneGetsTheSlot`,
`ClosingDrains`, `WorkersReport`, `WriterFinishes`, `ShutdownEnds`, `Settles`,
`EveryCallReturns`.  What recursive definitions compute, which needs induction over data: the
properties of `scan`.  And, without a proof so far, the safety properties of the remaining
modules: `VtablesAreSound`, `TablesUnwind`, `StorageOutlivesUse`, `HandlesAreValid`,
`StringsAreOwned`, `AcceptedIsDelivered`, `InterceptIsSound`, `CaughtStaysHidden`,
`HoldsAreExact`, `ReleaseIsExact`, `CallbacksAreOrderly`, `ShardsAreSound`, `AnswersAreFresh`,
`ProtectionIsRestored`.

## Where code and documentation disagree

Two have a run and are quoted in `PROJECT.json`: `hook_toggle` and `protect_reassign`.  The
following are stated in the modules and are no property of a run; TLC refutes each in an
instance that has the calls in question.

| Statement | Said at | What the model shows |
|---|---|---|
| `AsyncLogger!TrueMeansFlushed` | `async_logger.hpp:87` | a flush during a shutdown returns true once the count is forced to zero |
| `EventDispatcher!DestroyedIsRemovedAlways` | `event_dispatcher.hpp:86` | out of memory, a destroyed Subscription leaves its handler |
| `InputHold!NeverLatches` | hot-reload guide, `docs/guides/hot-reload/README.md:1319` | a rebind overtakes a staged press, and the consumer stays held |
| `InputHold!GatesAreLeaves` | `input_binding_gate.hpp:38-39` | two callbacks that retire each other's binding wait for each other's gate |
| `InputConsume!BackgroundNeverFires` | `input_poller.cpp:805` | of two background notches the second waits and fires on the next focus |
| `InputIntercept!InstalledHasWindow` | `input_intercept.cpp:342-346` | the subclass can stay marked installed with no window |
| `VmtHook!NeedsNoOrder` | `hook.hpp:560-562` | permissive clones of one object dropped oldest first leave it on a freed table |
| `Profiler!WholeAcrossReset` | `profiler.cpp:178-180` | an export across a reset can take a torn sample |
| `LoggerModes!ShutdownClosesTheSink` | `logger.cpp:306-307` | a configure that overlaps a shutdown opens the sink again |
| `ConfigReload!UnchangedMeansApplied` | `config.cpp:1737-1739` | a reload can skip as unchanged what not every item was given |
| `ConfigReload!WatcherFollows` | `config.cpp:1600-1601` | at rest, the watcher may watch an earlier file |
| `ConfigWatcher!OnlyTheFileDelays` | `config_watcher.cpp:430` | another change can restart the debounce |
| `ConfigWatcher!RunningIsSeen` | `config_watcher.hpp:104` | a worker can run while `is_running` says no |
| `ConfigWatcher!NothingLateIsFreed` | `config_watcher.cpp:650-651` | the warning after a failed drain throws, and the buffer is freed under the pending read |
| `ConfigWatcher!HuskIsInert` | `config_watcher.cpp:765-767` | a `start` or `stop` that has tested `m_impl` meets the null a timed-out handshake left |
| `ConfigWatcher!ThrowIsRetried` | `config_watcher.cpp:779` | a worker that threw before the handshake can leave a leaked, inert watcher |
| `MemoryCache!NeverFromAnOldSnapshot` | `memory.hpp:343-346` | a contended shard or a query on its way keeps the old answer |
| `PageProtection!OriginalIsRestored` | `memory.hpp:178-180` | two `write_bytes` on one page put back what they found, the first one's write protection last |
| `ScanResolve!RejectsOnlyTheCandidate` | `scan.hpp:837` | recovery's first site fails the executable test, and a later good one is not tried |
| `ScanResolve!RejectionIsTotal` | `scan_resolution.cpp:272` | a rejection can be reported although some recovered site passes |

## Not modelled

`PROJECT.json` lists every part with its reason.  In short: value types, key tables, file
streams, PE and x86 decoding, RTTI layouts, manifests, diagnostics and text formats have
little or no control that interleaves.  Of the modelled parts these are left out: press
bindings, scopes and a restart of the input poller; a failed allocation in `hook_method_raw`; the
module reference of the log writer and `set_timestamp_format`; the MSVC build's frame-based
fault handlers and pointer chains; the intrinsics of the scan engine, modelled by what a block
compare answers; `init_cache` during `shutdown_cache`.
