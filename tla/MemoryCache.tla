---------------------------- MODULE MemoryCache ----------------------------
(***************************************************************************)
(* The protection-region cache behind is_readable and is_writable          *)
(* (memory_cache.cpp): readers that register before they look whether the  *)
(* cache is there, answer from a shard or lead or follow a VirtualQuery;   *)
(* invalidate_range; init_cache, clear_cache and shutdown_cache; and the   *)
(* cleanup thread.  The page protections change underneath.                *)
(*                                                                         *)
(* A section under a shard's lock is one step (CacheShard); a try-lock may *)
(* fail while another thread is at such a section of that shard.  The      *)
(* state mutex and the join mutex are explicit.  init_cache, which is for  *)
(* set-up, is not called while a shutdown_cache runs.                      *)
(***************************************************************************)
EXTENDS CacheShard, Sequences

CONSTANTS Users,       \* threads that call the cache
          MaxCleaners, \* bound on the cleanup threads there ever are
          Pages,       \* page numbers that VirtualQuery knows
          NShards, ShardOf, \* how many shards, and the shard of an address
          Stripes, StripeOf, \* reader counters, and the counter of a thread
          CleanupInterval, \* between two clean-ups on demand
          Scenarios    \* what happens: [started, mem, prots, script] (the
                       \* calls of each user) and the bounds
                       \* [changes, ticks, wakes, faults]

Shards   == 1 .. NShards
Cleaners == 1 .. MaxCleaners
Procs  == Users \cup Cleaners

VARIABLES mem,      \* page -> its protection; {} if it is not committed
          clock,
          up,       \* s_cache_initialized
          count,    \* s_shard_count
          array,    \* s_cache_shards: shard -> CacheShard, or None
          stripe,   \* s_reader_stripes
          cleanup,  \* [running, requested, joinable (which thread), last]
          stateLock, joinLock, loaderLock, \* the holder, or None
          pc, local, env,
          past      \* history: see Init

tables == <<up, count, array>>
locks  == <<stateLock, joinLock, loaderLock>>
vars   == <<mem, clock, tables, stripe, cleanup, locks, pc, local, env, past>>

PageNo(a) == a \div PageSize
PagesOf(a, n) == {PageNo(b) : b \in a .. (a + n - 1)}

\* VirtualQuery: the maximal run of pages with the protection of a's page; it fails for an
\* address it does not know.
VirtualQuery(a) ==
  IF PageNo(a) \notin Pages THEN None
  ELSE LET same == {q \in Pages : \A p \in Pages :
                      (q <= p /\ p <= PageNo(a)) \/ (PageNo(a) <= p /\ p <= q) => mem[p] = mem[PageNo(a)]}
       IN [base |-> Min(same) * PageSize, size |-> Cardinality(same) * PageSize,
           prot |-> mem[PageNo(a)]]

Allows(kind, prot) == IF kind = "write" THEN Writable(prot) ELSE Readable(prot)

Blank == [op |-> [op |-> "none"], now |-> 0, mbi |-> None, second |-> FALSE, cursor |-> 0,
          end |-> 0, todo |-> {}, answer |-> "none", start |-> 0, asked |-> 0,
          swept |-> {}, sure |-> {}]

\* past.ok: kind and page -> when it was last accessible, if it is not now.  past.lag: the
\* longest time from a query to its stamp.  past.failed: how many allocations failed.  past.swept: pages whose protection has not
\* changed since an invalidate_range of them began that returned; past.sure: those of them
\* for which it met no contended shard and no query on its way into a shard.
Init ==
  \E s \in Scenarios :
    /\ mem = s.mem /\ clock = 1
    /\ up = s.started
    /\ count = IF s.started THEN NShards ELSE 0
    /\ array = IF s.started THEN [i \in Shards |-> EmptyShard] ELSE None
    /\ stripe = [i \in Stripes |-> 0]
    /\ cleanup = [running |-> s.started, requested |-> FALSE,
                  joinable |-> IF s.started THEN 1 ELSE None, last |-> 0]
    /\ stateLock = None /\ joinLock = None /\ loaderLock = None
    /\ pc = [t \in Procs |-> IF t \in Users THEN "idle"
                               ELSE IF s.started /\ t = 1 THEN "wait" ELSE "none"]
    /\ local = [t \in Procs |-> Blank]
    /\ env = s
    /\ past = [ok |-> [k \in {"read", "write"} |-> [p \in Pages |-> 0]], lag |-> 0, failed |-> 0,
               swept |-> Pages, sure |-> Pages]

-----------------------------------------------------------------------------
At(t, where)   == pc[t] = where
Goto(t, where) == pc' = [pc EXCEPT ![t] = where]
Op(t) == local[t].op

Called(t, op) ==
  /\ At(t, "idle")
  /\ env.script[t] # <<>> /\ op = Head(env.script[t])
  /\ env' = [env EXCEPT !.script[t] = Tail(@)]
  /\ LET all == op.op = "invalidate"
     IN local' = [local EXCEPT ![t] =
                    [Blank EXCEPT !.op = op, !.start = clock,
                                  !.swept = IF all THEN Pages ELSE past.swept,
                                  !.sure  = IF all THEN Pages ELSE past.sure]]

\* The calls some thread makes next.
Calls == UNION {IF env.script[t] = <<>> THEN {} ELSE {Head(env.script[t])} : t \in Users}

Return(t) == Goto(t, "idle") /\ local' = [local EXCEPT ![t] = Blank]

\* The reader guard is taken before anything else is looked at.  (With a null address or an
\* empty range the call has returned already.)
Register(t, op) ==
  /\ op.op \in {"read", "write", "peek", "invalidate", "stats"}
  /\ Called(t, op)
  /\ stripe' = [stripe EXCEPT ![StripeOf[t]] = @ + 1]
  /\ Goto(t, "gate")
  /\ UNCHANGED <<mem, clock, tables, cleanup, locks, past>>

Answer(t, answer) ==
  /\ local' = [local EXCEPT ![t].answer = answer]
  /\ Goto(t, "leave")

\* range_permission_uncached, from a to end.
Walk(t, a, end) ==
  IF end < a THEN Answer(t, "no")
  ELSE local' = [local EXCEPT ![t].cursor = a, ![t].end = end] /\ Goto(t, "walk")

\* Without a cache a look-up walks the range; the others have nothing to do.
Gate(t) ==
  /\ At(t, "gate")
  /\ IF up THEN Goto(t, "count") /\ UNCHANGED local
     ELSE IF Op(t).op \in {"read", "write", "peek"} THEN Walk(t, Op(t).a, Plus(Op(t).a, Op(t).n))
     ELSE Answer(t, "none")
  /\ UNCHANGED <<mem, clock, tables, stripe, cleanup, locks, env, past>>

\* The count is 0 while the cache is being built or taken down.
Count(t) ==
  /\ At(t, "count")
  /\ LET op == Op(t)
     IN CASE count = 0 /\ op.op \in {"read", "write"} -> Walk(t, op.a, Plus(op.a, op.n))
          [] count = 0 /\ op.op = "peek" -> Answer(t, "unknown")
          [] count = 0 -> Answer(t, "none")
          [] count # 0 /\ op.op \in {"read", "write", "peek"} ->
               local' = [local EXCEPT ![t].now = clock] /\ Goto(t, "lookup")
          [] OTHER -> local' = [local EXCEPT ![t].todo = 1 .. count] /\ Goto(t, op.op)
  /\ UNCHANGED <<mem, clock, tables, stripe, cleanup, locks, env, past>>

\* The shard of the address a look-up is about, and whether its next step is a section of it.
MyShard(t) == ShardOf[Op(t).a]
Contended(t, i) ==
  \E u \in Procs \ {t} :
     \/ pc[u] \in {"lookup", "insert", "follow"} /\ MyShard(u) = i
     \/ pc[u] \in {"invalidate", "sweep", "clear", "stats"} /\ i \in local[u].todo

Verdict(t, prot) == IF Allows(Op(t).op, prot) THEN "yes" ELSE "no"

Lookup(t) ==
  /\ At(t, "lookup")
  /\ LET sh   == array[MyShard(t)]
         base == find_in_shard(sh, Op(t).a, Op(t).n, local[t].now)
     IN \/ /\ base # None
           /\ Answer(t, Verdict(t, sh.entries[base].prot))
        \/ /\ base = None
           /\ IF Op(t).op = "peek" THEN Answer(t, "unknown") ELSE Goto(t, "lead") /\ UNCHANGED local
        \/ /\ Op(t).op = "peek" /\ Contended(t, MyShard(t))
           /\ Answer(t, "unknown")
  /\ UNCHANGED <<mem, clock, tables, stripe, cleanup, locks, env, past>>

\* The first to set the shard's flag asks VirtualQuery, the others wait for its answer.  A
\* follower that waited in vain tries once more to lead.
Lead(t) ==
  /\ At(t, "lead")
  /\ IF array[MyShard(t)].inFlight
     THEN /\ Goto(t, IF local[t].second THEN "ask" ELSE "follow")
          /\ UNCHANGED <<array, local>>
     ELSE /\ array' = [array EXCEPT ![MyShard(t)].inFlight = TRUE]
          /\ Goto(t, "query") /\ UNCHANGED local
  /\ UNCHANGED <<mem, clock, up, count, stripe, cleanup, locks, env, past>>

\* What check_memory_permission makes of a region that holds the address.
Decide(t, mbi) ==
  LET a   == Op(t).a
      end == Plus(a, Op(t).n)
      regionEnd == Plus(mbi.base, mbi.size)
  IN IF mbi = None \/ ~ Allows(Op(t).op, mbi.prot) \/ end < a \/ regionEnd <= a THEN Answer(t, "no")
     ELSE IF end <= regionEnd THEN Answer(t, "yes")
     ELSE Walk(t, regionEnd, end)

Query(t) ==
  /\ At(t, "query")
  /\ LET mbi == VirtualQuery(Op(t).a)
     IN /\ local' = [local EXCEPT ![t].mbi = mbi, ![t].asked = clock]
        /\ Goto(t, IF mbi = None THEN "unlead" ELSE "insert")
  /\ UNCHANGED <<mem, clock, tables, stripe, cleanup, locks, env, past>>

\* Pages of a query that is about to be inserted although their protection changed since.
StaleQuery(u) ==
  IF At(u, "insert")
  THEN {p \in PagesOf(local[u].mbi.base, local[u].mbi.size) : mem[p] # local[u].mbi.prot} ELSE {}

\* The stamp is taken between the query and the insertion; by a second leader, at it.
InsertRegion(t) ==
  /\ At(t, "insert")
  /\ \E ts \in (IF local[t].second THEN clock ELSE local[t].asked) .. clock, fails \in Allocations :
       /\ fails # "none" => env.faults > 0
       /\ env' = IF fails = "none" THEN env ELSE [env EXCEPT !.faults = @ - 1]
       /\ array' = [array EXCEPT ![MyShard(t)] = update_shard_with_region(@, local[t].mbi, ts, fails)]
       /\ past' = [past EXCEPT !.lag = Max({@, ts - local[t].asked}),
                               !.failed = IF fails = "none" THEN @ ELSE @ + 1]
  /\ local' = [u \in Procs |-> [local[u] EXCEPT !.sure =
                 IF Op(u).op = "invalidate" THEN @ \ StaleQuery(t) ELSE @]]
  /\ Goto(t, "unlead")
  /\ UNCHANGED <<mem, clock, up, count, stripe, cleanup, locks>>

Unlead(t) ==
  /\ At(t, "unlead")
  /\ array' = [array EXCEPT ![MyShard(t)].inFlight = FALSE]
  /\ Decide(t, local[t].mbi)
  /\ UNCHANGED <<mem, clock, up, count, stripe, cleanup, locks, env, past>>

\* A follower reads the leader's entry, for the first byte; it yields a few times at most.
Follow(t) ==
  /\ At(t, "follow")
  /\ LET sh   == array[MyShard(t)]
         base == find_in_shard(sh, Op(t).a, 1, clock)
     IN IF ~ sh.inFlight /\ base # None
        THEN Decide(t, [base |-> base, size |-> sh.entries[base].size, prot |-> sh.entries[base].prot])
        ELSE Goto(t, "lead") /\ local' = [local EXCEPT ![t].second = TRUE]
  /\ UNCHANGED <<mem, clock, tables, stripe, cleanup, locks, env, past>>

\* Last resort: ask, and leave the shard alone.
Ask(t) ==
  /\ At(t, "ask")
  /\ Decide(t, VirtualQuery(Op(t).a))
  /\ UNCHANGED <<mem, clock, tables, stripe, cleanup, locks, env, past>>

\* One VirtualQuery for every region the range touches.
WalkRegion(t) ==
  /\ At(t, "walk")
  /\ LET mbi == VirtualQuery(local[t].cursor)
     IN IF local[t].cursor >= local[t].end THEN Answer(t, "yes")
        ELSE IF mbi = None \/ ~ Allows(Op(t).op, mbi.prot) \/ Plus(mbi.base, mbi.size) <= local[t].cursor
        THEN Answer(t, "no")
        ELSE local' = [local EXCEPT ![t].cursor = Plus(mbi.base, mbi.size)] /\ UNCHANGED pc
  /\ UNCHANGED <<mem, clock, tables, stripe, cleanup, locks, env, past>>

-----------------------------------------------------------------------------
(* invalidate_range and clean-up. *)

OwnShardOnly(t) ==
  /\ At(t, "invalidate")
  /\ array' = [array EXCEPT ![MyShard(t)] = EvictOverlapping(@, Op(t).a, Plus(Op(t).a, Op(t).n))]
  /\ Goto(t, "request")
  /\ UNCHANGED <<mem, clock, up, count, stripe, cleanup, locks, local, env, past>>

\* Every shard is swept, for a region may be in several.  One that stays contended is left.
Invalidate(t) ==
  /\ At(t, "invalidate")
  /\ LET a   == Op(t).a
         end == IF Plus(a, Op(t).n) < a THEN Top - 1 ELSE Plus(a, Op(t).n)
         i   == Min(local[t].todo)
     IN IF local[t].todo = {} THEN Goto(t, "request") /\ UNCHANGED <<array, local>>
        ELSE /\ UNCHANGED pc
             /\ \/ /\ array' = [array EXCEPT ![i] = EvictOverlapping(@, a, end)]
                   /\ local' = [local EXCEPT ![t].todo = @ \ {i}]
                \/ /\ Contended(t, i) /\ UNCHANGED array
                   /\ local' = [local EXCEPT ![t].todo = @ \ {i}, ![t].sure = {}]
  /\ UNCHANGED <<mem, clock, up, count, stripe, cleanup, locks, env, past>>

RequestWaits(t) ==
  /\ At(t, "request")
  /\ IF cleanup.running
     THEN /\ cleanup' = [cleanup EXCEPT !.requested = TRUE]
          /\ Answer(t, "swept") /\ UNCHANGED stateLock
     ELSE /\ stateLock = None
          /\ stateLock' = t /\ UNCHANGED cleanup
          /\ local' = [local EXCEPT ![t].todo = 1 .. count, ![t].now = clock]
          /\ Goto(t, "sweep")
  /\ UNCHANGED <<mem, clock, tables, stripe, joinLock, loaderLock, env, past>>

\* request_cleanup: the cleanup thread is woken; if there is none, an occasional call sweeps
\* itself, unless the state mutex is taken.
RequestCleanup(t) ==
  /\ At(t, "request")
  /\ IF cleanup.running
     THEN /\ cleanup' = [cleanup EXCEPT !.requested = TRUE]
          /\ Answer(t, "swept") /\ UNCHANGED stateLock
     ELSE IF ~ up \/ Age(clock, cleanup.last) < CleanupInterval
     THEN Answer(t, "swept") /\ UNCHANGED <<cleanup, stateLock>>
     ELSE /\ cleanup' = [cleanup EXCEPT !.last = clock]
          /\ IF stateLock # None THEN Answer(t, "swept") /\ UNCHANGED stateLock
             ELSE /\ stateLock' = t
                  /\ local' = [local EXCEPT ![t].todo = 1 .. count, ![t].now = clock]
                  /\ Goto(t, "sweep")
  /\ UNCHANGED <<mem, clock, tables, stripe, joinLock, loaderLock, env, past>>

\* cleanup_expired_entries, under the state mutex; a contended shard is passed over.
SweepShard(t) ==
  /\ At(t, "sweep")
  /\ LET i == Min(local[t].todo)
     IN IF local[t].todo = {}
        THEN /\ stateLock' = None
             /\ IF t \in Users THEN Answer(t, "swept") /\ UNCHANGED cleanup
                ELSE /\ cleanup' = [cleanup EXCEPT !.requested = FALSE]
                     /\ Goto(t, "wait") /\ UNCHANGED local
             /\ UNCHANGED array
        ELSE /\ \/ array' = [array EXCEPT ![i] = Sweep(@, local[t].now)]
                \/ Contended(t, i) /\ UNCHANGED array
             /\ local' = [local EXCEPT ![t].todo = @ \ {i}]
             /\ UNCHANGED <<pc, stateLock, cleanup>>
  /\ UNCHANGED <<mem, clock, up, count, stripe, joinLock, loaderLock, env, past>>

\* cleanup_thread_func.  It wakes when it is asked to or when a second is over.
CleanerWakes(c) ==
  /\ At(c, "wait")
  /\ \/ ~ cleanup.running /\ Goto(c, "exit") /\ UNCHANGED env
     \/ cleanup.running /\ cleanup.requested /\ Goto(c, "lock") /\ UNCHANGED env
     \/ /\ cleanup.running /\ env.wakes > 0
        /\ env' = [env EXCEPT !.wakes = @ - 1] /\ Goto(c, "lock")
  /\ UNCHANGED <<mem, clock, tables, stripe, cleanup, locks, local, past>>

CleanerLocks(c) ==
  /\ At(c, "lock") /\ stateLock = None
  /\ stateLock' = c
  /\ local' = [local EXCEPT ![c].todo = IF array = None THEN {} ELSE 1 .. count, ![c].now = clock]
  /\ Goto(c, "sweep")
  /\ UNCHANGED <<mem, clock, tables, stripe, cleanup, joinLock, loaderLock, env, past>>

\* The end of a thread takes the loader lock.
CleanerExits(c) ==
  /\ At(c, "exit") /\ loaderLock = None
  /\ Goto(c, "done")
  /\ UNCHANGED <<mem, clock, tables, stripe, cleanup, locks, local, env, past>>

\* get_memory_stats sums over the shards.
Stats(t) ==
  /\ At(t, "stats")
  /\ IF local[t].todo = {} THEN Answer(t, "none")
     ELSE local' = [local EXCEPT ![t].todo = @ \ {Min(@)}] /\ UNCHANGED pc
  /\ UNCHANGED <<mem, clock, tables, stripe, cleanup, locks, env, past>>

\* The pages an invalidate_range vouches for when it returns.
Vouched(t, pages) ==
  IF Op(t).op = "invalidate" /\ local[t].answer = "swept"
  THEN pages \cap PagesOf(Op(t).a, Op(t).n) ELSE {}
Leave(t) ==
  /\ At(t, "leave")
  /\ stripe' = [stripe EXCEPT ![StripeOf[t]] = @ - 1]
  /\ past' = [past EXCEPT
                !.swept = @ \cup Vouched(t, local[t].swept),
                !.sure  = @ \cup (Vouched(t, local[t].sure) \ UNION {StaleQuery(u) : u \in Users})]
  /\ Return(t)
  /\ UNCHANGED <<mem, clock, tables, cleanup, locks, env>>

-----------------------------------------------------------------------------
(* init_cache and clear_cache. *)

Quiet(ops) == \A t \in Users : Op(t).op \notin ops

\* The state mutex is taken; the flag is set before there is an array.
CallUnder(t, op) ==
  /\ op.op \in {"init", "clear", "shutdown", "atexit"}
  /\ op.op = "init" => Quiet({"shutdown", "atexit"})
  /\ op.op \in {"shutdown", "atexit"} => Quiet({"init"})
  /\ Called(t, op)
  /\ IF op.op = "atexit" \/ (op.op = "shutdown" /\ op.loader)
     THEN loaderLock = None /\ loaderLock' = t ELSE UNCHANGED loaderLock
  /\ Goto(t, CASE op.op = "init" -> "init" [] op.op = "clear" -> "clear_all"
               [] op.op = "shutdown" -> "stop" [] OTHER -> "atexit")
  /\ UNCHANGED <<mem, clock, tables, stripe, cleanup, stateLock, joinLock, past>>

InitFlag(t) ==
  /\ At(t, "init") /\ stateLock = None
  /\ IF up THEN Return(t) /\ UNCHANGED <<up, stateLock>>
     ELSE up' = TRUE /\ stateLock' = t /\ Goto(t, "alloc") /\ UNCHANGED local
  /\ UNCHANGED <<mem, clock, count, array, stripe, cleanup, joinLock, loaderLock, env, past>>

InitAlloc(t) ==
  /\ At(t, "alloc")
  /\ \/ /\ array' = [i \in Shards |-> EmptyShard]
        /\ Goto(t, "publish") /\ UNCHANGED <<up, stateLock, local, env>>
     \/ /\ env.faults > 0 /\ env' = [env EXCEPT !.faults = @ - 1]
        /\ array' = None /\ up' = FALSE /\ stateLock' = None /\ Return(t)
  /\ UNCHANGED <<mem, clock, count, stripe, cleanup, joinLock, loaderLock, past>>

InitPublish(t) ==
  /\ At(t, "publish")
  /\ count' = NShards
  /\ cleanup' = [cleanup EXCEPT !.last = clock]
  /\ Goto(t, "thread")
  /\ UNCHANGED <<mem, clock, up, array, stripe, locks, local, env, past>>

\* Without a thread, or a reference to keep its code mapped, clean-up is on demand.
InitThread(t) ==
  /\ At(t, "thread")
  /\ stateLock' = None
  /\ local' = [local EXCEPT ![t] = Blank]
  /\ \/ /\ \E c \in Cleaners :
             /\ pc[c] = "none" /\ \A d \in Cleaners : d < c => pc[d] # "none"
             /\ cleanup' = [cleanup EXCEPT !.running = TRUE, !.joinable = c]
             /\ pc' = [pc EXCEPT ![t] = "idle", ![c] = "wait"]
        /\ UNCHANGED env
     \/ /\ env.faults > 0 /\ env' = [env EXCEPT !.faults = @ - 1]
        /\ Goto(t, "idle") /\ UNCHANGED cleanup
  /\ UNCHANGED <<mem, clock, tables, stripe, joinLock, loaderLock, past>>

\* A leader's flag is reset with the rest.
ClearAll(t) ==
  /\ At(t, "clear_all") /\ stateLock = None
  /\ IF up /\ count # 0
     THEN /\ stateLock' = t /\ Goto(t, "clear")
          /\ local' = [local EXCEPT ![t].todo = 1 .. count]
     ELSE Return(t) /\ UNCHANGED stateLock
  /\ UNCHANGED <<mem, clock, tables, stripe, cleanup, joinLock, loaderLock, env, past>>

Clear(t) ==
  /\ At(t, "clear")
  /\ IF local[t].todo = {}
     THEN /\ stateLock' = None /\ Return(t)
          /\ cleanup' = [cleanup EXCEPT !.last = clock] /\ UNCHANGED array
     ELSE /\ LET i == Min(local[t].todo)
             IN /\ array' = [array EXCEPT ![i] = ClearShard(@)]
                /\ local' = [local EXCEPT ![t].todo = @ \ {i}]
          /\ UNCHANGED <<pc, stateLock, cleanup>>
  /\ UNCHANGED <<mem, clock, up, count, stripe, joinLock, loaderLock, env, past>>

-----------------------------------------------------------------------------
(* shutdown_cache, and the handler at exit under the loader lock. *)

Stop(t) ==
  /\ At(t, "stop")
  /\ cleanup' = [cleanup EXCEPT !.running = FALSE]
  /\ Goto(t, "finish")
  /\ UNCHANGED <<mem, clock, tables, stripe, locks, local, env, past>>

\* The thread is joined once.  Under the loader lock it is detached instead, and nobody
\* waits for the join mutex.
Finish(t) ==
  /\ At(t, "finish")
  /\ IF loaderLock = t
     THEN /\ cleanup' = IF joinLock = None THEN [cleanup EXCEPT !.joinable = None] ELSE cleanup
          /\ Goto(t, IF Op(t).op = "atexit" THEN "unflag" ELSE "down") /\ UNCHANGED joinLock
     ELSE /\ joinLock = None
          /\ IF cleanup.joinable = None THEN Goto(t, "down") /\ UNCHANGED joinLock
             ELSE joinLock' = t /\ Goto(t, "join")
          /\ UNCHANGED cleanup
  /\ UNCHANGED <<mem, clock, tables, stripe, stateLock, loaderLock, local, env, past>>

Join(t) ==
  /\ At(t, "join") /\ pc[cleanup.joinable] = "done"
  /\ cleanup' = [cleanup EXCEPT !.joinable = None]
  /\ joinLock' = None
  /\ Goto(t, "down")
  /\ UNCHANGED <<mem, clock, tables, stripe, stateLock, loaderLock, local, env, past>>

Down(t) ==
  /\ At(t, "down") /\ stateLock = None
  /\ stateLock' = t /\ up' = FALSE
  /\ Goto(t, "uncount")
  /\ UNCHANGED <<mem, clock, count, array, stripe, cleanup, joinLock, loaderLock, local, env, past>>

UncountAndFree(t) ==
  /\ At(t, "uncount")
  /\ count' = 0
  /\ Goto(t, "free")
  /\ UNCHANGED <<mem, clock, up, array, stripe, cleanup, locks, local, env, past>>

Uncount(t) ==
  /\ At(t, "uncount")
  /\ count' = 0
  /\ local' = [local EXCEPT ![t].todo = Stripes]
  /\ Goto(t, "drain")
  /\ UNCHANGED <<mem, clock, up, array, stripe, cleanup, locks, env, past>>

\* The stripes are read one after the other, until all were found at 0 in one turn.
Drain(t) ==
  /\ At(t, "drain")
  /\ LET i == Min(local[t].todo)
     IN IF local[t].todo = {} THEN Goto(t, "free") /\ UNCHANGED local
        ELSE /\ local' = [local EXCEPT ![t].todo = IF stripe[i] > 0 THEN Stripes ELSE @ \ {i}]
             /\ UNCHANGED pc
  /\ UNCHANGED <<mem, clock, tables, stripe, cleanup, locks, env, past>>

Free(t) ==
  /\ At(t, "free")
  /\ array' = None
  /\ cleanup' = [cleanup EXCEPT !.requested = FALSE, !.last = 0]
  /\ stateLock' = None
  /\ loaderLock' = IF loaderLock = t THEN None ELSE loaderLock
  /\ past' = [past EXCEPT !.swept = Pages, !.sure = Pages]
  /\ Return(t)
  /\ UNCHANGED <<mem, clock, up, count, stripe, joinLock, env>>

\* The cleanup thread is let go of; the array stays.
AtExit(t) ==
  /\ At(t, "atexit")
  /\ IF up THEN /\ cleanup' = [cleanup EXCEPT !.running = FALSE]
                /\ Goto(t, "finish") /\ UNCHANGED <<local, loaderLock>>
     ELSE Return(t) /\ loaderLock' = None /\ UNCHANGED cleanup
  /\ UNCHANGED <<mem, clock, tables, stripe, stateLock, joinLock, env, past>>

Unflag(t) ==
  /\ At(t, "unflag")
  /\ up' = FALSE /\ loaderLock' = None
  /\ Return(t)
  /\ UNCHANGED <<mem, clock, count, array, stripe, cleanup, stateLock, joinLock, env, past>>

-----------------------------------------------------------------------------
(* The world outside. *)

Accessible(kind, p) == Allows(kind, mem[p])

\* Somebody changes the protection of a page.
Protect(p, prot) ==
  /\ mem[p] # prot /\ env.changes > 0
  /\ env' = [env EXCEPT !.changes = @ - 1]
  /\ mem' = [mem EXCEPT ![p] = prot]
  /\ past' = [past EXCEPT
                !.ok = [k \in DOMAIN @ |->
                          [@[k] EXCEPT ![p] = IF Accessible(k, p) THEN clock ELSE @]],
                !.swept = @ \ {p}, !.sure = @ \ {p}]
  /\ local' = [t \in Procs |-> [local[t] EXCEPT !.swept = @ \ {p}, !.sure = @ \ {p}]]
  /\ UNCHANGED <<clock, tables, stripe, cleanup, locks, pc>>

Tick ==
  /\ env.ticks > 0
  /\ env' = [env EXCEPT !.ticks = @ - 1]
  /\ clock' = clock + 1
  /\ UNCHANGED <<mem, tables, stripe, cleanup, locks, pc, local, past>>

-----------------------------------------------------------------------------
UserStep(t) ==
  \/ Gate(t) \/ Count(t) \/ Lookup(t) \/ Lead(t) \/ Query(t) \/ InsertRegion(t) \/ Unlead(t)
  \/ Follow(t) \/ Ask(t) \/ WalkRegion(t) \/ Leave(t)
  \/ Invalidate(t) \/ RequestCleanup(t) \/ Stats(t)
  \/ InitFlag(t) \/ InitAlloc(t) \/ InitPublish(t) \/ InitThread(t) \/ ClearAll(t) \/ Clear(t)
  \/ Stop(t) \/ Finish(t) \/ Join(t) \/ Down(t) \/ Uncount(t) \/ Free(t)
  \/ AtExit(t) \/ Unflag(t)

Progress ==
  \/ \E t \in Users : UserStep(t)
  \/ \E t \in Procs : SweepShard(t)
  \/ \E c \in Cleaners : CleanerWakes(c) \/ CleanerLocks(c) \/ CleanerExits(c)

\* The loop that drains the readers can go round for ever; it and the others share the
\* processors.
Draining == \E t \in Users : Drain(t)

Next ==
  \/ Progress
  \/ Draining
  \/ \E t \in Users, op \in Calls : Register(t, op) \/ CallUnder(t, op)
  \/ \E p \in Pages, prot \in env.prots : Protect(p, prot)
  \/ Tick

Spec == Init /\ [][Next]_vars /\ WF_vars(Progress) /\ WF_vars(Draining)

-----------------------------------------------------------------------------
TypeOK ==
  /\ mem \in [Pages -> SUBSET {"READONLY", "READWRITE", "NOACCESS", "GUARD"}]
  /\ up \in BOOLEAN /\ count \in {0, NShards}
  /\ array = None \/ DOMAIN array = Shards
  /\ stripe \in [Stripes -> 0 .. Cardinality(Users)]
  /\ {stateLock, joinLock, loaderLock} \subseteq Procs \cup {None}

\* memory_cache.cpp, the drain in shutdown_cache: nobody is at a step that touches a shard
\* when the array is gone, whatever the order of its registration, its look at the flag, its
\* look at the count, and a shutdown that reads the stripes one by one.
NoFreedAccess ==
  \A t \in Procs :
     pc[t] \in {"lookup", "lead", "query", "insert", "unlead", "follow", "invalidate", "request", "clear", "stats"}
       \/ (At(t, "sweep") /\ local[t].todo # {})
     => array # None

\* The three containers of a shard agree (see CacheShard) after any mix of queries,
\* evictions, sweeps and allocations that fail, and a shard outgrows its capacity by no more
\* than the insertions that failed half-way.
ShardsAgree ==
  array # None => \A i \in Shards :
     /\ IndexesAgree(array[i])
     /\ Cardinality(DOMAIN array[i].entries) <= Capacity + past.failed

LastOk(kind, p) == IF Accessible(kind, p) THEN clock ELSE past.ok[kind][p]
KindOf(op) == IF op = "write" THEN "write" ELSE "read"
Answered(t) == At(t, "leave") /\ Op(t).op \in {"read", "write", "peek"}

\* A yes is never older than the expiry: every page of the range was accessible not longer
\* ago than that, plus the time a query took to be stamped, although the entry that answers
\* may be of another page, another shard, another leader and an earlier layout.
AnswersAreRecent ==
  \A t \in Users : Answered(t) /\ local[t].answer = "yes" =>
     \A p \in PagesOf(Op(t).a, Op(t).n) :
        p \in Pages /\ LastOk(KindOf(Op(t).op), p) + Expiry + past.lag >= local[t].start

\* What the pages themselves say.
Truth(op) == /\ op.a + op.n < Top
             /\ \A p \in PagesOf(op.a, op.n) : p \in Pages /\ Accessible(KindOf(op.op), p)
Agrees(t) == local[t].answer = "unknown" \/ ((local[t].answer = "yes") <=> Truth(Op(t)))

\* After an invalidate_range that met neither a contended shard nor a query on its way, and
\* until the protection changes again, look-ups answer what the pages say.
InvalidatedIsForgotten ==
  \A t \in Users : Answered(t) /\ PagesOf(Op(t).a, Op(t).n) \cap Pages \subseteq local[t].sure
                    => Agrees(t)

\* memory.hpp, ProtectGuard: each change of protection is followed by invalidate_range, "so
\* the protection cache never answers a later is_readable / is_writable from a snapshot taken
\* before the guard changed (or restored) the protection."
NeverFromAnOldSnapshot ==
  \A t \in Users : Answered(t) /\ PagesOf(Op(t).a, Op(t).n) \cap Pages \subseteq local[t].swept
                    => Agrees(t)

\* Every call returns: shutdown_cache waits for readers and for the cleanup thread, which
\* needs the state mutex; a reader that cleans up on demand needs it too; a thread cannot
\* end while the loader lock is held.
Settled == \A t \in Users : At(t, "idle")
=============================================================================
