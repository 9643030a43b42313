------------------------------ MODULE MCMemory ------------------------------
(* The three parts of the memory subsystem, one at a time: a behaviour chooses a component and *)
(* is a behaviour of that component.  The components share no state but the cache, which page  *)
(* protection models by what it needs of it.                                                   *)
EXTENDS GuardedAccess, Sequences, TLC

CONSTANTS t1, t2, g1, g2, g3

VARIABLES component,
          mem, clock, up, count, array, stripe, cleanup, stateLock, joinLock, loaderLock, step, local, env, past,
          prot, original, cached, guard, script, op, kept, layers, crossed, unswept, faults

cache == <<mem, clock, up, count, array, stripe, cleanup, stateLock, joinLock, loaderLock, step, local, env, past>>
protection == <<prot, original, cached, guard, script, op, kept, layers, crossed, unswept, faults>>
all == <<component, vars, cache, protection>>

-----------------------------------------------------------------------------
(* The cache: three pages of two bytes, two shards, two counters of readers. *)

RW == {"READWRITE"}
RO == {"READONLY"}
GUARDED == {"READWRITE", "GUARD"}
Flat == [p \in 1 .. 3 |-> RW]
Step == [p \in 1 .. 3 |-> IF p = 3 THEN RO ELSE RW]

On(what, at, n) == [op |-> what, a |-> at, n |-> n]
Down(loader) == [op |-> "shutdown", loader |-> loader]
Do(what) == [op |-> what]
Calm(started, m, as, bs) ==
  [started |-> started, mem |-> m, prots |-> {}, script |-> (t1 :> as @@ t2 :> bs),
   changes |-> 0, ticks |-> 0, wakes |-> 0, faults |-> 0]

\* A reader, a clear or another shutdown meets a shutdown, and a new start.
Stopping ==
  {Calm(TRUE, Flat, <<Down(l)>>, s) : l \in BOOLEAN,
     s \in {<<On("read", 3, 1), On("peek", 3, 1)>>, <<On("invalidate", 3, 1)>>, <<Do("stats")>>, <<Do("clear")>>,
            <<Down(FALSE), Do("init")>>, <<Down(TRUE), Do("init"), On("write", 3, 1)>>}}
  \cup {[Calm(TRUE, Flat, <<Do("atexit")>>, s) EXCEPT !.wakes = 1] :
           s \in {<<On("invalidate", 3, 1)>>, <<Down(FALSE)>>, <<Down(TRUE)>>}}
\* A start meets readers; its allocation or its thread may fail.
Starting ==
  {[Calm(FALSE, Flat, <<Do("init")>> \o s, <<On("write", 2, 3), On("invalidate", 2, 3)>>)
     EXCEPT !.ticks = 1, !.faults = 1] : s \in {<<Down(FALSE)>>, <<Do("clear")>>, <<Do("init")>>}}
\* The protection of a page changes between look-ups of several ranges.
Changing ==
  {[Calm(TRUE, Flat, <<On("read", 3, 3), On("invalidate", 4, 1)>>, s)
     EXCEPT !.prots = {IF Len(s) = 3 THEN {} ELSE GUARDED}, !.changes = 1] :
       s \in {<<On("write", 5, 1), On("write", 5, 1)>>, <<On("read", 3, 2), On("peek", 3, 1)>>,
              <<On("read", 5, 14), Do("clear"), On("read", 5, 1)>>}}
\* Time passes while a protection changes.
Aging ==
  {[c EXCEPT !.prots = {RO}, !.changes = 1, !.ticks = 2] :
     c \in {Calm(TRUE, Step, <<On("write", 4, 2)>>, <<On("write", 5, 2)>>),
            Calm(TRUE, Step, <<On("read", 3, 1), On("write", 4, 2), On("write", 4, 2)>>, <<>>)}}
\* Allocations fail, the shards are full, the cleanup thread sweeps.
Filling ==
  {[Calm(TRUE, Step, s, <<>>)
     EXCEPT !.prots = {RW}, !.changes = c, !.ticks = 2 - c, !.wakes = 1, !.faults = 1] :
       s \in {<<On("read", 7, 1), On("read", 5, 1), On("read", 3, 1)>>,
              <<On("read", 3, 1), On("read", 7, 1), On("write", 7, 1)>>}, c \in {0, 1}}

CacheCases == Stopping \cup Starting \cup Changing \cup Aging \cup Filling
Readers == {t1, t2}
OwnStripe == (t1 :> 1 @@ t2 :> 2)
TwoShards == [x \in 0 .. 15 |-> 1 + (x % 2)]
ThreePages == {1, 2, 3}

Cache == INSTANCE MemoryCache WITH
  pc <- step, Users <- Readers, MaxCleaners <- 2, Pages <- ThreePages, PageSize <- 2, Top <- 16, TimeTop <- 16,
  Expiry <- 1, Capacity <- 1, MaxCapacity <- 2, NShards <- 2, ShardOf <- TwoShards,
  StripeOf <- OwnStripe, CleanupInterval <- 1, Scenarios <- CacheCases

-----------------------------------------------------------------------------
(* Page protection: four pages with a seam in the middle, two threads, three guards. *)

Seam == <<"r", "r", "rx", "rw">>
Hole == <<"r", "rx", "free", "rw">>

Write(lo, hi) == [do |-> "write", lo |-> lo, hi |-> hi]
InPlace(lo, hi) == [do |-> "inplace", lo |-> lo, hi |-> hi]
Make(g, lo, hi, rights) == [do |-> "make", g |-> g, lo |-> lo, hi |-> hi, rights |-> rights]
Assign(g, from) == [do |-> "assign", g |-> g, from |-> from]
Drop(g) == [do |-> "drop", g |-> g]
Keep(g) == [do |-> "release", g |-> g]

Case(pages, as, bs) == [prot |-> pages, script |-> (t1 :> as @@ t2 :> bs)]

\* Two writers on both sides of a page boundary, and on the same pages; guards and writes nested
\* in each other, also of two threads; a guard moved into another; a span with a hole; one with
\* too many regions.
Protecting ==
  {Case(Seam, <<Write(1, 2)>>, <<InPlace(3, 4), Write(3, 4)>>),
   Case(Seam, <<Write(1, 2)>>, <<Write(1, 1)>>),
   Case(Seam, <<Make(g1, 3, 3, {"r", "w"}), Drop(g1)>>, <<Make(g2, 2, 3, {"x"}), Drop(g2)>>),
   Case(Seam, <<Make(g1, 2, 3, {"r", "w"}), Write(2, 4), Make(g2, 3, 4, {"x"}), Drop(g2), Drop(g1)>>, <<>>),
   Case(Seam, <<Make(g1, 1, 1, {"w"}), Make(g2, 2, 4, {"w", "x"}), Assign(g1, g2), Assign(g3, g1), Drop(g1), Drop(g3)>>, <<>>),
   Case(Seam, <<Make(g1, 1, 3, {"r", "x"}), Keep(g1), Write(1, 4)>>, <<>>),
   Case(Hole, <<Write(1, 3), Make(g1, 2, 4, {})>>, <<Write(4, 4)>>),
   Case(<<"r", "rx", "r", "rw">>, <<Write(1, 4), Make(g1, 2, 4, {"r"}), Drop(g1)>>, <<>>)}

ThreeGuards == {g1, g2, g3}
FourPages == {1, 2, 3, 4}

Protection == INSTANCE PageProtection WITH
  Guards <- ThreeGuards, Pages <- FourPages, MaxSegments <- 3, MaxFaults <- 1,
  Scenarios <- Protecting

-----------------------------------------------------------------------------
(* The chosen component runs; the others do not start. *)

NoCache ==
  /\ mem = None /\ clock = None /\ up = None /\ count = None /\ array = None /\ stripe = None
  /\ cleanup = None /\ stateLock = None /\ joinLock = None /\ loaderLock = None
  /\ step = None /\ local = None /\ env = None /\ past = None
NoProtection ==
  /\ prot = None /\ original = None /\ cached = None /\ guard = None
  /\ script = None /\ op = None /\ kept = None /\ layers = None /\ crossed = None
  /\ unswept = None /\ faults = None

MCInit ==
  /\ Init
  /\ \/ component = "cache" /\ Cache!Init /\ NoProtection
     \/ component = "guarded" /\ NoCache /\ NoProtection
     \/ component = "protection" /\ Protection!Init /\ NoCache

InCache(A) == component = "cache" /\ A /\ UNCHANGED <<component, vars, protection>>
InGuarded(A) == component = "guarded" /\ A /\ UNCHANGED <<component, cache, protection>>
InProtection(A) == component = "protection" /\ A /\ UNCHANGED <<component, vars, cache>>

MCNext == InCache(Cache!Next) \/ InGuarded(Next) \/ InProtection(Protection!Next)

\* The fairness of MemoryCache, and less than that of GuardedAccess: some access that can go on
\* does, and so does some removal, which polls.
MCSpec ==
  /\ MCInit /\ [][MCNext]_all
  /\ WF_all(InCache(Cache!Progress) \/ InGuarded(\E t \in Threads : Access(t)))
  /\ WF_all(InCache(Cache!Draining) \/ InGuarded(\E r \in Removers : Removal(r)))

-----------------------------------------------------------------------------
\* memory_cache.cpp: no reader, clear or sweep is at a shard when shutdown_cache has freed the
\* array (see MemoryCache), and the three containers of each shard agree.
ShardsAreSound == component = "cache" => Cache!NoFreedAccess /\ Cache!ShardsAgree

\* memory_cache.cpp: a yes is never older than the expiry and the time a query took, and once an
\* undisturbed invalidate_range has returned, look-ups answer what the pages say.
AnswersAreFresh == component = "cache" => Cache!AnswersAreRecent /\ Cache!InvalidatedIsForgotten

\* memory_guarded.cpp and memory_protect.cpp: when all calls have returned and no guard is held,
\* every page on which the changes of two threads did not cross has its own protection again,
\* and the cache remembers no other, unless the last invalidate_range was kept from a shard.
ProtectionIsRestored ==
  component = "protection" => Protection!SeamsSurvive /\ Protection!PassingStateIsForgotten

\* memory_cache.cpp, shutdown_cache and its waits, and memory_guarded.cpp, the removal of the
\* handler: every call returns.
EveryCallReturns == RemovalEnds /\ <>[](component = "cache" => Cache!Settled)
=============================================================================
