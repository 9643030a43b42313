----------------------------- MODULE CacheShard -----------------------------
(***************************************************************************)
(* One shard of the protection-region cache (memory_cache.cpp): the store  *)
(* of regions by base address, the index by age for eviction and the       *)
(* sorted ranges for look-ups inside a region.  Every operator is a whole  *)
(* section under the shard's lock.  Addresses and sizes are unsigned and   *)
(* wrap at Top, times wrap at TimeTop; a protection is a set of flags.     *)
(***************************************************************************)
EXTENDS Integers, FiniteSets, FiniteSetsExt, Functions

CONSTANTS PageSize, Top, TimeTop, Expiry, Capacity, MaxCapacity, None

Plus(a, n) == (a + n) % Top
Age(now, ts) == (now - ts) % TimeTop

\* ranges is a set: that it holds one range for each base at most is part of IndexesAgree.
EmptyShard == [entries |-> <<>>, lru |-> <<>>, ranges |-> {}, counter |-> 0, inFlight |-> FALSE]

Readable(protection) ==
  protection \cap {"READONLY", "READWRITE"} # {} /\ protection \cap {"NOACCESS", "GUARD"} = {}
Writable(protection) ==
  protection \cap {"READWRITE"} # {} /\ protection \cap {"NOACCESS", "GUARD"} = {}

\* is_entry_valid_and_covers
Covers(base, entry, a, n, now) ==
  /\ Age(now, entry.ts) <= Expiry
  /\ Plus(a, n) >= a
  /\ Plus(base, entry.size) >= base
  /\ base <= a /\ Plus(a, n) <= Plus(base, entry.size)

PageOf(a) == a - (a % PageSize)

\* The base of an entry for n bytes at a, or None: the entry of a's own page, else the last
\* range that begins at or before a.
find_in_shard(sh, a, n, now) ==
  LET hits(base) == base \in DOMAIN sh.entries /\ Covers(base, sh.entries[base], a, n, now)
      below == {r \in sh.ranges : r[1] <= a}
      last  == CHOOSE r \in below : \A q \in below : q[1] < r[1] \/ (q[1] = r[1] /\ q[2] <= r[2])
  IN IF hits(PageOf(a)) THEN PageOf(a)
     ELSE IF below # {} /\ a < last[2] /\ hits(last[1]) THEN last[1]
     ELSE None

remove_sorted_range(ranges, base) ==
  LET ends == {r[2] : r \in {q \in ranges : q[1] = base}}
  IN IF ends = {} THEN ranges ELSE ranges \ {<<base, Min(ends)>>}

\* An entry leaves with its index and its range.
Drop(sh, bases) ==
  [sh EXCEPT
     !.entries = Restrict(@, DOMAIN @ \ bases),
     !.lru     = Restrict(@, {k \in DOMAIN @ : \A b \in bases :
                                                 ~ (k = sh.entries[b].key /\ @[k] = b)}),
     !.ranges  = {r \in @ : r[1] \in bases => r \in remove_sorted_range(@, r[1])}]

evict_oldest_entry(sh) ==
  IF DOMAIN sh.lru = {} THEN sh
  ELSE LET k    == Min(DOMAIN sh.lru)
           base == sh.lru[k]
           rest == [sh EXCEPT !.lru = Restrict(@, DOMAIN @ \ {k})]
       IN IF base \notin DOMAIN sh.entries THEN rest
          ELSE [rest EXCEPT !.entries = Restrict(@, DOMAIN @ \ {base}),
                            !.ranges  = remove_sorted_range(@, base)]

RECURSIVE trim_to_max_capacity(_)
trim_to_max_capacity(sh) ==
  IF Cardinality(DOMAIN sh.entries) > MaxCapacity /\ DOMAIN sh.lru # {}
  THEN trim_to_max_capacity(evict_oldest_entry(sh))
  ELSE sh

Put(f, x, y) == [z \in DOMAIN f \cup {x} |-> IF z = x THEN y ELSE f[z]]

\* update_shard_with_region.  fails names the container whose allocation throws, if any does:
\* what was done before it stays done, and the exception is swallowed.
Refresh(sh, region, ts, fails) ==
  LET base    == region.base
      old     == sh.entries[base]
      unaged  == [sh EXCEPT !.lru = Restrict(@, {k \in DOMAIN @ : ~ (k = old.key /\ @[k] = base)})]
      moved   == old.size # region.size
      unplaced == [unaged EXCEPT !.ranges = remove_sorted_range(@, base)]
      placed  == IF moved THEN [unplaced EXCEPT !.ranges = @ \cup {<<base, Plus(base, region.size)>>}]
                 ELSE unaged
      stored  == [placed EXCEPT !.counter = @ + 1,
                                !.entries[base] = [size |-> region.size, prot |-> region.prot,
                                                   ts |-> ts, key |-> sh.counter]]
  IN IF moved /\ fails = "ranges" THEN unplaced
     ELSE IF fails = "lru" THEN stored
     ELSE [stored EXCEPT !.lru = Put(@, sh.counter, base)]

Insert(sh, region, ts, fails) ==
  LET base   == region.base
      size(s) == Cardinality(DOMAIN s.entries)
      fewer  == IF size(sh) >= Capacity THEN evict_oldest_entry(sh) ELSE sh
      room   == IF size(fewer) >= MaxCapacity THEN trim_to_max_capacity(fewer) ELSE fewer
      taken  == [room EXCEPT !.counter = @ + 1]
      stored == [taken EXCEPT !.entries = Put(@, base, [size |-> region.size, prot |-> region.prot,
                                                        ts |-> ts, key |-> sh.counter])]
      aged   == [stored EXCEPT !.lru = Put(@, sh.counter, base)]
  IN CASE fails = "entries" -> taken
       [] fails = "lru"     -> stored
       [] fails = "ranges"  -> aged
       [] OTHER -> [aged EXCEPT !.ranges = @ \cup {<<base, Plus(base, region.size)>>}]

Allocations == {"none", "entries", "lru", "ranges"}

update_shard_with_region(sh, region, ts, fails) ==
  IF region.base \in DOMAIN sh.entries THEN Refresh(sh, region, ts, fails)
  ELSE Insert(sh, region, ts, fails)

\* cleanup_expired_entries_in_shard, and the trim that follows it.
Sweep(sh, now) ==
  trim_to_max_capacity(Drop(sh, {b \in DOMAIN sh.entries : Age(now, sh.entries[b].ts) > Expiry}))

\* An entry whose end wraps reaches to the top.
EvictOverlapping(sh, a, end) ==
  LET endOf(b) == IF Plus(b, sh.entries[b].size) < b THEN Top - 1 ELSE Plus(b, sh.entries[b].size)
  IN Drop(sh, {b \in DOMAIN sh.entries : a < endOf(b) /\ end > b})

ClearShard(sh) == [sh EXCEPT !.entries = <<>>, !.lru = <<>>, !.ranges = {}, !.inFlight = FALSE]

\* Every index entry and every range belongs to an entry, whichever allocations failed, so
\* that an eviction by age always frees an entry and a look-up never lands in a wrong one.
IndexesAgree(sh) ==
  /\ \A k \in DOMAIN sh.lru : /\ sh.lru[k] \in DOMAIN sh.entries
                              /\ sh.entries[sh.lru[k]].key = k
  /\ \A r \in sh.ranges : /\ r[1] \in DOMAIN sh.entries
                          /\ r[2] = Plus(r[1], sh.entries[r[1]].size)
=============================================================================
