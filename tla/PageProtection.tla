--------------------------- MODULE PageProtection ---------------------------
(***************************************************************************)
(* Changes of page protection: memory::write_bytes and write_in_place      *)
(* (memory_access.cpp) over patch_bytes, protect_across_regions and        *)
(* restore_across_regions (internal/memory_guarded.cpp), and               *)
(* memory::ProtectGuard (memory_protect.cpp).                              *)
(*                                                                         *)
(* Addresses are pages.  A region, as VirtualQuery reports it, is a run of *)
(* pages of one protection; VirtualProtect reports the old protection of   *)
(* the first page only.  Each thread runs a script of calls; two threads   *)
(* may change one page, nothing in the code keeps them apart.  The cache   *)
(* of permissions is reduced to a snapshot per page, taken at any time and *)
(* dropped by an invalidate_range that is not kept from it.                *)
(***************************************************************************)
EXTENDS Integers, Sequences, SequencesExt

CONSTANTS Threads, Guards, Pages, Scenarios, MaxSegments, MaxFaults, None

VARIABLES prot,      \* page -> protection; "free" is a page that is not committed
          original,  \* page -> protection the host gave it
          cached,    \* page -> None or the protection it was seen with
          guard,     \* guard -> its segments; <<>> is an empty guard
          script,    \* thread -> calls to come
          op,        \* thread -> its call
          kept,      \* pages left changed: released, or their restore failed
          layers,    \* history: page -> threads with a change of it to put back, newest first
          crossed,   \* history: pages on which the changes of two threads did not nest
          unswept,   \* history: pages whose snapshot the last invalidate_range left
          faults

history == <<layers, crossed, unswept>>
vars == <<prot, original, cached, guard, script, op, kept, history, faults>>

NoOp == [pc |-> "idle"]

Init ==
  \E s \in Scenarios :
    /\ prot = s.prot /\ original = s.prot
    /\ cached = [p \in Pages |-> None]
    /\ guard = [g \in Guards |-> <<>>]
    /\ script = s.script
    /\ op = [t \in Threads |-> NoOp]
    /\ kept = {} /\ faults = 0
    /\ layers = [p \in Pages |-> <<>>] /\ crossed = {} /\ unswept = {}

Writable == {"rw", "rwx"}

\* prot_to_win32: there is no write right without a read right.
ProtToWin32(rights) ==
  CASE {"w", "x"} \subseteq rights -> "rwx"
    [] "x" \in rights /\ "w" \notin rights -> IF "r" \in rights THEN "rx" ELSE "x"
    [] "w" \in rights /\ "x" \notin rights -> "rw"
    [] rights = {"r"} -> "r"
    [] OTHER -> "none"

-----------------------------------------------------------------------------
(* Begin a call. *)

Walk(lo, hi, new) == [lo |-> lo, hi |-> hi, new |-> new, cur |-> lo, stop |-> lo, segs |-> <<>>, left |-> <<>>]

\* The segments of a guard are put back in the order they were taken.
PutBack(g) == [lo |-> guard[g][1].lo, hi |-> Last(guard[g]).hi, left |-> guard[g]]

\* write_bytes, write_in_place, ProtectGuard::make, ~ProtectGuard, operator=, release.
Begin(t) ==
  /\ op[t] = NoOp /\ script[t] # <<>>
  /\ script' = [script EXCEPT ![t] = Tail(@)]
  /\ LET call == Head(script[t])
         begun == [pc |-> "idle", call |-> call]
     IN /\ op' = [op EXCEPT ![t] =
             CASE call.do \in {"write", "inplace"} -> Walk(call.lo, call.hi, "rwx") @@ [begun EXCEPT !.pc = "store"]
               [] call.do = "make" -> Walk(call.lo, call.hi, ProtToWin32(call.rights)) @@ [begun EXCEPT !.pc = "query"]
               [] call.do \in {"drop", "assign"} /\ guard[call.g] # <<>> -> PutBack(call.g) @@ [begun EXCEPT !.pc = "restore"]
               [] OTHER -> NoOp]
        /\ guard' = CASE call.do = "release" -> [guard EXCEPT ![call.g] = <<>>]
                      [] call.do = "assign" /\ guard[call.g] = <<>> ->
                           [guard EXCEPT ![call.g] = guard[call.from], ![call.from] = <<>>]
                      [] OTHER -> guard
        /\ kept' = IF call.do = "release" /\ guard[call.g] # <<>>
                   THEN kept \cup PutBack(call.g).lo .. PutBack(call.g).hi ELSE kept
  /\ UNCHANGED <<prot, original, cached, history, faults>>

\* ProtectGuard::make: no memory for the capture, and nothing was changed.
MakeFails(t) ==
  /\ op[t] = NoOp /\ script[t] # <<>> /\ Head(script[t]).do = "make"
  /\ faults < MaxFaults /\ faults' = faults + 1
  /\ script' = [script EXCEPT ![t] = Tail(@)]
  /\ UNCHANGED <<prot, original, cached, guard, op, kept, history>>

-----------------------------------------------------------------------------
(* guarded_write_bytes, page by page. *)

\* The first store of a call changes no protection: a fault takes write_bytes to patch_bytes
\* and ends write_in_place.  The second one ends in the restore, whatever came of it.
Store(t) ==
  /\ op[t].pc \in {"store", "patch"}
  /\ LET o == op[t]
     IN op' = [op EXCEPT ![t] =
          IF o.cur <= o.hi /\ prot[o.cur] \in Writable THEN [o EXCEPT !.cur = @ + 1]
          ELSE IF o.pc = "patch" THEN [o EXCEPT !.pc = "restore", !.left = o.segs]
          ELSE IF o.cur > o.hi \/ o.call.do = "inplace" THEN NoOp
          ELSE [o EXCEPT !.pc = "query", !.cur = o.lo]]
  /\ UNCHANGED <<prot, original, cached, guard, script, kept, history, faults>>

-----------------------------------------------------------------------------
(* protect_across_regions. *)

\* The end of the region that holds a page, clipped to the span.
RegionEnd(p, hi) ==
  CHOOSE q \in p .. hi : (\A i \in p .. q : prot[i] = prot[p]) /\ (q < hi => prot[q + 1] # prot[p])

\* The walk fails: what it changed is put back.
Rollback(o) == [o EXCEPT !.pc = "restore", !.left = o.segs]

\* VirtualQuery and the capacity test; VirtualQuery may fail.
Query(t) ==
  /\ op[t].pc = "query"
  /\ \/ /\ op' = [op EXCEPT ![t] =
             IF Len(@.segs) = MaxSegments THEN Rollback(@)
             ELSE [@ EXCEPT !.pc = "protect", !.stop = RegionEnd(op[t].cur, op[t].hi)]]
        /\ UNCHANGED faults
     \/ /\ faults < MaxFaults /\ faults' = faults + 1
        /\ op' = [op EXCEPT ![t] = Rollback(@)]
  /\ UNCHANGED <<prot, original, cached, guard, script, kept, history>>

\* VirtualProtect of one region; it fails where a page is not committed.  A region that has been
\* split since the query is saved as if it were still one.
Protect(t) ==
  /\ op[t].pc = "protect"
  /\ LET o == op[t]
         span == o.cur .. o.stop
         seg == [lo |-> o.cur, hi |-> o.stop, old |-> prot[o.cur]]
         more == [o EXCEPT !.segs = Append(@, seg), !.cur = o.stop + 1]
     IN \/ /\ \A p \in span : prot[p] # "free"
           /\ prot' = [p \in Pages |-> IF p \in span THEN o.new ELSE prot[p]]
           /\ layers' = [p \in Pages |-> IF p \in span THEN <<t>> \o layers[p] ELSE layers[p]]
           /\ crossed' = crossed \cup {p \in span : prot[p] # seg.old}
           /\ op' = [op EXCEPT ![t] =
                IF o.stop < o.hi THEN [more EXCEPT !.pc = "query"]
                ELSE IF o.call.do = "make" THEN [more EXCEPT !.pc = "invalidate"]
                ELSE [more EXCEPT !.pc = "patch", !.cur = o.lo]]
           /\ UNCHANGED faults
        \/ /\ \E p \in span : prot[p] = "free"
           /\ op' = [op EXCEPT ![t] = Rollback(o)]
           /\ UNCHANGED <<prot, layers, crossed, faults>>
        \/ /\ faults < MaxFaults /\ faults' = faults + 1
           /\ op' = [op EXCEPT ![t] = Rollback(o)]
           /\ UNCHANGED <<prot, layers, crossed>>
  /\ UNCHANGED <<original, cached, guard, script, kept, unswept>>

-----------------------------------------------------------------------------
(* restore_across_regions. *)

\* The thread's newest change of each page of a span ends; another thread's may lie above it.
PutAway(t, span) ==
  /\ layers' = [p \in Pages |-> IF p \in span THEN RemoveFirst(layers[p], t) ELSE layers[p]]
  /\ crossed' = crossed \cup {p \in span : layers[p] # <<>> /\ Head(layers[p]) # t}

RestoreWhole(t) ==
  /\ op[t].pc = "restore"
  /\ IF op[t].left = <<>> THEN op' = [op EXCEPT ![t].pc = "invalidate"] /\ UNCHANGED <<prot, kept, layers, crossed, faults>>
     ELSE /\ prot' = [p \in Pages |-> IF p \in Head(op[t].left).lo .. op[t].hi THEN Head(op[t].left).old ELSE prot[p]]
          /\ op' = [op EXCEPT ![t].left = <<>>]
          /\ PutAway(t, Head(op[t].left).lo .. op[t].hi)
          /\ UNCHANGED <<kept, faults>>
  /\ UNCHANGED <<original, cached, guard, script, unswept>>

\* A segment that cannot be put back does not keep the next ones from it.
Restore(t) ==
  /\ op[t].pc = "restore"
  /\ IF op[t].left = <<>> THEN op' = [op EXCEPT ![t].pc = "invalidate"] /\ UNCHANGED <<prot, kept, layers, crossed, faults>>
     ELSE LET seg == Head(op[t].left)
              span == seg.lo .. seg.hi
          IN /\ op' = [op EXCEPT ![t].left = Tail(@)]
             /\ PutAway(t, span)
             /\ \/ /\ \A p \in span : prot[p] # "free"
                   /\ prot' = [p \in Pages |-> IF p \in span THEN seg.old ELSE prot[p]]
                   /\ UNCHANGED <<kept, faults>>
                \/ /\ \E p \in span : prot[p] = "free"
                   /\ kept' = kept \cup span /\ UNCHANGED <<prot, faults>>
                \/ /\ faults < MaxFaults /\ faults' = faults + 1
                   /\ kept' = kept \cup span /\ UNCHANGED prot
  /\ UNCHANGED <<original, cached, guard, script, unswept>>

-----------------------------------------------------------------------------
\* What a guard is when the call ends.
Adopted(t) ==
  LET call == op[t].call
  IN CASE call.do = "make" /\ op[t].cur > op[t].hi -> [guard EXCEPT ![call.g] = op[t].segs]
       [] call.do = "drop" -> [guard EXCEPT ![call.g] = <<>>]
       [] call.do = "assign" -> [guard EXCEPT ![call.g] = guard[call.from], ![call.from] = <<>>]
       [] OTHER -> guard

\* invalidate_range over the span, after the protections changed for the last time.  It tries
\* the lock of a shard three times; a snapshot in a shard others keep locked stays.
Invalidate(t) ==
  /\ op[t].pc = "invalidate"
  /\ \E left \in SUBSET {p \in op[t].lo .. op[t].hi : cached[p] # None} :
       /\ left # {} => faults < MaxFaults
       /\ faults' = IF left = {} THEN faults ELSE faults + 1
       /\ cached' = [p \in Pages |-> IF p \in (op[t].lo .. op[t].hi) \ left THEN None ELSE cached[p]]
       /\ unswept' = (unswept \ op[t].lo .. op[t].hi) \cup left
  /\ guard' = Adopted(t)
  /\ op' = [op EXCEPT ![t] = NoOp]
  /\ UNCHANGED <<prot, original, script, kept, layers, crossed>>

\* A query of the cache anywhere in the process.  One of a page that no call is at could as well
\* come after the next call has begun.
Snapshot(p) ==
  /\ cached[p] = None /\ \E t \in Threads : op[t] # NoOp /\ p \in op[t].lo .. op[t].hi
  /\ cached' = [cached EXCEPT ![p] = prot[p]]
  /\ UNCHANGED <<prot, original, guard, script, op, kept, history, faults>>

\* The host decommits a page in the middle of a call; the cache is not told.
Decommit(p) ==
  /\ faults < MaxFaults /\ faults' = faults + 1
  /\ prot[p] # "free" /\ \E t \in Threads : op[t] # NoOp
  /\ prot' = [prot EXCEPT ![p] = "free"]
  /\ UNCHANGED <<original, cached, guard, script, op, kept, history>>

Next ==
  \/ \E t \in Threads : Begin(t) \/ MakeFails(t) \/ Store(t) \/ Query(t) \/ Protect(t) \/ Restore(t) \/ Invalidate(t)
  \/ \E p \in Pages : Snapshot(p) \/ Decommit(p)

Spec == Init /\ [][Next]_vars

-----------------------------------------------------------------------------
AtRest == \A t \in Threads : op[t] = NoOp

AllPutBack == AtRest /\ \A g \in Guards : guard[g] = <<>>

\* memory_guarded.cpp and memory_protect.cpp: with no call under way and no guard held, each page
\* has its own protection again, also where a span crosses a seam between regions, where the walk
\* failed half way and was rolled back, under nested guards and writes, and where the changes of
\* two threads to one page nest.  Excepted are pages whose changes crossed: one thread put its
\* change back while a later one of another thread still stood, or changed a region that another
\* thread had split since the query.
SeamsSurvive == AllPutBack => \A p \in Pages \ (kept \cup crossed) : prot[p] \in {original[p], "free"}

\* memory_access.cpp and memory_protect.cpp: a snapshot of a protection that was only passing, or
\* that has been put back, outlives the calls that changed it only where the last invalidate_range
\* met a locked shard.
PassingStateIsForgotten ==
  AtRest => \A p \in Pages \ unswept : prot[p] # "free" => cached[p] \in {None, prot[p]}

\* memory_protect.cpp, operator=: "reassigning never silently abandons a protection change this
\* guard still owned".
ReassignRestores == SeamsSurvive

\* memory.hpp, write_bytes: "change protection to writable, copy, flush the instruction cache,
\* restore the original protection", whoever else writes there.  TLC finds it violated by two
\* write_bytes on one read-only page: the later one saves, and puts back, the earlier one's.
OriginalIsRestored == AllPutBack => \A p \in Pages \ kept : prot[p] \in {original[p], "free"}
=============================================================================
