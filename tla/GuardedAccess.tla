--------------------------- MODULE GuardedAccess ----------------------------
(***************************************************************************)
(* Guarded reads and writes of foreign memory on MinGW                     *)
(* (internal/memory_guarded.cpp): a vectored exception handler, installed  *)
(* by the first access and removed after the accesses that rely on it have *)
(* left.  An access raises a counter in its thread's stripe, then looks at *)
(* the handle; the remover withdraws the handle, then adds up the stripes, *)
(* one at a time.                                                          *)
(*                                                                         *)
(* A counter is the set of the threads it counts.  A page is readable,     *)
(* gone, fenced by PAGE_GUARD, or tripped: fenced, with the guard bit      *)
(* cleared by the system when it dispatched a fault.  Removers are threads *)
(* of teardown.                                                            *)
(***************************************************************************)
EXTENDS Integers, FiniteSets

CONSTANTS Threads, Removers, Stripes, StripeOf, Pages, Fenced, MaxCalls, MaxChanges, None

ASSUME GuardedAssumption ==
  /\ StripeOf \in [Threads -> Stripes]
  /\ Threads \cap Removers = {}
  /\ None \notin Threads \cup Removers
  /\ Fenced \subseteq Pages

VARIABLES handle,       \* s_veh_handle is not null
          registered,   \* the handler is in the system's list
          index,        \* s_veh_tls_index is allocated
          mutex,        \* s_veh_mutex: None or its holder
          counted,      \* stripe -> the threads in its count
          slot,         \* thread -> its TLS slot holds a guard
          page,
          pc,
          kind,         \* "copy" (a read or a write) or "region"
          todo,         \* thread -> pages it has still to touch, or the page it faulted on
          scan,         \* remover -> [left, busy]: stripes not read yet, and a count was not zero
          bare,         \* history: fences that could not be put back
          calls, changes

vars == <<handle, registered, index, mutex, counted, slot, page, pc, kind, todo, scan, bare, calls, changes>>

Init ==
  /\ handle = FALSE /\ registered = FALSE /\ index = FALSE /\ mutex = None
  /\ counted = [s \in Stripes |-> {}]
  /\ slot = [t \in Threads |-> FALSE]
  /\ page = [p \in Pages |-> IF p \in Fenced THEN "fenced" ELSE "ok"]
  /\ pc = [t \in Threads \cup Removers |-> "idle"]
  /\ kind = [t \in Threads |-> "copy"]
  /\ todo = [t \in Threads |-> {}]
  /\ scan = [r \in Removers |-> [left |-> {}, busy |-> FALSE]]
  /\ bare = {} /\ calls = 0 /\ changes = 0

Goto(t, where) == pc' = [pc EXCEPT ![t] = where]

-----------------------------------------------------------------------------
(* ensure_veh_installed. *)

\* An access to a range of pages begins; the handler may be there already.
Call(t) ==
  /\ pc[t] = "idle" /\ calls < MaxCalls
  /\ \E k \in {"copy", "region"}, range \in SUBSET Pages \ {{}} :
       /\ kind' = [kind EXCEPT ![t] = k]
       /\ todo' = [todo EXCEPT ![t] = range]
  /\ Goto(t, IF handle THEN "count" ELSE "lock")
  /\ calls' = calls + 1
  /\ UNCHANGED <<handle, registered, index, mutex, counted, slot, page, scan, bare, changes>>

EnsureLock(t) ==
  /\ pc[t] = "lock" /\ mutex = None
  /\ mutex' = t
  /\ Goto(t, "install")
  /\ UNCHANGED <<handle, registered, index, counted, slot, page, kind, todo, scan, bare, calls, changes>>

\* Under the mutex: somebody was faster, or TlsAlloc or AddVectoredExceptionHandler fails, or
\* the handler is in the list.
Install(t) ==
  /\ pc[t] = "install"
  /\ \/ /\ handle
        /\ mutex' = None /\ Goto(t, "count") /\ UNCHANGED <<registered, index>>
     \/ /\ ~ handle
        /\ index' \in {index, TRUE}
        /\ mutex' = None /\ Goto(t, "count") /\ UNCHANGED registered
     \/ /\ ~ handle
        /\ index' = TRUE /\ registered' = TRUE
        /\ Goto(t, "publish") /\ UNCHANGED mutex
  /\ UNCHANGED <<handle, counted, slot, page, kind, todo, scan, bare, calls, changes>>

PublishHandle(t) ==
  /\ pc[t] = "publish"
  /\ handle' = TRUE /\ mutex' = None
  /\ Goto(t, "count")
  /\ UNCHANGED <<registered, index, counted, slot, page, kind, todo, scan, bare, calls, changes>>

-----------------------------------------------------------------------------
(* veh_read_bytes, veh_write_bytes and run_guarded_region. *)

\* The count first, then the decision.
Count(t) ==
  /\ pc[t] = "count"
  /\ counted' = [counted EXCEPT ![StripeOf[t]] = @ \cup {t}]
  /\ Goto(t, "decide")
  /\ UNCHANGED <<handle, registered, index, mutex, slot, page, kind, todo, scan, bare, calls, changes>>

\* Without the handler a copy goes through VirtualQuery and the process-memory API; an access
\* in place is refused.
Decide(t) ==
  /\ pc[t] = "decide"
  /\ Goto(t, IF handle THEN "arm" ELSE IF kind[t] = "copy" THEN "validate" ELSE "leave")
  /\ UNCHANGED <<handle, registered, index, mutex, counted, slot, page, kind, todo, scan, bare, calls, changes>>

\* veh_guarded_copy and veh_guarded_region: the range goes to the thread's slot, then the
\* pages are touched.
Arm(t) ==
  /\ pc[t] = "arm"
  /\ slot' = [slot EXCEPT ![t] = TRUE]
  /\ Goto(t, "touch")
  /\ UNCHANGED <<handle, registered, index, mutex, counted, page, kind, todo, scan, bare, calls, changes>>

\* A fault is claimed when the handler is in the list and the slot is armed; otherwise it
\* reaches the host.
Touch(t) ==
  /\ pc[t] = "touch" /\ todo[t] # {}
  /\ \E p \in todo[t] :
       /\ todo' = [todo EXCEPT ![t] = IF page[p] \in {"ok", "tripped"} THEN @ \ {p} ELSE {p}]
       /\ page' = IF page[p] = "fenced" THEN [page EXCEPT ![p] = "tripped"] ELSE page
       /\ Goto(t, IF page[p] \in {"ok", "tripped"} THEN "touch"
                  ELSE IF ~ (registered /\ slot[t]) THEN "crash"
                  ELSE IF page[p] = "fenced" THEN "query" ELSE "handler")
  /\ UNCHANGED <<handle, registered, index, mutex, counted, slot, kind, scan, bare, calls, changes>>

\* A call of the system fails; the fence stays down.
RearmFails(t) ==
  /\ changes < MaxChanges
  /\ bare' = bare \cup todo[t] /\ changes' = changes + 1
  /\ Goto(t, "handler")

\* rearm_guard_page_if_consumed, for a fault the system raised because of PAGE_GUARD: VirtualQuery,
\* which may fail or find the page gone.
RearmQuery(t) ==
  /\ pc[t] = "query"
  /\ \/ /\ Goto(t, IF \E p \in todo[t] : page[p] = "gone" THEN "handler" ELSE "protect")
        /\ UNCHANGED <<bare, changes>>
     \/ RearmFails(t)
  /\ UNCHANGED <<handle, registered, index, mutex, counted, slot, page, kind, todo, scan, calls>>

\* VirtualProtect: the guard bit the system cleared is set again on whatever the page is now.
RearmProtect(t) ==
  /\ pc[t] = "protect"
  /\ \/ /\ page' = [p \in Pages |-> IF p \in todo[t] /\ page[p] # "gone" THEN "fenced" ELSE page[p]]
        /\ Goto(t, "handler") /\ UNCHANGED <<bare, changes>>
     \/ RearmFails(t) /\ UNCHANGED page
  /\ UNCHANGED <<handle, registered, index, mutex, counted, slot, kind, todo, scan, calls>>

\* dmk_veh_read_handler, after the fence: the slot is cleared, and the access fails.
Handler(t) ==
  /\ pc[t] = "handler"
  /\ slot' = [slot EXCEPT ![t] = FALSE]
  /\ Goto(t, "leave")
  /\ UNCHANGED <<handle, registered, index, mutex, counted, page, kind, todo, scan, bare, calls, changes>>

TouchEnds(t) ==
  /\ pc[t] = "touch" /\ todo[t] = {}
  /\ slot' = [slot EXCEPT ![t] = FALSE]
  /\ Goto(t, "leave")
  /\ UNCHANGED <<handle, registered, index, mutex, counted, page, kind, todo, scan, bare, calls, changes>>

\* virtualquery_validated_copy and _write: a page that is not plainly accessible ends it.
Validate(t) ==
  /\ pc[t] = "validate"
  /\ IF todo[t] = {} THEN Goto(t, "leave") /\ UNCHANGED todo
     ELSE \E p \in todo[t] :
            /\ todo' = [todo EXCEPT ![t] = @ \ {p}]
            /\ Goto(t, IF page[p] \in {"ok", "tripped"} THEN "validate" ELSE "leave")
  /\ UNCHANGED <<handle, registered, index, mutex, counted, slot, page, kind, scan, bare, calls, changes>>

Leave(t) ==
  /\ pc[t] = "leave"
  /\ counted' = [counted EXCEPT ![StripeOf[t]] = @ \ {t}]
  /\ todo' = [todo EXCEPT ![t] = {}]
  /\ Goto(t, "idle")
  /\ UNCHANGED <<handle, registered, index, mutex, slot, page, kind, scan, bare, calls, changes>>

-----------------------------------------------------------------------------
(* remove_veh_handler. *)

Remove(r) ==
  /\ pc[r] = "idle" /\ mutex = None
  /\ IF handle THEN mutex' = r /\ Goto(r, "withdraw") ELSE UNCHANGED mutex /\ Goto(r, "done")
  /\ UNCHANGED <<handle, registered, index, counted, slot, page, kind, todo, scan, bare, calls, changes>>

Withdraw(r) ==
  /\ pc[r] = "withdraw"
  /\ handle' = FALSE
  /\ scan' = [scan EXCEPT ![r] = [left |-> Stripes, busy |-> FALSE]]
  /\ Goto(r, "drain")
  /\ UNCHANGED <<registered, index, mutex, counted, slot, page, kind, todo, bare, calls, changes>>

ReadFirstStripe(r) ==
  /\ pc[r] = "drain" /\ scan[r].left # {}
  /\ \E s \in scan[r].left : scan' = [scan EXCEPT ![r] = [left |-> {}, busy |-> counted[s] # {}]]
  /\ UNCHANGED <<handle, registered, index, mutex, counted, slot, page, pc, kind, todo, bare, calls, changes>>

\* One stripe of the sum.
ReadStripe(r) ==
  /\ pc[r] = "drain" /\ scan[r].left # {}
  /\ \E s \in scan[r].left :
       scan' = [scan EXCEPT ![r] = [left |-> @.left \ {s}, busy |-> @.busy \/ counted[s] # {}]]
  /\ UNCHANGED <<handle, registered, index, mutex, counted, slot, page, pc, kind, todo, bare, calls, changes>>

\* The sum was not zero: yield or sleep, and once more.  Otherwise the handler goes.
Summed(r) ==
  /\ pc[r] = "drain" /\ scan[r].left = {}
  /\ IF scan[r].busy
     THEN /\ scan' = [scan EXCEPT ![r] = [left |-> Stripes, busy |-> FALSE]]
          /\ UNCHANGED <<registered, mutex, pc>>
     ELSE /\ registered' = FALSE /\ mutex' = None
          /\ Goto(r, "done") /\ UNCHANGED scan
  /\ UNCHANGED <<handle, index, counted, slot, page, kind, todo, bare, calls, changes>>

\* The host unmaps or maps a page; a page it maps again has no fence.
Change(p) ==
  /\ changes < MaxChanges
  /\ page' = [page EXCEPT ![p] = IF @ = "gone" THEN "ok" ELSE "gone"]
  /\ changes' = changes + 1
  /\ UNCHANGED <<handle, registered, index, mutex, counted, slot, pc, kind, todo, scan, bare, calls>>

Access(t) ==
  \/ EnsureLock(t) \/ Install(t) \/ PublishHandle(t) \/ Count(t) \/ Decide(t) \/ Arm(t)
  \/ Touch(t) \/ RearmQuery(t) \/ RearmProtect(t) \/ Handler(t) \/ TouchEnds(t) \/ Validate(t) \/ Leave(t)

Removal(r) == Remove(r) \/ Withdraw(r) \/ ReadStripe(r) \/ Summed(r)

Next ==
  \/ \E t \in Threads : Call(t) \/ Access(t)
  \/ \E r \in Removers : Removal(r)
  \/ \E p \in Pages : Change(p)

Spec == Init /\ [][Next]_vars
FairSpec ==
  /\ Spec
  /\ \A t \in Threads : WF_vars(Access(t))
  /\ \A r \in Removers : WF_vars(Removal(r))

-----------------------------------------------------------------------------
Armed(t) == pc[t] \in {"arm", "touch", "query", "protect", "handler"}

\* memory_guarded.cpp, remove_veh_handler: the handler is in the list for as long as any access
\* relies on it, so that "a fault cannot arrive after the handler is gone" and no guarded access
\* brings the host down.
HandlerOutlivesAccess == \A t \in Threads : (Armed(t) => registered) /\ pc[t] # "crash"

\* memory_guarded.cpp, rearm_guard_page_if_consumed: a fence that a guarded access has tripped
\* is back before the handler lets the access fail, unless the system refused to put it back.
FenceIsRestored ==
  \A p \in Pages \ bare :
    page[p] = "tripped" => \E t \in Threads : pc[t] \in {"query", "protect"} /\ todo[t] = {p}

\* memory_guarded.cpp, remove_veh_handler: the drain ends, and so does every access.
RemovalEnds == <>[](\A t \in Threads \cup Removers : pc[t] \in {"idle", "done"})

\* memory_guarded.cpp: while any guarded access relies on the handler it is registered, and every
\* fence an access tripped is back when it returns, but for those the system refused to put back.
AccessIsGuarded == HandlerOutlivesAccess /\ FenceIsRestored
=============================================================================
