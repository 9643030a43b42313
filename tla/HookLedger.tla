------------------------------ MODULE HookLedger ------------------------------
(***************************************************************************)
(* Installing and tearing down inline / mid hooks that may be layered on   *)
(* one target address: the process-wide HookLedger (internal/              *)
(* hook_ledger.hpp) together with the install verbs and ~Hook (hook.cpp)   *)
(* that drive it, and the code bytes they patch.                           *)
(*                                                                         *)
(* Each critical section of the ledger mutex is one step, as is each       *)
(* access of the backend to the prologue of the target.  A reservation is  *)
(* named by its place in the order in which reservations enter the ledger: *)
(* the code draws its id before it takes the lock, but ids are opaque to   *)
(* it and are only ever compared for equality.  So the vector `order' of a *)
(* target is a set of ids here, "newer" being "greater"; `pending', whose  *)
(* order is that of arrival and not that of creation, stays a sequence.    *)
(* The map entry of a target is absent exactly when its order is empty.    *)
(*                                                                         *)
(* What the prologue holds is abstracted to whose jump it is: the id of a  *)
(* hook, or Pristine for the bytes found before this kit touched them.     *)
(***************************************************************************)
EXTENDS Integers, Sequences

CONSTANTS Targets,   \* addresses that can be hooked
          Threads,   \* threads that install and destroy hooks
          MaxId      \* bound on the number of reservations

ASSUME ConstantsAssumption == /\ MaxId \in Nat
                              /\ Targets # {}

Ids == 1 .. MaxId
Pristine == 0

VARIABLES m_next_id,    \* the next reservation
          order,        \* target -> live or reserved hooks (TargetEntry::order)
          pending,      \* target -> queue for the serialization slot (TargetEntry::pending)
          prologue,     \* target -> whose jump its first bytes hold
          saved,        \* hook -> the prologue its backend saved when it was created
          trampolines,  \* hooks whose trampoline is allocated
          armed,        \* hooks whose backend is enabled
          handle,       \* hook -> state of the Hook that owns it
          target,       \* hook -> the address it patches (Impl::target)
          strict,       \* hooks installed with fail_if_already_hooked
          pc,           \* thread -> where it is in an install or a teardown
          cur           \* thread -> the hook it works on

ledgerVars == <<m_next_id, order, pending>>
codeVars   == <<prologue, saved, trampolines, armed>>
vars == <<ledgerVars, codeVars, handle, target, strict, pc, cur>>

HandleStates == {"none", "live", "closing", "leaked", "gone"}

\* States in which a thread waits for, respectively holds, the slot of a target.
Waiting == {"reserving", "closing"}
Holding == {"reserved", "saving", "created", "unwound", "leaking", "restoring",
            "freeing", "releasing"}
\* States in which the backend is reading or writing the prologue.
Patching == {"saving", "created", "restoring"}

PCs == {"idle", "unreserving"} \cup Waiting \cup Holding

TypeOK ==
  /\ m_next_id \in 1 .. (MaxId + 1)
  /\ order \in [Targets -> SUBSET Ids]
  /\ pending \in [Targets -> Seq(Ids)]
  /\ prologue \in [Targets -> Ids \cup {Pristine}]
  /\ saved \in [Ids -> Ids \cup {Pristine}]
  /\ trampolines \in SUBSET Ids
  /\ armed \in SUBSET trampolines
  /\ handle \in [Ids -> HandleStates]
  /\ target \in [Ids -> Targets]
  /\ strict \in SUBSET Ids
  /\ pc \in [Threads -> PCs]
  /\ cur \in [Threads -> Ids \cup {0}]

Init ==
  /\ m_next_id = 1
  /\ order = [t \in Targets |-> {}]
  /\ pending = [t \in Targets |-> <<>>]
  /\ prologue = [t \in Targets |-> Pristine]
  /\ saved = [i \in Ids |-> Pristine]
  /\ trampolines = {}
  /\ armed = {}
  /\ handle = [i \in Ids |-> "none"]
  /\ target = [i \in Ids |-> CHOOSE t \in Targets : TRUE]
  /\ strict = {}
  /\ pc = [th \in Threads |-> "idle"]
  /\ cur = [th \in Threads |-> 0]

-----------------------------------------------------------------------------
(* The critical sections of the ledger. *)

\* std::find followed by vector::erase.  An id is in a queue at most once: try_reserve_hook
\* queues a new one, and acquire_teardown_slot that of a hook commit_hook has taken out.
Erase(s, e) ==
  IF \E i \in 1 .. Len(s) : s[i] = e
  THEN LET k == CHOOSE i \in 1 .. Len(s) : s[i] = e
       IN  [i \in 1 .. (Len(s) - 1) |-> IF i < k THEN s[i] ELSE s[i + 1]]
  ELSE s

IsFrontIgnoringId(t, id) == Len(pending[t]) > 0

\* The wait predicate on m_install_cv: id is at the front of the queue.
IsFront(t, id) == Len(pending[t]) > 0 /\ pending[t][1] = id

commit_hook_keeping_slot(t, id) == UNCHANGED ledgerVars

commit_hook(t, id) ==
  /\ pending' = [pending EXCEPT ![t] = Erase(@, id)]
  /\ UNCHANGED <<m_next_id, order>>

release_hook(t, id) ==
  /\ order' = [order EXCEPT ![t] = @ \ {id}]
  /\ pending' = [pending EXCEPT ![t] = IF order[t] = {id} THEN <<>> ELSE Erase(@, id)]
  /\ UNCHANGED m_next_id

HasOlder(t, id) == \/ id \notin order[t]
                   \/ \E n \in order[t] : n < id

\* The count acquire_teardown_slot returns is only compared with zero.
HasNewer(t, id) == \/ id \notin order[t]
                   \/ \E n \in order[t] : n > id

release_teardown_slot(t, id) ==
  /\ pending' = [pending EXCEPT ![t] = Erase(@, id)]
  /\ UNCHANGED <<m_next_id, order>>

(* The backend writes a hook's jump, or the bytes it saved, only if that changes *)
(* whether the hook is enabled.                                                  *)

BackendEnable(id) ==
  /\ armed' = armed \cup {id}
  /\ prologue' = IF id \in armed THEN prologue ELSE [prologue EXCEPT ![target[id]] = id]

BackendDisable(id) ==
  /\ armed' = armed \ {id}
  /\ prologue' = IF id \in armed THEN [prologue EXCEPT ![target[id]] = saved[id]] ELSE prologue

Goto(th, from, to) == /\ pc[th] = from
                      /\ pc' = [pc EXCEPT ![th] = to]

Finish(th, from) == /\ Goto(th, from, "idle")
                    /\ cur' = [cur EXCEPT ![th] = 0]

-----------------------------------------------------------------------------
(* Installation: preflight_target, inline_at_raw, mid_at. *)

\* try_reserve_hook up to its wait.  A strict request on a tracked target is refused.
Reserve(th, t, refuse_if_hooked) ==
  LET id == m_next_id IN
  /\ id <= MaxId
  /\ refuse_if_hooked => order[t] = {}
  /\ Goto(th, "idle", "reserving")
  /\ cur' = [cur EXCEPT ![th] = id]
  /\ target' = [target EXCEPT ![id] = t]
  /\ strict' = IF refuse_if_hooked THEN strict \cup {id} ELSE strict
  /\ m_next_id' = id + 1
  /\ order' = [order EXCEPT ![t] = @ \cup {id}]
  /\ pending' = [pending EXCEPT ![t] = Append(@, id)]
  /\ UNCHANGED <<codeVars, handle>>

\* On a tracked target order.push_back may succeed and pending.push_back fail.
ReserveRunsOutOfMemory(th, t) ==
  LET id == m_next_id IN
  /\ id <= MaxId
  /\ order[t] # {}
  /\ Goto(th, "idle", "unreserving")
  /\ cur' = [cur EXCEPT ![th] = id]
  /\ target' = [target EXCEPT ![id] = t]
  /\ m_next_id' = id + 1
  /\ order' = [order EXCEPT ![t] = @ \cup {id}]
  /\ UNCHANGED <<pending, codeVars, handle, strict>>

\* The catch block then releases the id in a second critical section.
Unreserve(th) ==
  /\ Finish(th, "unreserving")
  /\ release_hook(target[cur[th]], cur[th])
  /\ UNCHANGED <<codeVars, handle, target, strict>>

\* m_install_cv.wait returns once the reservation is at the front.
Reserved(th) ==
  /\ Goto(th, "reserving", "reserved")
  /\ IsFront(target[cur[th]], cur[th])
  /\ UNCHANGED <<ledgerVars, codeVars, handle, target, strict, cur>>

\* A refusal of the pre-flight (a foreign jump under fail_if_already_hooked, a risky
\* prologue under Prologue::Fail), no allocator, no module reference or a failure of
\* the backend: the reservation is rolled back, nothing was patched.
InstallFails(th) ==
  /\ Finish(th, "reserved")
  /\ release_hook(target[cur[th]], cur[th])
  /\ UNCHANGED <<codeVars, handle, target, strict>>

\* The backend allocates the trampoline and saves the bytes it will overwrite ...
BackendCreate(th) ==
  LET id == cur[th] IN
  /\ Goto(th, "reserved", "saving")
  /\ saved' = [saved EXCEPT ![id] = prologue[target[id]]]
  /\ trampolines' = trampolines \cup {id}
  /\ UNCHANGED <<ledgerVars, prologue, armed, handle, target, strict, cur>>

\* ... and then writes its jump over them.
BackendPatch(th) ==
  LET id == cur[th] IN
  /\ Goto(th, "saving", "created")
  /\ BackendEnable(id)
  /\ UNCHANGED <<ledgerVars, saved, trampolines, handle, target, strict, cur>>

\* The Impl, the gate and the log line succeeded: commit, hand the Hook out.
Commit(th) ==
  LET id == cur[th] IN
  /\ Finish(th, "created")
  /\ commit_hook(target[id], id)
  /\ handle' = [handle EXCEPT ![id] = "live"]
  /\ UNCHANGED <<codeVars, target, strict>>

\* One of them threw: unwinding destroys the backend, which restores the prologue
\* and frees the trampoline, before the catch block rolls the reservation back.
Unwind(th) ==
  LET id == cur[th] IN
  /\ Goto(th, "created", "unwound")
  /\ BackendDisable(id)
  /\ trampolines' = trampolines \ {id}
  /\ UNCHANGED <<ledgerVars, saved, handle, target, strict, cur>>

RollBack(th) ==
  /\ Finish(th, "unwound")
  /\ release_hook(target[cur[th]], cur[th])
  /\ UNCHANGED <<codeVars, handle, target, strict>>

-----------------------------------------------------------------------------
(* Teardown: ~Hook and release(). *)

\* Hook::release, or ~Hook under the loader lock or without its call gate: the
\* backend stays installed, the ledger is not told.
Abandon(id) ==
  /\ handle[id] = "live"
  /\ handle' = [handle EXCEPT ![id] = "leaked"]
  /\ UNCHANGED <<ledgerVars, codeVars, target, strict, pc, cur>>

\* acquire_teardown_slot up to its wait.
BeginTeardown(th, id) ==
  /\ handle[id] = "live"
  /\ id \in order[target[id]]
  /\ Goto(th, "idle", "closing")
  /\ cur' = [cur EXCEPT ![th] = id]
  /\ handle' = [handle EXCEPT ![id] = "closing"]
  /\ pending' = [pending EXCEPT ![target[id]] = Append(@, id)]
  /\ UNCHANGED <<m_next_id, order, codeVars, target, strict>>

\* pending.push_back failed in acquire_teardown_slot: the caller takes the leak branch.
TeardownRunsOutOfMemory(id) ==
  /\ handle[id] = "live"
  /\ handle' = [handle EXCEPT ![id] = "leaked"]
  /\ release_teardown_slot(target[id], id)
  /\ UNCHANGED <<codeVars, target, strict, pc, cur>>

\* The slot is held: restore if this is the newest layer, leak otherwise.
TeardownTurn(th) ==
  LET id == cur[th] IN
  /\ pc[th] = "closing"
  /\ IsFront(target[id], id)
  /\ Goto(th, "closing", IF HasNewer(target[id], id) THEN "leaking" ELSE "restoring")
  /\ UNCHANGED <<ledgerVars, codeVars, handle, target, strict, cur>>

Leak(th) ==
  LET id == cur[th] IN
  /\ Finish(th, "leaking")
  /\ handle' = [handle EXCEPT ![id] = "leaked"]
  /\ release_teardown_slot(target[id], id)
  /\ UNCHANGED <<codeVars, target, strict>>

\* m_impl.reset(): the backend writes the saved bytes back ...
Restore(th) ==
  LET id == cur[th] IN
  /\ Goto(th, "restoring", "freeing")
  /\ BackendDisable(id)
  /\ UNCHANGED <<ledgerVars, saved, trampolines, handle, target, strict, cur>>

\* ... and frees its trampoline.
FreeTrampoline(th) ==
  LET id == cur[th] IN
  /\ Goto(th, "freeing", "releasing")
  /\ trampolines' = trampolines \ {id}
  /\ UNCHANGED <<ledgerVars, prologue, saved, armed, handle, target, strict, cur>>

ReleaseHook(th) ==
  LET id == cur[th] IN
  /\ Finish(th, "releasing")
  /\ release_hook(target[id], id)
  /\ handle' = [handle EXCEPT ![id] = "gone"]
  /\ UNCHANGED <<codeVars, target, strict>>

-----------------------------------------------------------------------------
(* Hook::enable and Hook::disable.  Neither consults the ledger. *)

Enable(id) ==
  /\ handle[id] = "live"
  /\ BackendEnable(id)
  /\ UNCHANGED <<ledgerVars, saved, trampolines, handle, target, strict, pc, cur>>

Disable(id) ==
  /\ handle[id] = "live"
  /\ BackendDisable(id)
  /\ UNCHANGED <<ledgerVars, saved, trampolines, handle, target, strict, pc, cur>>

SoleLayer(id) == order[target[id]] = {id}

-----------------------------------------------------------------------------
Start(th) ==
  \/ \E t \in Targets, refuse_if_hooked \in BOOLEAN : Reserve(th, t, refuse_if_hooked)
  \/ \E t \in Targets : ReserveRunsOutOfMemory(th, t)
  \/ \E id \in Ids : BeginTeardown(th, id)

Continue(th) ==
  \/ Unreserve(th) \/ Reserved(th) \/ InstallFails(th)
  \/ BackendCreate(th) \/ BackendPatch(th) \/ Commit(th) \/ Unwind(th) \/ RollBack(th)
  \/ TeardownTurn(th) \/ Leak(th)
  \/ Restore(th) \/ FreeTrampoline(th) \/ ReleaseHook(th)

Next == \/ \E th \in Threads : Start(th) \/ Continue(th)
        \/ \E id \in Ids : \/ Abandon(id)
                           \/ TeardownRunsOutOfMemory(id)
                           \/ SoleLayer(id) /\ Enable(id)
                           \/ SoleLayer(id) /\ Disable(id)

\* Hooks are enabled and disabled only while nothing else is layered on their target.
Spec == Init /\ [][Next]_vars

\* A thread inside an install or a teardown keeps running; nobody has to start one.
FairSpec == Spec /\ \A th \in Threads : WF_vars(Continue(th))

\* What the code allows: any live hook may be enabled or disabled at any time.
UnrestrictedSpec ==
  Init /\ [][Next \/ \E id \in Ids : Enable(id) \/ Disable(id)]_vars

-----------------------------------------------------------------------------
(* Properties. *)

\* No two threads ever access the prologue of one target at the same time, whatever
\* mix of installs, roll-backs and teardowns is in flight ("two permissive same-target
\* installs cannot run their backend patch operations concurrently").
PatchExclusion ==
  \A th1, th2 \in Threads :
    /\ pc[th1] \in Patching
    /\ pc[th2] \in Patching
    /\ target[cur[th1]] = target[cur[th2]]
    => th1 = th2

\* Code never jumps into a freed trampoline: the prologue of a target, and the resume
\* path of every allocated trampoline, lead to a trampoline that is still allocated.
\* This is the use-after-free the leak branch of ~Hook exists to avoid.
NoDanglingJump ==
  /\ \A t \in Targets : prologue[t] \in trampolines \cup {Pristine}
  /\ \A id \in trampolines : saved[id] \in trampolines \cup {Pristine}

\* A target the ledger does not track carries its original bytes, so is_target_hooked
\* and the fail_if_already_hooked gate never miss a patch of this kit.
UntrackedIsPristine ==
  \A t \in Targets : order[t] = {} => prologue[t] = Pristine

Reached(t, id) ==
  \/ prologue[t] = id
  \/ \E n \in armed : n > id /\ target[n] = t /\ saved[n] = id

\* An enabled hook whose owner still holds it, or has leaked it, stays reached by calls
\* of its target: no teardown of another layer cuts it out of the chain of jumps from
\* the prologue over the newest layer to the oldest.
LiveHooksAreReached ==
  \A id \in armed : handle[id] \in {"live", "leaked"} => Reached(target[id], id)

\* A hook installed with fail_if_already_hooked never sits on top of another hook of
\* this kit, even when several strict installs of one target race.
StrictNeverLayers ==
  \A id \in strict : id \in trampolines => saved[id] = Pristine

\* Every reservation and every teardown gets its turn: nobody waits for the slot of a
\* target forever, whichever of the queued operations fail, roll back or leak.
EveryoneGetsTheSlot ==
  \A th \in Threads : pc[th] \in Waiting ~> pc[th] \notin Waiting

\* hook.cpp and hook_ledger.cpp, taken together: the bookkeeping is well formed, patching is
\* exclusive, no jump dangles, an untracked target is pristine and strict hooks sit at the bottom,
\* in any mix of installs, roll-backs and teardowns.
PatchesAreSound ==
  TypeOK /\ PatchExclusion /\ NoDanglingJump /\ UntrackedIsPristine /\ StrictNeverLayers
=============================================================================
