---------------------------- MODULE HookGateProofs ----------------------------
(***************************************************************************)
(* Proofs about HookGate, for any set of threads and any nesting depth.    *)
(*                                                                         *)
(* The inductive invariant adds to the properties who may be where: the    *)
(* recursive mutex has one owner, toggles only run on an owned hook, one   *)
(* thread at a time destroys it, and once it has published the null        *)
(* callable nobody is inside the trampoline or can get there.              *)
(***************************************************************************)
EXTENDS HookGate, TLAPS

Toggling == {"enable", "enabling", "disable", "disabling"}
Closing  == {"close", "unpublished"}

\* The gate's mutex has at most one owner.
OneOwner == \A th, u \in Threads : Holds(th) /\ Holds(u) => th = u

\* Toggles run only while the handle owns the hook; ~Hook runs in one thread, which is
\* in no guarded call of its own.  A pinned call still has room for one more level.
Stages ==
  /\ \A th \in Threads : op[th] = "pinned" => calls[th] < MaxDepth
  /\ \A th \in Threads : op[th] \in Toggling => m_impl = "owned"
  /\ \A th \in Threads : op[th] \in Closing => m_impl = "closing" /\ calls[th] = 0
  /\ \A th, u \in Threads : op[th] \in Closing /\ op[u] \in Closing => th = u

\* After the null callable is published the trampoline is empty and stays empty.
Withdrawn ==
  (m_impl = "freed" \/ \E th \in Threads : op[th] = "unpublished") =>
    ~ callable /\ \A th \in Threads : calls[th] = 0

\* What the status says of the backend and the callable, also in the middle of a toggle.
StatusTells ==
  m_impl = "owned" =>
    /\ armed <=> status \in {"Active", "Disabling"}
    /\ callable <=> status \in {"Active", "Disabling"}
    /\ status = "Enabling" <=> \E th \in Threads : op[th] = "enabling"
    /\ status = "Disabling" <=> \E th \in Threads : op[th] = "disabling"

GInv == TypeOK /\ OneOwner /\ Stages /\ Withdrawn /\ StatusTells

LEMMA InitEstablishesGInv == Init => GInv
  BY DepthAssumption DEF Init, GInv, TypeOK, OneOwner, Stages, Withdrawn, StatusTells, Holds,
     HookStates, Ops, Toggling, Closing

LEMMA NextKeepsGInv == GInv /\ [Next]_vars => GInv'
<1> SUFFICES ASSUME GInv, [Next]_vars PROVE GInv'
  OBVIOUS
<1> USE DepthAssumption DEF GInv, TypeOK, OneOwner, Stages, Withdrawn, StatusTells, Holds,
     HookStates, Ops, Toggling, Closing, Goto
<1>1. CASE UNCHANGED vars
  BY Zenon, <1>1 DEF vars
<1>2. ASSUME NEW th \in Threads, Pin(th) PROVE GInv'
  BY Zenon, <1>2 DEF Pin
<1>3. ASSUME NEW th \in Threads, Enter(th) PROVE GInv'
  BY <1>3 DEF Enter, CanLock
<1>4. ASSUME NEW th \in Threads, LockFails(th) PROVE GInv'
  BY Zenon, <1>4 DEF LockFails
<1>5. ASSUME NEW th \in Threads, Return(th) PROVE GInv'
  BY <1>5 DEF Return
<1>6. ASSUME NEW th \in Threads, StartToggle(th, "enable") \/ StartToggle(th, "disable")
      PROVE  GInv'
  BY <1>6 DEF StartToggle
<1>7. ASSUME NEW th \in Threads, LockEnable(th) PROVE GInv'
  BY <1>7 DEF LockEnable, LockToggle, CanLock
<1>8. ASSUME NEW th \in Threads, LockDisable(th) PROVE GInv'
  BY <1>8 DEF LockDisable, LockToggle, CanLock
<1>9. ASSUME NEW th \in Threads, EnableDone(th) PROVE GInv'
  BY Zenon, <1>9 DEF EnableDone
<1>10. ASSUME NEW th \in Threads, DisableDone(th) PROVE GInv'
  BY Zenon, <1>10 DEF DisableDone
<1>11. ASSUME NEW th \in Threads, ToggleFails(th) PROVE GInv'
  BY <1>11 DEF ToggleFails
<1>12. ASSUME NEW th \in Threads, Release(th) PROVE GInv'
  BY Zenon, <1>12 DEF Release
<1>13. ASSUME NEW th \in Threads, ReleaseGate(th) PROVE GInv'
  BY Zenon, <1>13 DEF ReleaseGate
<1>14. ASSUME NEW th \in Threads, Close(th) PROVE GInv'
  BY Zenon, <1>14 DEF Close
<1>15. ASSUME NEW th \in Threads, CloseLeaks(th) PROVE GInv'
  BY Zenon, <1>15 DEF CloseLeaks
<1>16. ASSUME NEW th \in Threads, Unpublish(th) PROVE GInv'
  <2>1. \A u \in Threads : calls[u] = 0
    BY <1>16 DEF Unpublish, CanLock
  <2>2. TypeOK' /\ OneOwner' /\ Stages'
    BY Zenon, <1>16 DEF Unpublish
  <2>3. Withdrawn'
    BY Zenon, <1>16, <2>1 DEF Unpublish
  <2>4. StatusTells'
    BY Zenon, <1>16 DEF Unpublish
  <2> QED
    BY Zenon, <2>2, <2>3, <2>4
<1>17. ASSUME NEW th \in Threads, Dispose(th) PROVE GInv'
  BY Zenon, <1>17 DEF Dispose
<1> QED
  BY Zenon, <1>1, <1>2, <1>3, <1>4, <1>5, <1>6, <1>7, <1>8, <1>9, <1>10, <1>11, <1>12, <1>13,
     <1>14, <1>15, <1>16, <1>17 DEF Next, Begin, Continue

\* The invariant holds in every reachable state.
THEOREM GateInvariantHolds == Spec => []GInv
  BY InitEstablishesGInv, NextKeepsGInv, PTL DEF Spec

\* Type correctness; in particular the nesting count of guarded calls stays in its range.
THEOREM GateTypeCorrect == Spec => []TypeOK
  BY GateInvariantHolds, PTL DEF GInv

\* No guarded call is inside a trampoline that ~Hook has freed.
THEOREM NoCallInFreedTrampoline == Spec => []NoFreedDispatch
<1>1. GInv => NoFreedDispatch
  BY Zenon DEF GInv, Withdrawn, NoFreedDispatch
<1> QED
  BY <1>1, GateInvariantHolds, PTL

\* Between operations, status, backend and callable of a live hook agree.
THEOREM StatusIsTruthful == Spec => []StatusMatchesBackend
<1>1. GInv => StatusMatchesBackend
  BY Zenon DEF GInv, TypeOK, HookStates, StatusTells, StatusMatchesBackend, Holds
<1> QED
  BY <1>1, GateInvariantHolds, PTL

\* The thread that withdraws the callable, in disable or ~Hook, does so only after all
\* other threads' calls returned.
THEOREM WithdrawalDrainsCalls == Spec => WithdrawalDrains
<1> DEFINE Drained == callable /\ ~ callable' =>
             \A th \in Threads : op'[th] # op[th] => \A u \in Threads \ {th} : calls'[u] = 0
<1>1. GInv /\ [Next]_vars => [Drained]_vars
  <2> SUFFICES ASSUME GInv, Next, callable, ~ callable',
                      NEW w \in Threads, op'[w] # op[w]
               PROVE  \A u \in Threads \ {w} : calls'[u] = 0
    BY Zenon DEF vars
  <2>1. PICK th \in Threads : DisableDone(th) \/ Unpublish(th)
    BY Zenon DEF Next, Begin, Continue, Pin, Enter, LockFails, Return, StartToggle, LockEnable,
       LockDisable, LockToggle, EnableDone, ToggleFails, Release, ReleaseGate, Close,
       CloseLeaks, Dispose
  <2>2. th = w
    BY Zenon, <2>1 DEF DisableDone, Unpublish, Goto, GInv, TypeOK
  <2>3. \A u \in Threads \ {th} : calls'[u] = 0
    BY <2>1 DEF DisableDone, Unpublish, CanLock, Goto, GInv, TypeOK, OneOwner, Holds
  <2> QED
    BY Zenon, <2>2, <2>3
<1> QED
  BY <1>1, GateInvariantHolds, PTL DEF Spec, WithdrawalDrains

\* The gate is sound for any set of threads and nesting depth.
THEOREM GateStaysSound == Spec => []GateIsSound
  BY GateTypeCorrect, NoCallInFreedTrampoline, StatusIsTruthful, PTL DEF GateIsSound
=============================================================================
