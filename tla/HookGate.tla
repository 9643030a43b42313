------------------------------- MODULE HookGate -------------------------------
(***************************************************************************)
(* One hook and its CallGate: guarded calls through the trampoline         *)
(* (Hook::call, Hook::try_call) racing enable, disable, release and ~Hook  *)
(* (hook.hpp, hook.cpp, internal/hook_backend.hpp).                        *)
(*                                                                         *)
(* A thread may be inside several guarded calls at once, because the       *)
(* original it dispatched to can re-enter the detour; the gate's mutex is  *)
(* recursive.  What the original does is opaque: it may call again, toggle *)
(* the hook, or return.                                                    *)
(*                                                                         *)
(* The lifetime rule of Hook::call is assumed: the Hook object is there    *)
(* for every member call, so enable, disable and release do not overlap    *)
(* its destruction, and no thread destroys it from inside its own call.    *)
(***************************************************************************)
EXTENDS Integers

CONSTANTS Threads,   \* threads that call, toggle or destroy the hook
          MaxDepth   \* bound on the nesting of guarded calls in one thread

ASSUME DepthAssumption == MaxDepth \in Nat

VARIABLES m_gate,    \* the handle still references the gate
          m_impl,    \* "owned", "closing", "leaked" or "freed"
          status,    \* Impl::status
          armed,     \* the backend is enabled
          callable,  \* CallGate::callable is the trampoline, not null
          calls,     \* thread -> number of its calls that are inside the trampoline
          op         \* thread -> the operation it is in, innermost

vars == <<m_gate, m_impl, status, armed, callable, calls, op>>

Ops == {"none", "pinned", "enable", "enabling", "disable", "disabling", "releasing",
        "close", "unpublished"}
HookStates == {"Active", "Disabled", "Enabling", "Disabling"}

TypeOK ==
  /\ m_gate \in BOOLEAN
  /\ m_impl \in {"owned", "closing", "leaked", "freed"}
  /\ status \in HookStates
  /\ armed \in BOOLEAN
  /\ callable \in BOOLEAN
  /\ calls \in [Threads -> 0 .. MaxDepth]
  /\ op \in [Threads -> Ops]

\* inline_at_raw hands out a hook that its backend created enabled.
Init ==
  /\ m_gate = TRUE
  /\ m_impl = "owned"
  /\ status = "Active"
  /\ armed = TRUE
  /\ callable = TRUE
  /\ calls = [th \in Threads |-> 0]
  /\ op = [th \in Threads |-> "none"]

\* The recursive mutex is held across every dispatch and every backend toggle.
Holds(th) == calls[th] > 0 \/ op[th] \in {"enabling", "disabling"}

CanLock(th) == \A u \in Threads \ {th} : ~ Holds(u)

Goto(th, from, to) == /\ op[th] = from
                      /\ op' = [op EXCEPT ![th] = to]

-----------------------------------------------------------------------------
(* Hook::call and Hook::try_call: GuardedDispatch. *)

\* pin_call_gate; with an empty gate the call returns its default at once.
Pin(th) ==
  /\ Goto(th, "none", "pinned")
  /\ calls[th] < MaxDepth
  /\ m_gate
  /\ UNCHANGED <<m_gate, m_impl, status, armed, callable, calls>>

\* The gate is locked and its callable read: dispatch, or return the default.
Enter(th) ==
  /\ Goto(th, "pinned", "none")
  /\ CanLock(th)
  /\ calls' = IF callable THEN [calls EXCEPT ![th] = @ + 1] ELSE calls
  /\ UNCHANGED <<m_gate, m_impl, status, armed, callable>>

\* recursive_mutex::lock threw: a call returns its default, a toggle its error.
LockFails(th) ==
  /\ op[th] \in {"pinned", "enable", "disable"}
  /\ op' = [op EXCEPT ![th] = "none"]
  /\ UNCHANGED <<m_gate, m_impl, status, armed, callable, calls>>

Return(th) ==
  /\ op[th] = "none"
  /\ calls[th] > 0
  /\ calls' = [calls EXCEPT ![th] = @ - 1]
  /\ UNCHANGED <<m_gate, m_impl, status, armed, callable, op>>

-----------------------------------------------------------------------------
(* Hook::enable, Hook::disable, Hook::release. *)

StartToggle(th, to) ==
  /\ Goto(th, "none", to)
  /\ m_impl = "owned"
  /\ UNCHANGED <<m_gate, m_impl, status, armed, callable, calls>>

\* A toggle that relies on the status alone.
LockToggleUnlocked(th, from, to, expected, speculative) ==
  /\ op[th] = from
  /\ IF status = expected
     THEN status' = speculative /\ op' = [op EXCEPT ![th] = to]
     ELSE status' = status /\ op' = [op EXCEPT ![th] = "none"]
  /\ UNCHANGED <<m_gate, m_impl, armed, callable, calls>>

\* Under the lock the status is compared and exchanged; if it is not the expected one
\* (the hook already is as asked) the call is over.
LockToggle(th, from, to, expected, speculative) ==
  /\ op[th] = from
  /\ CanLock(th)
  /\ IF status = expected
     THEN status' = speculative /\ op' = [op EXCEPT ![th] = to]
     ELSE status' = status /\ op' = [op EXCEPT ![th] = "none"]
  /\ UNCHANGED <<m_gate, m_impl, armed, callable, calls>>

LockEnable(th)  == LockToggle(th, "enable", "enabling", "Disabled", "Enabling")
LockDisable(th) == LockToggle(th, "disable", "disabling", "Active", "Disabling")

\* The backend was toggled: publish the new status and the callable, unlock.
EnableDone(th) ==
  /\ Goto(th, "enabling", "none")
  /\ armed' = TRUE
  /\ status' = "Active"
  /\ callable' = TRUE
  /\ UNCHANGED <<m_gate, m_impl, calls>>

DisableDone(th) ==
  /\ Goto(th, "disabling", "none")
  /\ armed' = FALSE
  /\ status' = "Disabled"
  /\ callable' = FALSE
  /\ UNCHANGED <<m_gate, m_impl, calls>>

\* The backend refused: the status goes back to where it was.
ToggleFails(th) ==
  /\ \/ Goto(th, "enabling", "none") /\ status' = "Disabled"
     \/ Goto(th, "disabling", "none") /\ status' = "Active"
  /\ UNCHANGED <<m_gate, m_impl, armed, callable, calls>>

\* release() gives the Impl up first and clears the gate second.
Release(th) ==
  /\ Goto(th, "none", "releasing")
  /\ m_impl = "owned"
  /\ \A u \in Threads : op[u] \notin {"enable", "enabling", "disable", "disabling"}
  /\ m_impl' = "leaked"
  /\ UNCHANGED <<m_gate, status, armed, callable, calls>>

ReleaseGate(th) ==
  /\ Goto(th, "releasing", "none")
  /\ m_gate' = FALSE
  /\ UNCHANGED <<m_impl, status, armed, callable, calls>>

-----------------------------------------------------------------------------
(* ~Hook. *)

\* A teardown that does not wait for the calls in flight.
CloseUndrained(th) ==
  /\ Goto(th, "none", "unpublished")
  /\ calls[th] = 0
  /\ m_impl = "owned"
  /\ \A u \in Threads : op[u] \notin {"enable", "enabling", "disable", "disabling"}
  /\ m_gate' = FALSE
  /\ m_impl' = "closing"
  /\ UNCHANGED <<status, armed, callable, calls>>

\* The gate is taken out of the handle, so no later call can pin it.
Close(th) ==
  /\ Goto(th, "none", "close")
  /\ calls[th] = 0
  /\ m_impl = "owned"
  /\ \A u \in Threads : op[u] \notin {"enable", "enabling", "disable", "disabling"}
  /\ m_gate' = FALSE
  /\ m_impl' = "closing"
  /\ UNCHANGED <<status, armed, callable, calls>>

\* Under the loader lock, or if the gate cannot be locked, the backend is leaked with
\* its callable still published.
CloseLeaks(th) ==
  /\ Goto(th, "close", "none")
  /\ m_impl' = "leaked"
  /\ UNCHANGED <<m_gate, status, armed, callable, calls>>

\* Draining the calls that hold the lock, then publishing a null callable under it.
Unpublish(th) ==
  /\ Goto(th, "close", "unpublished")
  /\ CanLock(th)
  /\ callable' = FALSE
  /\ status' = "Disabled"
  /\ UNCHANGED <<m_gate, m_impl, armed, calls>>

\* The ledger decides (module HookLedger): restore and free, or leak a lower layer.
Dispose(th) ==
  /\ Goto(th, "unpublished", "none")
  /\ \/ m_impl' = "freed" /\ armed' = FALSE
     \/ m_impl' = "leaked" /\ armed' = armed
  /\ UNCHANGED <<m_gate, status, callable, calls>>

-----------------------------------------------------------------------------
Begin(th) == \/ Pin(th)
             \/ StartToggle(th, "enable") \/ StartToggle(th, "disable")
             \/ Release(th) \/ Close(th)

Continue(th) ==
  \/ Enter(th) \/ Return(th)
  \/ LockEnable(th) \/ LockDisable(th)
  \/ EnableDone(th) \/ DisableDone(th) \/ ToggleFails(th)
  \/ ReleaseGate(th)
  \/ Unpublish(th) \/ Dispose(th)

Next == \E th \in Threads : Begin(th) \/ Continue(th) \/ LockFails(th) \/ CloseLeaks(th)

Spec == Init /\ [][Next]_vars

\* Originals return and threads inside an operation keep running.  The mutex makes no
\* promise about who gets it next, and nothing relies on a failure to lock.
FairSpec == Spec /\ \A th \in Threads : WF_vars(Continue(th))

-----------------------------------------------------------------------------
(* Properties. *)

\* No guarded call is ever inside a trampoline that ~Hook has freed, in any nesting of
\* calls and toggles ("a teardown cannot free the trampoline while a call is in-flight").
NoFreedDispatch ==
  m_impl = "freed" => \A th \in Threads : calls[th] = 0

\* Whenever nobody holds the gate of a live hook, its status, what the backend does and
\* what a guarded call will do agree, and the status is a stable one: a failed or nested
\* toggle never leaves a hook that is armed but refuses calls, or the reverse.
StatusMatchesBackend ==
  m_impl = "owned" /\ (\A th \in Threads : ~ Holds(th)) =>
    /\ status \in {"Active", "Disabled"}
    /\ armed <=> status = "Active"
    /\ callable <=> status = "Active"

\* The thread that withdraws the callable, in disable or ~Hook, does so only once the calls
\* of all other threads have left the trampoline.
WithdrawalDrains ==
  [][callable /\ ~ callable' =>
       \A th \in Threads : op'[th] # op[th] => \A u \in Threads \ {th} : calls'[u] = 0]_vars

\* ~Hook always ends, however many threads keep calling: they can no longer pin the gate.
TeardownEnds ==
  \A th \in Threads : op[th] = "close" ~> m_impl \in {"leaked", "freed"}

\* hook.cpp, CallGate: no call is inside a freed trampoline, and between operations status, backend
\* and callable of a live hook agree.
GateIsSound == TypeOK /\ NoFreedDispatch /\ StatusMatchesBackend

\* hook.cpp, disable and ~Hook: the callable is withdrawn only once the calls of others have left,
\* and the teardown that waits for them ends.
ClosingDrains == WithdrawalDrains /\ TeardownEnds
=============================================================================
