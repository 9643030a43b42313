------------------------------ MODULE InputHold ------------------------------
(***************************************************************************)
(* Hold bindings: the poll thread that turns key states into press and     *)
(* release edges (InputPoller), the per-binding HoldGate that turns the    *)
(* edges of all combos of a binding into one held state, and the calls     *)
(* that reshape the binding set, retire a binding or shut the engine down  *)
(* at the same time (input.cpp, input_poller.cpp, input_binding_gate.hpp). *)
(*                                                                         *)
(* Which combos are down is decided anew by every poll cycle.  A thread is *)
(* a stack of frames; user code runs on a control thread's empty stack and *)
(* in a callback frame.  The poller's reader-writer lock is held only      *)
(* inside one action; a gate's recursive mutex is held while a callback of *)
(* the gate is on a stack.  A callback may retire bindings, its own        *)
(* included, and reshape them; shutting down from a callback is not        *)
(* modelled.                                                               *)
(***************************************************************************)
EXTENDS Integers, Sequences, FiniteSets

LOCAL SE == INSTANCE SequencesExt

CONSTANTS Gates,          \* registrations: a gate and the guard that owns it
          Names,          \* binding names
          NameOf,         \* gate -> the name it was registered under
          Combos,         \* key combos
          Poller,         \* the poll thread
          Callers,        \* the control threads
          Programs,       \* [staged: the registrations the engine starts with, calls: what user
                          \* code calls (see below), lists: the combo lists it passes]
          MaxDepth,       \* bound on the stack of a thread that begins a call
          MaxGeneration,  \* bound on the reshapes begun
          MaxFailures     \* bound on the allocations that fail outside registrations

VARIABLES m_bindings,            \* Seq of [gate, combo]; combo Unbound is the sentinel
          m_active_states,       \* the parallel sequence of active bits
          m_name_index,          \* name -> indices into m_bindings
          m_binding_generation,  \* counts reshapes
          dropped,               \* history: gates of which a reshape has dropped entries
          program,               \* which of the Programs runs
          token,                 \* a BindingToken: [name, generation, indices]
          enabled,               \* gate -> the guard's shared flag
          gate,                  \* gate -> the HoldGate
          guard,                 \* gate -> the life of its BindingGuard
          told,                  \* gate -> the last value its consumer was called with
          engine,                \* "running", "stopping", "stopped" or "detached"
          failures,              \* allocations that failed so far
          stack                  \* thread -> its frames, innermost first

bindingVars == <<m_bindings, m_active_states, m_name_index, m_binding_generation, dropped>>
gateVars    == <<enabled, gate, guard, told>>
vars == <<bindingVars, program, token, gateVars, engine, failures, stack>>

Threads == {Poller} \cup Callers
Unbound == "unbound"
Indices(s) == 1 .. Len(s)

TypeOK ==
  /\ m_bindings \in Seq([gate : Gates, combo : Combos \cup {Unbound}])
  /\ m_active_states \in [Indices(m_bindings) -> BOOLEAN]
  /\ m_name_index \in [Names -> SUBSET Indices(m_bindings)]
  /\ m_binding_generation \in Nat
  /\ token.generation \in 0 .. m_binding_generation
  /\ enabled \in [Gates -> BOOLEAN]
  /\ gate \in [Gates -> [active_entries : Nat, forwarded_active : BOOLEAN, released : BOOLEAN,
                         delivering : BOOLEAN, deferred_final : BOOLEAN]]
  /\ guard \in [Gates -> {"none", "registering", "live", "releasing", "released"}]
  /\ told \in [Gates -> BOOLEAN]
  /\ engine \in {"running", "stopping", "stopped", "detached"}
  /\ failures \in 0 .. MaxFailures

-----------------------------------------------------------------------------
(* Frames. *)

Top(th) == Head(stack[th])
Is(th, kind) == stack[th] # <<>> /\ Top(th).kind = kind

\* The innermost frame is replaced by the frames fs.
Replace(th, fs) == stack' = [stack EXCEPT ![th] = fs \o Tail(@)]
Push(th, f)     == stack' = [stack EXCEPT ![th] = <<f>> \o @]

\* The callbacks still to be fired; nothing to fire is no frame.
Fire(todo)   == IF todo = <<>> THEN <<>> ELSE <<[kind |-> "fire", todo |-> todo]>>
Call(g, how) == [kind |-> "call", gate |-> g, how |-> how]

UserCode(th) == IF stack[th] = <<>> THEN th \in Callers ELSE Is(th, "call")

InCallback(th, g) ==
  \E i \in Indices(stack[th]) : stack[th][i].kind = "call" /\ stack[th][i].gate = g

CanLockAnyway(th, g) == g \in Gates

CanLockOnce(th, g) == \A u \in Threads : ~ InCallback(u, g)

CanLock(th, g) == \A u \in Threads \ {th} : ~ InCallback(u, g)

-----------------------------------------------------------------------------
(* The binding set. *)

\* The entries of a registration, one per combo; an empty list leaves a sentinel.
Explode(g, combos) ==
  IF combos = <<>> THEN <<[gate |-> g, combo |-> Unbound]>>
  ELSE [i \in Indices(combos) |-> [gate |-> g, combo |-> combos[i]]]

OutOfMemory == failures < MaxFailures /\ failures' = failures + 1
EnoughMemory == failures' = failures

AllInactive(s) == [i \in Indices(s) |-> FALSE]

Named(bindings, n) == {i \in Indices(bindings) : NameOf[bindings[i].gate] = n}

Chosen(s, is) == SelectSeq([i \in Indices(s) |-> i], LAMBDA i : i \in is)
Kept(s, is)   == [k \in Indices(Chosen(s, is)) |-> s[Chosen(s, is)[k]]]

\* on_state_change(false) for the active ones of the entries is, in their order.
Releases(is) ==
  LET held == Kept(m_bindings, {i \in is : m_active_states[i]})
  IN [k \in Indices(held) |-> [gate |-> held[k].gate, value |-> FALSE]]

\* recompute_modifier_caches_locked: tokens are invalidated first; if the rebuild fails
\* the caches are left empty.
Recompute(bindings) ==
  /\ m_binding_generation' = m_binding_generation + 1
  /\ \/ EnoughMemory /\ m_name_index' = [n \in Names |-> Named(bindings, n)]
     \/ OutOfMemory  /\ m_name_index' = [n \in Names |-> {}]

Reshape(bindings, states, losers) ==
  /\ m_bindings' = bindings
  /\ m_active_states' = states
  /\ dropped' = dropped \cup losers
  /\ Recompute(bindings)

\* The engine was started with the staged registrations.
Init ==
  \E p \in Programs :
    /\ program = p
    /\ m_bindings = SE!FlattenSeq([i \in Indices(p.staged) |-> Explode(p.staged[i].gate, p.staged[i].combos)])
    /\ m_active_states = AllInactive(m_bindings)
    /\ m_name_index = [n \in Names |-> Named(m_bindings, n)]
    /\ m_binding_generation = 1
    /\ dropped = {}
    /\ token = [name |-> NameOf[p.staged[1].gate], generation |-> 0, indices |-> {}]
    /\ enabled = [h \in Gates |-> TRUE]
    /\ gate = [h \in Gates |-> [active_entries |-> 0, forwarded_active |-> FALSE,
                                released |-> FALSE, delivering |-> FALSE,
                                deferred_final |-> FALSE]]
    /\ guard = [h \in Gates |-> IF \E i \in Indices(p.staged) : p.staged[i].gate = h THEN "live" ELSE "none"]
    /\ told = [h \in Gates |-> FALSE]
    /\ engine = "running"
    /\ failures = 0
    /\ stack = [th \in Threads |-> <<>>]

-----------------------------------------------------------------------------
(* InputPoller::poll_loop. *)

\* The stop request is looked at once per cycle.
CycleBegins ==
  /\ stack[Poller] = <<>>
  /\ engine = "running"
  /\ Push(Poller, [kind |-> "cycle"])
  /\ UNCHANGED <<bindingVars, token, program, gateVars, engine, failures>>

\* The active bits after evaluating the entries before index end; entries with no keys
\* are skipped.
Evaluated(down, end) ==
  [i \in Indices(m_bindings) |->
     IF i < end /\ m_bindings[i].combo # Unbound THEN m_bindings[i].combo \in down
     ELSE m_active_states[i]]

\* The edges from the current bits to states, in binding order.
Edges(states) ==
  LET changed == Chosen(states, {i \in Indices(states) : states[i] # m_active_states[i]})
  IN [k \in Indices(changed) |->
        [gate |-> m_bindings[changed[k]].gate, value |-> states[changed[k]]]]

\* Under the shared lock every entry is evaluated and its edge staged.
Stage(down) ==
  /\ Is(Poller, "cycle")
  /\ LET states == Evaluated(down, Len(m_bindings) + 1)
     IN /\ m_active_states' = states
        /\ Replace(Poller, Fire(Edges(states)))
  /\ UNCHANGED <<failures, m_bindings, m_name_index, m_binding_generation, dropped, token, program, gateVars, engine>>

\* Staging the edge of entry i throws: the bits before i are stored, every staged edge is
\* dropped.
StageFails(down, i) ==
  /\ OutOfMemory
  /\ Is(Poller, "cycle")
  /\ Evaluated(down, i + 1)[i] # m_active_states[i]
  /\ m_active_states' = Evaluated(down, i)
  /\ Replace(Poller, <<>>)
  /\ UNCHANGED <<m_bindings, m_name_index, m_binding_generation, dropped, token, program, gateVars, engine>>

-----------------------------------------------------------------------------
(* HoldGate, entered from every loop that fires callbacks. *)

Edge(th)  == Head(Top(th).todo)
Later(th) == Fire(Tail(Top(th).todo))

\* The entry count after an edge, floored at zero.
Counted(n, value) == IF value THEN n + 1 ELSE IF n = 0 THEN 0 ELSE n - 1

Crosses(n, value) == (n = 0) # (Counted(n, value) = 0)

\* deliver(): swallowed, counted, or forwarded to the consumer's callback.
Deliver(th) ==
  /\ Is(th, "fire")
  /\ LET g == Edge(th).gate
         value == Edge(th).value
         n == gate[g].active_entries
         open == ~ gate[g].released /\ enabled[g]
     IN /\ CanLock(th, g)
        /\ IF open /\ Crosses(n, value)
           THEN /\ gate' = [gate EXCEPT ![g].active_entries = Counted(n, value),
                                        ![g].forwarded_active = value,
                                        ![g].delivering = TRUE]
                /\ told' = [told EXCEPT ![g] = value]
                /\ Replace(th, <<Call(g, "edge")>> \o Later(th))
           ELSE /\ gate' = [gate EXCEPT ![g].active_entries = IF open THEN Counted(n, value) ELSE @]
                /\ told' = told
                /\ Replace(th, Later(th))
  /\ UNCHANGED <<bindingVars, token, program, enabled, guard, engine, failures>>

\* An unwind that leaves the deferred edge of a self-release behind.
EdgeReturnsUndrained(th, g) ==
  /\ gate' = [gate EXCEPT ![g].delivering = FALSE]
  /\ told' = told
  /\ Replace(th, <<>>)

\* The edge's callback returned or threw; both ways a self-release from inside it is
\* balanced now.
EdgeReturns(th, g) ==
  IF gate[g].deferred_final /\ gate[g].forwarded_active
  THEN /\ gate' = [gate EXCEPT ![g].delivering = FALSE, ![g].deferred_final = FALSE,
                               ![g].forwarded_active = FALSE]
       /\ told' = [told EXCEPT ![g] = FALSE]
       /\ Replace(th, <<Call(g, "final")>>)
  ELSE /\ gate' = [gate EXCEPT ![g].delivering = FALSE, ![g].deferred_final = FALSE]
       /\ told' = told
       /\ Replace(th, <<>>)

CallbackEnds(th) ==
  /\ Is(th, "call")
  /\ LET g == Top(th).gate
         how == Top(th).how
     IN /\ IF how = "edge" THEN EdgeReturns(th, g)
           ELSE /\ Replace(th, <<>>)
                /\ UNCHANGED <<gate, told>>
        /\ guard' = IF how = "release" THEN [guard EXCEPT ![g] = "released"] ELSE guard
  /\ UNCHANGED <<bindingVars, token, program, enabled, engine, failures>>

-----------------------------------------------------------------------------
(* BindingGuard::release. *)

\* The flag is cleared before the gate is entered.
GuardRelease(th, g) ==
  /\ "release" \in program.calls
  /\ UserCode(th)
  /\ guard[g] = "live"
  /\ guard' = [guard EXCEPT ![g] = "releasing"]
  /\ enabled' = [enabled EXCEPT ![g] = FALSE]
  /\ Push(th, [kind |-> "release", gate |-> g])
  /\ UNCHANGED <<bindingVars, token, program, gate, told, engine, failures>>

\* HoldGate::release: deferred to the unwind of the callback it is called from, or the
\* balancing call, or nothing.
GateRelease(th) ==
  /\ Is(th, "release")
  /\ LET g == Top(th).gate
         balances == gate[g].forwarded_active /\ ~ gate[g].delivering
     IN /\ CanLock(th, g)
        /\ gate' = [gate EXCEPT ![g].released = TRUE,
                                ![g].deferred_final = @ \/ gate[g].delivering,
                                ![g].forwarded_active = @ /\ ~ balances]
        /\ IF balances
           THEN /\ told' = [told EXCEPT ![g] = FALSE]
                /\ guard' = guard
                /\ Replace(th, <<Call(g, "release")>>)
           ELSE /\ told' = told
                /\ guard' = [guard EXCEPT ![g] = "released"]
                /\ Replace(th, <<>>)
  /\ UNCHANGED <<bindingVars, token, program, enabled, engine, failures>>

-----------------------------------------------------------------------------
(* Calls that reshape the binding set.  The facade captures the poller first and enters  *)
(* it later, so a reshape may run after a shutdown began.                                *)

Begin(th, call, frame) ==
  /\ call \in program.calls
  /\ UserCode(th)
  /\ engine = "running"
  /\ Len(stack[th]) < MaxDepth
  /\ m_binding_generation < MaxGeneration
  /\ Push(th, frame)
  /\ UNCHANGED <<bindingVars, token, program, enabled, gate, told, engine, failures>>

Register(th, g, combos) ==
  /\ guard[g] = "none" /\ enabled[g]
  /\ guard' = [guard EXCEPT ![g] = "registering"]
  /\ Begin(th, "register", [kind |-> "register", gate |-> g, combos |-> combos])

Rebind(th, n, combos) ==
  /\ Begin(th, "rebind", [kind |-> "rebind", name |-> n, combos |-> combos])
  /\ guard' = guard

\* A rebind that keeps the number of combos.
Rewrite(th, n, combos) ==
  /\ Len(combos) = Cardinality(m_name_index[n])
  /\ Begin(th, "rewrite", [kind |-> "rebind", name |-> n, combos |-> combos])
  /\ guard' = guard

\* invoke_callbacks is false when a module is being unloaded.
Remove(th, n, invoke) ==
  /\ invoke \/ "unload" \in program.calls
  /\ Begin(th, "remove", [kind |-> "remove", name |-> n, invoke |-> invoke])
  /\ guard' = guard

Clear(th, invoke) ==
  /\ invoke \/ "unload" \in program.calls
  /\ Begin(th, "clear", [kind |-> "clear", invoke |-> invoke])
  /\ guard' = guard

\* m_running is looked at before the poller is entered: an inert guard is returned.
RegisterChecks(th) ==
  /\ Is(th, "register")
  /\ IF engine = "running"
     THEN /\ Replace(th, <<[Top(th) EXCEPT !.kind = "add"]>>)
          /\ UNCHANGED <<enabled, guard>>
     ELSE /\ Replace(th, <<>>)
          /\ enabled' = [enabled EXCEPT ![Top(th).gate] = FALSE]
          /\ guard' = [guard EXCEPT ![Top(th).gate] = "live"]
  /\ UNCHANGED <<bindingVars, token, program, gate, told, engine, failures>>

\* add_binding, add_bindings: surviving entries keep their bits.
AddBindings(th) ==
  /\ Is(th, "add")
  /\ LET added == Explode(Top(th).gate, Top(th).combos)
     IN Reshape(m_bindings \o added, m_active_states \o AllInactive(added), {})
  /\ guard' = [guard EXCEPT ![Top(th).gate] = "live"]
  /\ Replace(th, <<>>)
  /\ UNCHANGED <<token, program, enabled, gate, told, engine>>

\* An allocation failed: the registration is refused, nothing was added and the gate is
\* never enabled, so this needs no bound.
AddFails(th) ==
  /\ Is(th, "add")
  /\ enabled' = [enabled EXCEPT ![Top(th).gate] = FALSE]
  /\ guard' = [guard EXCEPT ![Top(th).gate] = "none"]
  /\ Replace(th, <<>>)
  /\ UNCHANGED <<bindingVars, token, program, gate, told, engine, failures>>

\* As many combos as entries: rewritten in place, bits kept.
Rewritten(is, combos) ==
  [i \in Indices(m_bindings) |->
     IF i \in is THEN [m_bindings[i] EXCEPT !.combo = combos[Cardinality({j \in is : j <= i})]]
     ELSE m_bindings[i]]

\* The entries is are dropped and others appended; the survivors' bits move with them.
Drops(is, added) ==
  Reshape(Kept(m_bindings, Indices(m_bindings) \ is) \o added,
          Kept(m_active_states, Indices(m_bindings) \ is) \o AllInactive(added),
          {m_bindings[i].gate : i \in is})

\* update_combos: in place, or a rebuild whose entries all take the callbacks of the first
\* one and whose dropped holds are released once the lock is free.
UpdateCombos(th) ==
  /\ Is(th, "rebind")
  /\ LET is == m_name_index[Top(th).name]
         combos == Top(th).combos
         prototype == m_bindings[Chosen(m_bindings, is)[1]].gate
     IN \/ /\ (is = {} /\ EnoughMemory) \/ OutOfMemory
           /\ Replace(th, <<>>)
           /\ UNCHANGED bindingVars
        \/ /\ is # {} /\ Cardinality(is) = Len(combos)
           /\ Reshape(Rewritten(is, combos), m_active_states, {})
           /\ Replace(th, <<>>)
        \/ /\ is # {} /\ Cardinality(is) # Len(combos)
           /\ Drops(is, Explode(prototype, combos))
           /\ Replace(th, Fire(Releases(is)))
  /\ UNCHANGED <<token, program, gateVars, engine>>

RemoveBindings(th) ==
  /\ Is(th, "remove")
  /\ LET is == m_name_index[Top(th).name]
     IN \/ /\ (is = {} /\ EnoughMemory) \/ OutOfMemory
           /\ Replace(th, <<>>)
           /\ UNCHANGED bindingVars
        \/ /\ is # {}
           /\ Drops(is, <<>>)
           /\ Replace(th, IF Top(th).invoke THEN Fire(Releases(is)) ELSE <<>>)
  /\ UNCHANGED <<token, program, gateVars, engine>>

\* clear_bindings does not go through the recomputation and cannot lose the index.
ClearBindings(th) ==
  /\ Is(th, "clear")
  /\ \/ /\ OutOfMemory
        /\ Replace(th, <<>>)
        /\ UNCHANGED bindingVars
     \/ /\ EnoughMemory
        /\ m_bindings' = <<>>
        /\ m_active_states' = <<>>
        /\ m_name_index' = [n \in Names |-> {}]
        /\ m_binding_generation' = m_binding_generation + 1
        /\ dropped' = dropped \cup {m_bindings[i].gate : i \in Indices(m_bindings)}
        /\ Replace(th, IF Top(th).invoke THEN Fire(Releases(Indices(m_bindings))) ELSE <<>>)
  /\ UNCHANGED <<token, program, gateVars, engine>>

\* acquire_binding_token: a name that is not in the index gives an invalid token.
AcquireToken(th, n) ==
  /\ "token" \in program.calls
  /\ UserCode(th)
  /\ engine = "running"
  /\ token' = [name |-> n,
               generation |-> IF m_name_index[n] = {} THEN 0 ELSE m_binding_generation,
               indices |-> m_name_index[n]]
  /\ UNCHANGED <<bindingVars, program, gateVars, engine, failures, stack>>

-----------------------------------------------------------------------------
(* Input::shutdown. *)

\* The stop is requested; under the loader lock the poll thread is left to itself.
Shutdown(th) ==
  /\ "shutdown" \in program.calls
  /\ th \in Callers /\ stack[th] = <<>>
  /\ engine = "running"
  /\ \/ /\ engine' = "stopping"
        /\ Push(th, [kind |-> "join"])
     \/ /\ "loader lock" \in program.calls
        /\ engine' = "detached"
        /\ stack' = stack
  /\ UNCHANGED <<bindingVars, token, program, gateVars, failures>>

JoinKeepingHolds(th) ==
  /\ Is(th, "join")
  /\ stack[Poller] = <<>>
  /\ Replace(th, <<[kind |-> "end"]>>)
  /\ UNCHANGED <<bindingVars, token, program, gateVars, engine, failures>>

\* The poll thread has ended: release_active_holds.
Join(th) ==
  /\ Is(th, "join")
  /\ stack[Poller] = <<>>
  /\ m_active_states' = AllInactive(m_bindings)
  /\ Replace(th, Fire(Releases(Indices(m_bindings))) \o <<[kind |-> "end"]>>)
  /\ UNCHANGED <<m_bindings, m_name_index, m_binding_generation, dropped, token, program, gateVars, engine, failures>>

\* Staging the release of entry i throws after its bit was cleared; what was staged before
\* it is still fired.
JoinFails(th, i) ==
  /\ OutOfMemory
  /\ Is(th, "join")
  /\ stack[Poller] = <<>>
  /\ m_active_states[i]
  /\ m_active_states' = [j \in Indices(m_bindings) |-> j > i /\ m_active_states[j]]
  /\ Replace(th, Fire(Releases(1 .. i - 1)) \o <<[kind |-> "end"]>>)
  /\ UNCHANGED <<m_bindings, m_name_index, m_binding_generation, dropped, token, program, gateVars, engine>>

ShutdownReturns(th) ==
  /\ Is(th, "end")
  /\ engine' = "stopped"
  /\ Replace(th, <<>>)
  /\ UNCHANGED <<bindingVars, token, program, gateVars, failures>>

-----------------------------------------------------------------------------
User(th) ==
  \/ \E g \in Gates : GuardRelease(th, g) \/ \E combos \in program.lists : Register(th, g, combos)
  \/ \E n \in Names, combos \in program.lists : Rebind(th, n, combos) \/ Rewrite(th, n, combos)
  \/ \E n \in Names, invoke \in BOOLEAN : Remove(th, n, invoke)
  \/ \E invoke \in BOOLEAN : Clear(th, invoke)
  \/ \E n \in Names : AcquireToken(th, n)
  \/ Shutdown(th)

Continue(th) ==
  \/ Deliver(th) \/ CallbackEnds(th) \/ GateRelease(th)
  \/ RegisterChecks(th) \/ AddBindings(th)
  \/ UpdateCombos(th) \/ RemoveBindings(th) \/ ClearBindings(th)
  \/ Join(th) \/ ShutdownReturns(th)

Poll == \E down \in SUBSET Combos :
          Stage(down) \/ \E i \in Indices(m_bindings) : StageFails(down, i)

Fails(th) == AddFails(th) \/ \E i \in Indices(m_bindings) : JoinFails(th, i)

Next == \/ CycleBegins \/ Poll
        \/ \E th \in Threads : User(th) \/ Continue(th) \/ Fails(th)

Spec == Init /\ [][Next]_vars

\* Threads that are inside the library keep running and callbacks return.
FairSpec == Spec /\ WF_vars(Poll) /\ \A th \in Threads : WF_vars(Continue(th))

-----------------------------------------------------------------------------
(* Properties. *)

Pending(th, g, value) ==
  LET todo(i) == IF stack[th][i].kind = "fire" THEN stack[th][i].todo ELSE <<>>
  IN UNION {{<<i, k>> : k \in {j \in Indices(todo(i)) : todo(i)[j] = [gate |-> g, value |-> value]}} :
              i \in Indices(stack[th])}

PendingEdges(g, value) == UNION {{th} \X Pending(th, g, value) : th \in Threads}

HeldEntries(g) == {i \in Indices(m_bindings) : m_bindings[i].gate = g /\ m_active_states[i]}

Idle == \A th \in Threads : stack[th] = <<>>

\* The gate's count of held entries is exactly the number of entries whose bit is set, as
\* soon as the edges on their way are counted in: no interleaving of poll cycles,
\* registrations, failed ones included, in-place rebinds and a shutdown loses or doubles an
\* edge.  Gates of which a reshape has dropped entries are excepted (NeverLatches).
Intact(g) == enabled[g] /\ g \notin dropped
CountIsExact ==
  \A g \in Gates : Intact(g) =>
    gate[g].active_entries + Cardinality(PendingEdges(g, TRUE))
      = Cardinality(HeldEntries(g)) + Cardinality(PendingEdges(g, FALSE))

\* When nothing is on its way, a live binding's consumer believes it is held exactly if one
\* of its combos is.
HeldAgrees ==
  Idle => \A g \in Gates : Intact(g) => (told[g] <=> HeldEntries(g) # {})

\* A consumer never hears the same value twice in a row, whoever calls it: poll thread,
\* rebind, removal, shutdown or a guard ("forwards only the aggregate transitions").
EdgesAlternate ==
  [][\A th \in Threads : Is(th, "call")' /\ stack[th] # stack'[th] /\ Len(stack'[th]) >= Len(stack[th])
       => told'[stack'[th][1].gate] # told[stack'[th][1].gate]]_vars

\* Once a guard was released and the callbacks of its gate have unwound, its consumer is
\* told it is not held, for good, even when the count has drifted before.
ReleasedIsNotHeld ==
  \A g \in Gates : guard[g] = "released" /\ (\A th \in Threads : ~ InCallback(th, g)) => ~ told[g]

\* When a guard's release returns, no other thread is inside the binding's callback, and no
\* thread ever enters it again: what the callback captured may be destroyed.
NoCallbackAfterRelease ==
  [][\A g \in Gates, th \in Threads : guard'[g] = "released" /\ InCallback(th, g)' =>
       /\ InCallback(th, g)
       /\ guard[g] # "released" => stack'[th] # stack[th]]_vars

\* A token that passes for current denotes exactly the entries of its name, also after
\* rebuilds that ran out of memory.
CurrentTokenIsExact ==
  token.generation = m_binding_generation => token.indices = Named(m_bindings, token.name)

\* After a shutdown that joined the poll thread no live binding's consumer is left held, with
\* the same exception.
StoppedIsNotHeld == engine = "stopped" => \A g \in Gates : Intact(g) => ~ told[g]

\* th wants to enter a gate while u is inside a callback of it; some threads wait for nothing
\* but each other.
WaitsFor(th, u) ==
  /\ u # th
  /\ \E g \in Gates : /\ InCallback(u, g)
                     /\ \/ Is(th, "fire") /\ Edge(th).gate = g
                        \/ Is(th, "release") /\ Top(th).gate = g
Entangled == \E S \in SUBSET Threads \ {{}} : \A th \in S : \E u \in S : WaitsFor(th, u)

\* A shutdown ends, whatever callbacks and reshapes were running when it began, in-place or not,
\* and whichever gates their callbacks enter again.  The one exception is a circle of callbacks
\* each of which has released or rebound the binding of another one of them (GatesAreLeaves).
ShutdownEnds == engine = "stopping" ~> engine = "stopped" \/ Entangled

\* "Both invocation paths already run outside every InputPoller lock, so this gate is a leaf lock
\* with no ordering inversion." (input_binding_gate.hpp)
GatesAreLeaves == ~ Entangled

\* "When a cardinality change drops a held Hold entry, that entry's on_state_change(false)
\* release callback fires before the rebuild completes so the consumer never latches in the
\* held state." (hot-reload guide)
NeverLatches ==
  Idle => \A g \in Gates : told[g] => HeldEntries(g) # {}

\* input.cpp, the Hold gate: its count of held entries is exact, its consumer is told what the keys
\* say, and after a shutdown nobody is left held.
HoldsAreExact == TypeOK /\ CountIsExact /\ HeldAgrees /\ StoppedIsNotHeld

\* input.cpp, BindingGuard and BindingToken: a released consumer is not held, and a token that
\* passes for current denotes the entries of its name.
ReleaseIsExact == ReleasedIsNotHeld /\ CurrentTokenIsExact

\* input.cpp, the delivery of edges: edges alternate, and none is delivered after a release.
CallbacksAreOrderly == EdgesAlternate /\ NoCallbackAfterRelease
=============================================================================
