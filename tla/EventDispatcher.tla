---------------------------- MODULE EventDispatcher ----------------------------
(***************************************************************************)
(* EventDispatcher and Subscription (detail/event_dispatcher.hpp): emits   *)
(* iterate over a copy-on-write snapshot without a lock, while threads,    *)
(* and the handlers of emits, subscribe, unsubscribe, clear and emit       *)
(* again.                                                                  *)
(*                                                                         *)
(* The dispatchers are of one event type, so they share the thread-local   *)
(* emit stack.  A handler is opaque: inside a call its thread may do       *)
(* anything, then return or throw.  Writers hold m_writer_mutex over two   *)
(* stores, and readers may come between them.  Callers keep the lifetime   *)
(* contract: nobody uses a dispatcher while or after it is destroyed,      *)
(* except through a Subscription.  The list of handlers is the set of its  *)
(* entries: an emit calls each once, and nothing here depends on which     *)
(* comes first.                                                            *)
(***************************************************************************)
EXTENDS Integers, Sequences, FiniteSets

CONSTANTS Threads, Dispatchers, Subscriptions,
          MaxDepth,   \* bound on the nesting of emits in a thread
          MaxClears,  \* bound on the number of clear() calls
          OutOfMemory \* whether allocations may fail

None == "none"

\* Subscriptions are finitely many, and None is neither a thread nor a dispatcher.
ASSUME Instances == /\ IsFiniteSet(Subscriptions) /\ MaxDepth \in Nat
                    /\ None \notin Threads \cup Dispatchers

VARIABLES m_handlers,             \* dispatcher -> the published snapshot
          m_handler_count,
          m_pending_removals,     \* dispatcher -> set of ids
          m_has_pending_removals,
          m_writer_mutex,         \* dispatcher -> the thread in a critical section, or None
          m_alive,                \* dispatcher -> it has not been destroyed
          home,                   \* subscription -> its dispatcher, or None
          state,                  \* subscription -> what its owner sees
          stack,                  \* thread -> its emits, innermost last
          at,                     \* thread -> the step it is in, inside an operation
          clears, asked, starved  \* history: clear() calls; ids whose removal was asked for;
                                  \* whether an allocation has failed

shared == <<m_handlers, m_handler_count, m_pending_removals, m_has_pending_removals>>
vars == <<shared, m_writer_mutex, m_alive, home, state, stack, at, clears, asked, starved>>

Idle == [step |-> "none"]
Steps == {"none", "subscribe", "load", "flag", "drain", "drained", "reset", "removed", "cleared"}

TypeOK ==
  /\ m_handlers \in [Dispatchers -> SUBSET Subscriptions]
  /\ m_handler_count \in [Dispatchers -> 0 .. Cardinality(Subscriptions)]
  /\ m_pending_removals \in [Dispatchers -> SUBSET Subscriptions]
  /\ m_has_pending_removals \in [Dispatchers -> BOOLEAN]
  /\ m_writer_mutex \in [Dispatchers -> Threads \cup {None}]
  /\ m_alive \in [Dispatchers -> BOOLEAN]
  /\ home \in [Subscriptions -> Dispatchers \cup {None}]
  /\ state \in [Subscriptions -> {"none", "active", "inactive", "destroyed"}]
  /\ \A t \in Threads : Len(stack[t]) <= MaxDepth /\ at[t].step \in Steps

Init ==
  /\ m_handlers = [d \in Dispatchers |-> {}]
  /\ m_handler_count = [d \in Dispatchers |-> 0]
  /\ m_pending_removals = [d \in Dispatchers |-> {}]
  /\ m_has_pending_removals = [d \in Dispatchers |-> FALSE]
  /\ m_writer_mutex = [d \in Dispatchers |-> None]
  /\ m_alive = [d \in Dispatchers |-> TRUE]
  /\ home = [s \in Subscriptions |-> None]
  /\ state = [s \in Subscriptions |-> "none"]
  /\ stack = [t \in Threads |-> <<>>]
  /\ at = [t \in Threads |-> Idle]
  /\ clears = 0 /\ asked = {} /\ starved = FALSE

Top(t) == stack[t][Len(stack[t])]
SetTop(t, frame) == stack' = [stack EXCEPT ![t] = [@ EXCEPT ![Len(@)] = frame]]

\* A thread may begin an operation outside emits and inside the call of a handler.
Free(t) == at[t] = Idle /\ (stack[t] # <<>> => Top(t).calling)

\* emitting_depth() > 0, and is_emitting_this_dispatcher().
Emitting(t) == stack[t] # <<>>
EmittingThis(t, d) == \E i \in DOMAIN stack[t] : stack[t][i].owner = d

LockAnyway(t, d) == m_writer_mutex' = [m_writer_mutex EXCEPT ![d] = t]
Lock(t, d)   == m_writer_mutex[d] = None /\ m_writer_mutex' = [m_writer_mutex EXCEPT ![d] = t]
Unlock(d)    == m_writer_mutex' = [m_writer_mutex EXCEPT ![d] = None]
\* A critical section of one step.
Locked(d)    == m_writer_mutex[d] = None /\ UNCHANGED m_writer_mutex

Goto(t, to) == at' = [at EXCEPT ![t] = to]

-----------------------------------------------------------------------------
(* subscribe *)

\* An empty handler is rejected, and from inside a handler of the event type any is.
SubscribeRejected(t, d, s) ==
  /\ Free(t) /\ m_alive[d] /\ state[s] = "none" /\ home[s] = None
  /\ \E empty \in BOOLEAN : empty \/ Emitting(t)
  /\ state' = [state EXCEPT ![s] = "inactive"]
  /\ UNCHANGED <<shared, m_writer_mutex, m_alive, home, stack, at, clears, asked, starved>>

\* The list is copied, and the count published first.
Subscribe(t, d, s) ==
  /\ Free(t) /\ m_alive[d] /\ state[s] = "none" /\ home[s] = None
  /\ ~ Emitting(t)
  /\ Lock(t, d)
  /\ home' = [home EXCEPT ![s] = d]
  /\ m_handler_count' = [m_handler_count EXCEPT ![d] = Cardinality(m_handlers[d]) + 1]
  /\ Goto(t, [step |-> "subscribe", s |-> s, next |-> m_handlers[d] \cup {s}])
  /\ UNCHANGED <<m_handlers, m_pending_removals, m_has_pending_removals, m_alive, state, stack,
                 clears, asked, starved>>

SubscribePublishes(t) ==
  /\ at[t].step = "subscribe"
  /\ LET s == at[t].s
         d == home[s]
     IN /\ Unlock(d)
        /\ m_handlers' = [m_handlers EXCEPT ![d] = at[t].next]
        /\ state' = [state EXCEPT ![s] = "active"]
  /\ Goto(t, Idle)
  /\ UNCHANGED <<m_handler_count, m_pending_removals, m_has_pending_removals, m_alive, home, stack,
                 clears, asked, starved>>

-----------------------------------------------------------------------------
(* emit and emit_safe *)

\* The fast path returns when the count is zero.
Emit(t, d) ==
  /\ Free(t) /\ m_alive[d] /\ Len(stack[t]) < MaxDepth
  /\ m_handler_count[d] # 0
  /\ Goto(t, [step |-> "load", d |-> d])
  /\ UNCHANGED <<shared, m_writer_mutex, m_alive, home, state, stack, clears, asked, starved>>

\* The snapshot is loaded and the EmitGuard entered.
EmitLoads(t) ==
  /\ at[t].step = "load"
  /\ stack' = [stack EXCEPT ![t] =
                 Append(@, [owner |-> at[t].d, todo |-> m_handlers[at[t].d], calling |-> FALSE])]
  /\ Goto(t, Idle)
  /\ UNCHANGED <<shared, m_writer_mutex, m_alive, home, state, clears, asked, starved>>

Call(t) ==
  /\ at[t] = Idle /\ stack[t] # <<>> /\ ~ Top(t).calling
  /\ \E s \in Top(t).todo :
       SetTop(t, [Top(t) EXCEPT !.calling = TRUE, !.todo = @ \ {s}])
  /\ UNCHANGED <<shared, m_writer_mutex, m_alive, home, state, at, clears, asked, starved>>

\* The handler returns, or throws out of emit past the handlers that are left.
Return(t, throws) ==
  /\ at[t] = Idle /\ stack[t] # <<>> /\ Top(t).calling
  /\ SetTop(t, [Top(t) EXCEPT !.calling = FALSE, !.todo = IF throws THEN {} ELSE @])
  /\ UNCHANGED <<shared, m_writer_mutex, m_alive, home, state, at, clears, asked, starved>>

\* ~EmitGuard that drains at the end of the thread's outermost emit only.
UnwindOutermost(t) ==
  /\ at[t] = Idle /\ stack[t] # <<>> /\ ~ Top(t).calling /\ Top(t).todo = {}
  /\ stack' = [stack EXCEPT ![t] = SubSeq(@, 1, Len(@) - 1)]
  /\ Goto(t, IF Len(stack[t]) = 1 THEN [step |-> "flag", d |-> Top(t).owner] ELSE Idle)
  /\ UNCHANGED <<shared, m_writer_mutex, m_alive, home, state, clears, asked, starved>>

\* ~EmitGuard leaves the stack; then the flag is looked at.
Unwind(t) ==
  /\ at[t] = Idle /\ stack[t] # <<>> /\ ~ Top(t).calling /\ Top(t).todo = {}
  /\ stack' = [stack EXCEPT ![t] = SubSeq(@, 1, Len(@) - 1)]
  /\ Goto(t, [step |-> "flag", d |-> Top(t).owner])
  /\ UNCHANGED <<shared, m_writer_mutex, m_alive, home, state, clears, asked, starved>>

LoadFlag(t) ==
  /\ at[t].step = "flag"
  /\ Goto(t, IF m_has_pending_removals[at[t].d] THEN [step |-> "drain", d |-> at[t].d] ELSE Idle)
  /\ UNCHANGED <<shared, m_writer_mutex, m_alive, home, state, stack, clears, asked, starved>>

\* An allocation fails, and the operation leaves everything as it is.
RunsOut == OutOfMemory /\ starved' = TRUE

\* drain_pending_removals: the snapshot without the queued ids is published first.
DrainBegins(t) ==
  /\ at[t].step = "drain"
  /\ LET d == at[t].d
     IN \/ /\ Locked(d) /\ m_pending_removals[d] = {}
           /\ m_has_pending_removals' = [m_has_pending_removals EXCEPT ![d] = FALSE]
           /\ Goto(t, Idle)
           /\ UNCHANGED <<m_handlers, starved>>
        \/ /\ Locked(d) /\ m_pending_removals[d] # {} /\ RunsOut
           /\ Goto(t, Idle)
           /\ UNCHANGED <<m_handlers, m_has_pending_removals>>
        \/ /\ Lock(t, d) /\ m_pending_removals[d] # {}
           /\ m_handlers' = [m_handlers EXCEPT ![d] = @ \ m_pending_removals[d]]
           /\ Goto(t, [step |-> "drained", d |-> d])
           /\ UNCHANGED <<m_has_pending_removals, starved>>
  /\ UNCHANGED <<m_handler_count, m_pending_removals, m_alive, home, state, stack, clears, asked>>

DrainEnds(t) ==
  /\ at[t].step = "drained"
  /\ LET d == at[t].d
     IN /\ Unlock(d)
        /\ m_handler_count' = [m_handler_count EXCEPT ![d] = Cardinality(m_handlers[d])]
        /\ m_pending_removals' = [m_pending_removals EXCEPT ![d] = {}]
        /\ m_has_pending_removals' = [m_has_pending_removals EXCEPT ![d] = FALSE]
  /\ Goto(t, Idle)
  /\ UNCHANGED <<m_handlers, m_alive, home, state, stack, clears, asked, starved>>

-----------------------------------------------------------------------------
(* Subscription::reset and ~Subscription, and unsubscribe *)

\* reset(), or the destructor, which drops the retry with the object.
Release(s, success, destroys) ==
  state' = [state EXCEPT ![s] = IF destroys THEN "destroyed" ELSE IF success THEN "inactive" ELSE @]

\* A Subscription is used by one thread at a time.
Owns(t, s) == /\ Free(t) /\ state[s] = "active"
              /\ \A u \in Threads : at[u].step = "removed" => at[u].s # s

\* The dispatcher has been destroyed before.
ResetExpired(t, s, destroys) ==
  /\ Owns(t, s) /\ ~ m_alive[home[s]]
  /\ Release(s, TRUE, destroys)
  /\ UNCHANGED <<shared, m_writer_mutex, m_alive, home, stack, at, clears, asked, starved>>

\* From inside an emit of this dispatcher the removal is queued, if memory allows.
ResetDeferred(t, s, destroys) ==
  /\ Owns(t, s) /\ m_alive[home[s]] /\ EmittingThis(t, home[s])
  /\ Locked(home[s])
  /\ \/ /\ m_pending_removals' = [m_pending_removals EXCEPT ![home[s]] = @ \cup {s}]
        /\ m_has_pending_removals' =
             [m_has_pending_removals EXCEPT ![home[s]] = @ \/ s \notin m_pending_removals[home[s]]]
        /\ UNCHANGED starved
     \/ /\ s \notin m_pending_removals[home[s]] /\ RunsOut
        /\ UNCHANGED <<m_pending_removals, m_has_pending_removals>>
  /\ asked' = asked \cup {s}
  /\ Release(s, FALSE, destroys)
  /\ UNCHANGED <<m_handlers, m_handler_count, m_alive, home, stack, at, clears>>

\* Nothing to remove, or no memory to do it.
ResetKeepsList(t, s, destroys) ==
  /\ Owns(t, s) /\ m_alive[home[s]] /\ ~ EmittingThis(t, home[s])
  /\ Locked(home[s])
  /\ IF s \in m_handlers[home[s]]
     THEN RunsOut /\ Release(s, FALSE, destroys)
     ELSE Release(s, TRUE, destroys) /\ UNCHANGED starved
  /\ asked' = asked \cup {s}
  /\ UNCHANGED <<shared, m_alive, home, stack, at, clears>>

\* A removal that does not wait for the writer at work.
ResetRemovesUnlocked(t, s, destroys) ==
  /\ Owns(t, s) /\ m_alive[home[s]] /\ ~ EmittingThis(t, home[s])
  /\ LockAnyway(t, home[s])
  /\ s \in m_handlers[home[s]]
  /\ m_handlers' = [m_handlers EXCEPT ![home[s]] = @ \ {s}]
  /\ asked' = asked \cup {s}
  /\ Goto(t, [step |-> "removed", s |-> s, destroys |-> destroys,
              count |-> Cardinality(m_handlers[home[s]]) - 1])
  /\ UNCHANGED <<m_handler_count, m_pending_removals, m_has_pending_removals, m_alive, home, state,
                 stack, clears, starved>>

\* The snapshot is published first; an emit of another thread may still run the old one.
ResetRemoves(t, s, destroys) ==
  /\ Owns(t, s) /\ m_alive[home[s]] /\ ~ EmittingThis(t, home[s])
  /\ Lock(t, home[s])
  /\ s \in m_handlers[home[s]]
  /\ m_handlers' = [m_handlers EXCEPT ![home[s]] = @ \ {s}]
  /\ asked' = asked \cup {s}
  /\ Goto(t, [step |-> "removed", s |-> s, destroys |-> destroys,
              count |-> Cardinality(m_handlers[home[s]]) - 1])
  /\ UNCHANGED <<m_handler_count, m_pending_removals, m_has_pending_removals, m_alive, home, state,
                 stack, clears, starved>>

ResetEnds(t) ==
  /\ at[t].step = "removed"
  /\ Unlock(home[at[t].s])
  /\ m_handler_count' = [m_handler_count EXCEPT ![home[at[t].s]] = at[t].count]
  /\ Release(at[t].s, TRUE, at[t].destroys)
  /\ Goto(t, Idle)
  /\ UNCHANGED <<m_handlers, m_pending_removals, m_has_pending_removals, m_alive, home, stack,
                 clears, asked, starved>>

-----------------------------------------------------------------------------
(* clear and ~EventDispatcher *)

\* The count goes to zero first.  Without memory nothing happens.
Clear(t, d) ==
  /\ Free(t) /\ m_alive[d] /\ clears < MaxClears
  /\ Lock(t, d)
  /\ clears' = clears + 1
  /\ asked' = asked \cup m_handlers[d]
  /\ m_handler_count' = [m_handler_count EXCEPT ![d] = 0]
  /\ Goto(t, [step |-> "cleared", d |-> d])
  /\ UNCHANGED <<m_handlers, m_pending_removals, m_has_pending_removals, m_alive, home, state,
                 stack, starved>>

ClearPublishes(t) ==
  /\ at[t].step = "cleared"
  /\ Unlock(at[t].d)
  /\ m_handlers' = [m_handlers EXCEPT ![at[t].d] = {}]
  /\ Goto(t, Idle)
  /\ UNCHANGED <<m_handler_count, m_pending_removals, m_has_pending_removals, m_alive, home, state,
                 stack, clears, asked, starved>>

\* The operations that use a dispatcher now.
Uses(t, d) == \/ EmittingThis(t, d)
              \/ at[t].step \in {"load", "flag", "drain", "drained", "cleared"} /\ at[t].d = d
              \/ at[t].step \in {"subscribe", "removed"} /\ home[at[t].s] = d

DestroyDispatcher(t, d) ==
  /\ Free(t) /\ m_alive[d]
  /\ \A u \in Threads : ~ Uses(u, d)
  /\ m_alive' = [m_alive EXCEPT ![d] = FALSE]
  /\ UNCHANGED <<shared, m_writer_mutex, home, state, stack, at, clears, asked, starved>>

-----------------------------------------------------------------------------
Step(t) ==
  \/ SubscribePublishes(t) \/ EmitLoads(t) \/ Call(t) \/ (\E throws \in BOOLEAN : Return(t, throws))
  \/ Unwind(t) \/ LoadFlag(t) \/ DrainBegins(t) \/ DrainEnds(t) \/ ResetEnds(t) \/ ClearPublishes(t)

Begin(t) ==
  \/ \E d \in Dispatchers : \/ Emit(t, d) \/ Clear(t, d) \/ DestroyDispatcher(t, d)
                            \/ \E s \in Subscriptions : Subscribe(t, d, s) \/ SubscribeRejected(t, d, s)
  \/ \E s \in Subscriptions, destroys \in BOOLEAN :
       \/ ResetExpired(t, s, destroys) \/ ResetDeferred(t, s, destroys)
       \/ ResetKeepsList(t, s, destroys) \/ ResetRemoves(t, s, destroys)

Next == \E t \in Threads : Begin(t) \/ Step(t)

Spec == Init /\ [][Next]_vars

-----------------------------------------------------------------------------
(* Properties. *)

\* Once subscribe has returned, every emit finds the handler, until somebody asks for its
\* removal: neither the fast path nor the snapshot of an emit that interleaves with other
\* writers can miss it.
SubscribedIsSeen ==
  \A s \in Subscriptions : state[s] = "active" /\ s \notin asked /\ m_alive[home[s]] =>
    m_handler_count[home[s]] > 0 /\ s \in m_handlers[home[s]]

\* A removed handler never comes back: no writer publishes a list it copied too early.
RemovedStaysRemoved ==
  [][\A d \in Dispatchers : \A s \in m_handlers'[d] \ m_handlers[d] :
       state[s] = "none"]_vars

\* A destroyed Subscription leaves no handler behind once no emit of its dispatcher runs,
\* in any nesting with emits of the other dispatcher, unless memory ran out: a removal that
\* a handler queued is carried out as the emits unwind.
DestroyedIsRemoved ==
  \A s \in Subscriptions : state[s] = "destroyed" /\ ~ starved /\ s \in m_handlers[home[s]] =>
    ~ m_alive[home[s]] \/ \E t \in Threads : Uses(t, home[s])

\* What the documentation of Subscription says: "When the guard is destroyed or reset, the
\* associated handler is removed from the dispatcher."
DestroyedIsRemovedAlways ==
  \A s \in Subscriptions : state[s] = "destroyed" /\ s \in m_handlers[home[s]] =>
    ~ m_alive[home[s]] \/ \E t \in Threads : Uses(t, home[s])

\* event_dispatcher.hpp, subscribe, emit and unsubscribe: an emit finds every handler that is
\* subscribed and, once no emit runs, none that was destroyed.
HandlersAreExact == TypeOK /\ SubscribedIsSeen /\ DestroyedIsRemoved
=============================================================================
