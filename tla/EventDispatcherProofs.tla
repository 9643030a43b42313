----------------------- MODULE EventDispatcherProofs -----------------------
(***************************************************************************)
(* Proofs about EventDispatcher, for any sets of threads, dispatchers and  *)
(* subscriptions, any nesting of emits and any failing allocation.         *)
(*                                                                         *)
(* The mutex is held exactly by the thread that is between the two stores  *)
(* of a writer.  What that thread knows of the list it copied stays true   *)
(* until it publishes, the count is off only in the direction that makes   *)
(* an emit look at the list, and a queued removal is owed by a thread that *)
(* emits on the dispatcher or is about to drain it.                        *)
(***************************************************************************)
EXTENDS EventDispatcher, TLAPS

Frames == [owner : Dispatchers, todo : SUBSET Subscriptions, calling : BOOLEAN]

\* The step a thread is in, with what it carries from one step to the next.
Ats ==
  {Idle} \cup [step : {"load", "flag", "drain", "drained", "cleared"}, d : Dispatchers]
         \cup [step : {"subscribe"}, s : Subscriptions, next : SUBSET Subscriptions]
         \cup [step : {"removed"}, s : Subscriptions, destroys : BOOLEAN, count : Int]

Types ==
  /\ m_handlers \in [Dispatchers -> SUBSET Subscriptions]
  /\ m_handler_count \in [Dispatchers -> Int]
  /\ m_pending_removals \in [Dispatchers -> SUBSET Subscriptions]
  /\ m_has_pending_removals \in [Dispatchers -> BOOLEAN]
  /\ m_writer_mutex \in [Dispatchers -> Threads \cup {None}]
  /\ m_alive \in [Dispatchers -> BOOLEAN]
  /\ home \in [Subscriptions -> Dispatchers \cup {None}]
  /\ state \in [Subscriptions -> {"none", "active", "inactive", "destroyed"}]
  /\ stack \in [Threads -> Seq(Frames)]
  /\ at \in [Threads -> Ats]
  /\ asked \subseteq Subscriptions

\* The emits of a thread nest no deeper than the bound.
Nesting ==
  \A t \in Threads : /\ Len(stack[t]) <= MaxDepth
                     /\ at[t].step = "load" => Len(stack[t]) < MaxDepth

\* A subscription has a dispatcher as soon as it can be found there.
Homes ==
  /\ \A s \in Subscriptions : state[s] \in {"active", "destroyed"} => home[s] \in Dispatchers
  /\ \A t \in Threads : at[t].step \in {"subscribe", "removed"} => home[at[t].s] \in Dispatchers
  /\ \A d \in Dispatchers : \A s \in m_handlers[d] \cup m_pending_removals[d] :
       home[s] = d /\ state[s] # "none"

\* The thread between the two stores of a writer holds the mutex, and no other does.
Writing(t, d) == \/ at[t].step \in {"drained", "cleared"} /\ at[t].d = d
                 \/ at[t].step \in {"subscribe", "removed"} /\ home[at[t].s] = d
Mutex == \A t \in Threads, d \in Dispatchers : Writing(t, d) <=> m_writer_mutex[d] = t

\* What a writer knows between its stores.
Copy(t) ==
  /\ at[t].step = "subscribe" =>
       /\ state[at[t].s] = "none" /\ at[t].next = m_handlers[home[at[t].s]] \cup {at[t].s}
       /\ m_handler_count[home[at[t].s]] = Cardinality(at[t].next)
  /\ at[t].step = "removed" =>
       /\ at[t].s \notin m_handlers[home[at[t].s]] /\ state[at[t].s] = "active"
       /\ at[t].s \in asked
       /\ at[t].count = Cardinality(m_handlers[home[at[t].s]])
       /\ m_handler_count[home[at[t].s]] = at[t].count + 1
  /\ at[t].step = "drained" =>
       /\ m_handlers[at[t].d] \cap m_pending_removals[at[t].d] = {}
       /\ m_handler_count[at[t].d] >= Cardinality(m_handlers[at[t].d])
  /\ at[t].step = "cleared" =>
       m_handler_count[at[t].d] = 0 /\ m_handlers[at[t].d] \subseteq asked
Copies == \A t \in Threads : Copy(t)

\* With no writer at work the count is that of the list.
Counted ==
  \A d \in Dispatchers :
    /\ m_writer_mutex[d] = None => m_handler_count[d] = Cardinality(m_handlers[d])
    /\ m_handler_count[d] \in 0 .. Cardinality(Subscriptions)

\* A handler leaves the list only when its removal was asked for.
Kept ==
  /\ \A s \in Subscriptions : state[s] = "active" /\ s \notin asked => s \in m_handlers[home[s]]
  /\ \A d \in Dispatchers : m_pending_removals[d] \subseteq asked

\* The thread that will carry out the removals queued on a dispatcher.
Owes(t, d) == \/ EmittingThis(t, d)
              \/ at[t].step \in {"flag", "drain", "drained"} /\ at[t].d = d

\* A destroyed subscription that is still in the list is in the queue, and the queue is owed.
Queued ==
  /\ \A d \in Dispatchers : m_pending_removals[d] # {} => m_has_pending_removals[d]
  /\ ~ starved =>
       /\ \A s \in Subscriptions :
            state[s] = "destroyed" /\ s \in m_handlers[home[s]] =>
              s \in m_pending_removals[home[s]] \/ ~ m_alive[home[s]]
       /\ \A d \in Dispatchers :
            m_alive[d] /\ m_pending_removals[d] # {} => \E t \in Threads : Owes(t, d)

EInv == Types /\ Nesting /\ Homes /\ Mutex /\ Copies /\ Counted /\ Kept /\ Queued

-----------------------------------------------------------------------------
(* What the provers need to know of the steps, the frames and the lists. *)

\* What a thread carries in each step of an operation.
LEMMA AtTypes ==
  ASSUME Types, NEW t \in Threads
  PROVE  /\ at[t].step \in Steps
         /\ at[t].step = "none" <=> at[t] = Idle
         /\ at[t].step \in {"load", "flag", "drain", "drained", "cleared"} => at[t].d \in Dispatchers
         /\ at[t].step \in {"subscribe", "removed"} => at[t].s \in Subscriptions
         /\ at[t].step = "subscribe" => at[t].next \in SUBSET Subscriptions
         /\ at[t].step = "removed" => at[t].destroys \in BOOLEAN /\ at[t].count \in Int
<1>1. at[t] \in Ats
  BY Zenon DEF Types
<1> QED
  BY <1>1 DEF Ats, Idle, Steps

\* The steps an action may put a thread in.
LEMMA InAts ==
  /\ Idle \in Ats
  /\ \A step \in {"load", "flag", "drain", "drained", "cleared"}, d \in Dispatchers :
       [step |-> step, d |-> d] \in Ats
  /\ \A s \in Subscriptions, next \in SUBSET Subscriptions :
       [step |-> "subscribe", s |-> s, next |-> next] \in Ats
  /\ \A s \in Subscriptions, destroys \in BOOLEAN, count \in Int :
       [step |-> "removed", s |-> s, destroys |-> destroys, count |-> count] \in Ats
BY Zenon DEF Ats

\* The innermost emit of a thread that emits.
LEMMA TopTypes ==
  ASSUME Types, NEW t \in Threads, stack[t] # <<>>
  PROVE  /\ Len(stack[t]) \in 1 .. Len(stack[t]) /\ Top(t) \in Frames
         /\ stack[t] \in Seq(Frames) /\ EmittingThis(t, Top(t).owner)
<1>1. stack[t] \in Seq(Frames)
  BY Zenon DEF Types
<1> QED
  BY <1>1 DEF Top, EmittingThis

\* ~EmitGuard: the frames below the innermost one are those there were.
LEMMA Unwound ==
  ASSUME Types, NEW t \in Threads, Unwind(t)
  PROVE  /\ stack'[t] \in Seq(Frames) /\ Len(stack'[t]) = Len(stack[t]) - 1
         /\ \A i \in 1 .. Len(stack[t]) - 1 : stack'[t][i] = stack[t][i]
<1>1. stack[t] \in Seq(Frames) /\ Len(stack[t]) >= 1
  BY TopTypes DEF Types, Unwind
<1>2. stack'[t] = SubSeq(stack[t], 1, Len(stack[t]) - 1)
  BY Zenon DEF Types, Unwind
<1> QED
  BY <1>1, <1>2

\* A call of a handler, and its return, change the innermost frame but not whose it is.
LEMMA TopChanges ==
  ASSUME Types, NEW t \in Threads, NEW throws \in BOOLEAN, Call(t) \/ Return(t, throws)
  PROVE  /\ stack' \in [Threads -> Seq(Frames)]
         /\ \A u \in Threads : /\ Len(stack'[u]) = Len(stack[u])
                                /\ \A i \in 1 .. Len(stack[u]) : stack'[u][i].owner = stack[u][i].owner
<1>1. stack[t] # <<>> /\ Top(t) \in Frames /\ Len(stack[t]) \in 1 .. Len(stack[t])
  BY Zenon, TopTypes DEF Call, Return
<1>2. PICK f \in Frames : /\ f.owner = Top(t).owner
                          /\ stack' = [stack EXCEPT ![t] = [stack[t] EXCEPT ![Len(stack[t])] = f]]
  <2>1. CASE Call(t)
    <3>1. PICK s \in Top(t).todo :
            stack' = [stack EXCEPT ![t] = [stack[t] EXCEPT ![Len(stack[t])] =
                        [Top(t) EXCEPT !.calling = TRUE, !.todo = Top(t).todo \ {s}]]]
      BY Zenon, <2>1 DEF Call, SetTop
    <3>2. [Top(t) EXCEPT !.calling = TRUE, !.todo = Top(t).todo \ {s}] \in Frames
      BY Zenon, <1>1 DEF Frames
    <3> QED
      BY Zenon, <1>1, <3>1, <3>2 DEF Frames
  <2>2. CASE Return(t, throws)
    <3> DEFINE rest == IF throws THEN {} ELSE Top(t).todo
    <3>1. stack' = [stack EXCEPT ![t] = [stack[t] EXCEPT ![Len(stack[t])] =
                      [Top(t) EXCEPT !.calling = FALSE, !.todo = rest]]]
      BY Zenon, <2>2 DEF Return, SetTop
    <3>2. [Top(t) EXCEPT !.calling = FALSE, !.todo = rest] \in Frames
      BY Zenon, <1>1 DEF Frames
    <3> QED
      BY Zenon, <1>1, <3>1, <3>2 DEF Frames
  <2> QED
    BY Zenon, <2>1, <2>2
<1>3. stack[t] \in Seq(Frames)
  BY Zenon DEF Types
<1>4. [stack[t] EXCEPT ![Len(stack[t])] = f] \in Seq(Frames)
  BY <1>1, <1>3
<1> QED
  BY <1>1, <1>2, <1>3, <1>4 DEF Types, Top

\* What the steps need of the sizes of the lists.  It follows from the finiteness of
\* Subscriptions (CountingHolds, below); the step lemmas take it as a hypothesis.
Counting ==
  /\ Cardinality(Subscriptions) \in Nat /\ Cardinality({}) = 0
  /\ \A l \in SUBSET Subscriptions :
       /\ Cardinality(l) \in Nat /\ Cardinality(l) <= Cardinality(Subscriptions)
       /\ l # {} => Cardinality(l) > 0
       /\ \A m \in SUBSET l : Cardinality(m) <= Cardinality(l)
       /\ \A s \in Subscriptions \ l : Cardinality(l \cup {s}) = Cardinality(l) + 1
       /\ \A s \in l : Cardinality(l \ {s}) = Cardinality(l) - 1

\* The size of a list.
LEMMA ListsAreFinite ==
  ASSUME Counting, NEW l \in SUBSET Subscriptions
  PROVE  /\ Cardinality(l) \in Nat
         /\ Cardinality(l) <= Cardinality(Subscriptions) /\ Cardinality(Subscriptions) \in Nat
BY Zenon DEF Counting

-----------------------------------------------------------------------------

\* Every step keeps the types.
LEMMA TypesStep == ASSUME Counting, Types, Homes, [Next]_vars PROVE Types'
<1> USE DEF Goto
<1>1. ASSUME NEW t \in Threads, NEW d \in Dispatchers, NEW s \in Subscriptions,
             SubscribeRejected(t, d, s)
      PROVE  Types'
  BY Zenon, <1>1 DEF Types, SubscribeRejected, shared
<1>2. ASSUME NEW t \in Threads, NEW d \in Dispatchers, NEW s \in Subscriptions, Subscribe(t, d, s)
      PROVE  Types'
  <2>1. Cardinality(m_handlers[d]) + 1 \in Int
    BY ListsAreFinite DEF Types
  <2>2. at' \in [Threads -> Ats]
    BY Zenon, <1>2, InAts DEF Types, Subscribe
  <2> QED
    BY Zenon, <1>2, <2>1, <2>2 DEF Types, Subscribe, Lock
<1>3. ASSUME NEW t \in Threads, SubscribePublishes(t) PROVE Types'
  BY Zenon, <1>3, AtTypes, InAts DEF Types, SubscribePublishes, Unlock
<1>4. ASSUME NEW t \in Threads, NEW d \in Dispatchers, Emit(t, d) PROVE Types'
  BY Zenon, <1>4, InAts DEF Types, Emit, shared
<1>5. ASSUME NEW t \in Threads, EmitLoads(t) PROVE Types'
  <2>1. [owner |-> at[t].d, todo |-> m_handlers[at[t].d], calling |-> FALSE] \in Frames
    BY Zenon, <1>5, AtTypes DEF Types, EmitLoads, Frames
  <2>2. stack' \in [Threads -> Seq(Frames)]
    BY <1>5, <2>1 DEF Types, EmitLoads
  <2> QED
    BY Zenon, <1>5, <2>2, InAts DEF Types, EmitLoads, shared
<1>6. ASSUME NEW t \in Threads, NEW throws \in BOOLEAN, Call(t) \/ Return(t, throws) PROVE Types'
  BY Zenon, <1>6, TopChanges DEF Types, Call, Return, shared
<1>7. ASSUME NEW t \in Threads, Unwind(t) PROVE Types'
  <2>1. stack' \in [Threads -> Seq(Frames)]
    BY Zenon, <1>7, Unwound DEF Types, Unwind
  <2>2. at' \in [Threads -> Ats]
    BY Zenon, <1>7, TopTypes, InAts DEF Types, Unwind, Frames
  <2> QED
    BY Zenon, <1>7, <2>1, <2>2 DEF Types, Unwind, shared
<1>8. ASSUME NEW t \in Threads, LoadFlag(t) PROVE Types'
  BY Zenon, <1>8, AtTypes, InAts DEF Types, LoadFlag, shared
<1>9. ASSUME NEW t \in Threads, DrainBegins(t) PROVE Types'
  <2>1. at[t].d \in Dispatchers
    BY Zenon, <1>9, AtTypes DEF DrainBegins
  <2>2. at' \in [Threads -> Ats]
    BY ZenonT(40), <1>9, <2>1, InAts DEF Types, DrainBegins
  <2>3. m_handlers' \in [Dispatchers -> SUBSET Subscriptions]
    <3>1. \/ m_handlers' = m_handlers
          \/ m_handlers' = [m_handlers EXCEPT ![at[t].d] = @ \ m_pending_removals[at[t].d]]
      BY Zenon, <1>9 DEF DrainBegins
    <3>2. m_handlers[at[t].d] \ m_pending_removals[at[t].d] \in SUBSET Subscriptions
      BY Zenon, <2>1 DEF Types
    <3> QED
      BY Zenon, <3>1, <3>2 DEF Types
  <2>4. m_has_pending_removals' \in [Dispatchers -> BOOLEAN]
    BY Zenon, <1>9, <2>1 DEF Types, DrainBegins
  <2>5. m_writer_mutex' \in [Dispatchers -> Threads \cup {None}]
    BY Zenon, <1>9, <2>1 DEF Types, DrainBegins, Locked, Lock
  <2> QED
    BY Zenon, <1>9, <2>2, <2>3, <2>4, <2>5 DEF Types, DrainBegins
<1>10. ASSUME NEW t \in Threads, DrainEnds(t) PROVE Types'
  <2>1. at[t].d \in Dispatchers
    BY Zenon, <1>10, AtTypes DEF DrainEnds
  <2>2. Cardinality(m_handlers[at[t].d]) \in Int
    BY <2>1, ListsAreFinite DEF Types
  <2> QED
    BY Zenon, <1>10, <2>1, <2>2, InAts DEF Types, DrainEnds, Unlock
<1>11. ASSUME NEW t \in Threads, NEW s \in Subscriptions, NEW destroys \in BOOLEAN,
              ResetExpired(t, s, destroys) \/ ResetKeepsList(t, s, destroys)
       PROVE  Types'
  <2>1. state' \in [Subscriptions -> {"none", "active", "inactive", "destroyed"}]
    BY Zenon, <1>11 DEF Types, ResetExpired, ResetKeepsList, Release
  <2> QED
    BY Zenon, <1>11, <2>1 DEF Types, ResetExpired, ResetKeepsList, Locked, RunsOut, shared
<1>12. ASSUME NEW t \in Threads, NEW s \in Subscriptions, NEW destroys \in BOOLEAN,
              ResetDeferred(t, s, destroys)
       PROVE  Types'
  <2>1. state' \in [Subscriptions -> {"none", "active", "inactive", "destroyed"}]
    BY Zenon, <1>12 DEF Types, ResetDeferred, Release
  <2>2. m_pending_removals' \in [Dispatchers -> SUBSET Subscriptions]
    <3>1. \/ m_pending_removals' = m_pending_removals
          \/ m_pending_removals' = [m_pending_removals EXCEPT ![home[s]] = @ \cup {s}]
      BY Zenon, <1>12 DEF ResetDeferred
    <3>2. m_pending_removals[home[s]] \cup {s} \in SUBSET Subscriptions
      BY Zenon, <1>12 DEF Types, ResetDeferred, Owns, Homes
    <3> QED
      BY Zenon, <3>1, <3>2 DEF Types
  <2>3. m_has_pending_removals' \in [Dispatchers -> BOOLEAN]
    <3> DEFINE flag == m_has_pending_removals[home[s]] \/ s \notin m_pending_removals[home[s]]
    <3>1. flag \in BOOLEAN
      BY Zenon
    <3>2. \/ m_has_pending_removals' = [m_has_pending_removals EXCEPT ![home[s]] = flag]
          \/ m_has_pending_removals' = m_has_pending_removals
      BY Zenon, <1>12 DEF ResetDeferred
    <3> HIDE DEF flag
    <3> QED
      BY Zenon, <3>1, <3>2 DEF Types
  <2> QED
    BY Zenon, <1>12, <2>1, <2>2, <2>3 DEF Types, ResetDeferred, Locked
<1>13. ASSUME NEW t \in Threads, NEW s \in Subscriptions, NEW destroys \in BOOLEAN,
              ResetRemoves(t, s, destroys)
       PROVE  Types'
  <2>0. home[s] \in Dispatchers
    BY Zenon, <1>13 DEF ResetRemoves, Owns, Homes
  <2>1. Cardinality(m_handlers[home[s]]) - 1 \in Int
    BY <2>0, ListsAreFinite DEF Types
  <2>2. at' \in [Threads -> Ats]
    BY Zenon, <1>13, <2>1, InAts DEF Types, ResetRemoves
  <2> QED
    BY Zenon, <1>13, <2>2 DEF Types, ResetRemoves, Lock
<1>14. ASSUME NEW t \in Threads, ResetEnds(t) PROVE Types'
  <2>1. state' \in [Subscriptions -> {"none", "active", "inactive", "destroyed"}]
    BY Zenon, <1>14, AtTypes DEF Types, ResetEnds, Release
  <2> QED
    BY Zenon, <1>14, <2>1, AtTypes, InAts DEF Types, ResetEnds, Unlock
<1>15. ASSUME NEW t \in Threads, NEW d \in Dispatchers, Clear(t, d) PROVE Types'
  <2>1. at' \in [Threads -> Ats]
    BY Zenon, <1>15, InAts DEF Types, Clear
  <2> QED
    BY <1>15, <2>1 DEF Types, Clear, Lock
<1>16. ASSUME NEW t \in Threads, ClearPublishes(t) PROVE Types'
  BY Zenon, <1>16, AtTypes, InAts DEF Types, ClearPublishes, Unlock
<1>17. ASSUME NEW t \in Threads, NEW d \in Dispatchers, DestroyDispatcher(t, d) PROVE Types'
  BY Zenon, <1>17 DEF Types, DestroyDispatcher, shared
<1>18. CASE UNCHANGED vars
  BY Zenon, <1>18 DEF Types, vars, shared
<1> QED
  BY Zenon, <1>1, <1>2, <1>3, <1>4, <1>5, <1>6, <1>7, <1>8, <1>9, <1>10, <1>11, <1>12, <1>13, <1>14, <1>15,
     <1>16, <1>17, <1>18
  DEF Next, Begin, Step

-----------------------------------------------------------------------------
(* The mutex and the copies: what holds for every writer. *)

WritingSteps == {"subscribe", "removed", "drained", "cleared"}

\* The other threads stay in their steps, and the subscriptions they handle stay where they are.
OthersStay(t) ==
  \A u \in Threads \ {t} :
    /\ at'[u] = at[u]
    /\ at[u].step \in {"subscribe", "removed"} =>
         home'[at[u].s] = home[at[u].s] /\ state'[at[u].s] = state[at[u].s]

\* A thread that is no writer, before or after, and leaves the mutexes alone.
LEMMA MutexStays ==
  ASSUME Types, Mutex, NEW t \in Threads, OthersStay(t), UNCHANGED m_writer_mutex,
         at[t].step \notin WritingSteps, at'[t].step \notin WritingSteps
  PROVE  Mutex'
<1> SUFFICES ASSUME NEW u \in Threads, NEW d \in Dispatchers
             PROVE  Writing(u, d)' <=> m_writer_mutex'[d] = u
  BY Zenon DEF Mutex
<1>1. Writing(u, d)' <=> Writing(u, d)
  BY Zenon DEF Writing, WritingSteps, OthersStay
<1> QED
  BY Zenon, <1>1 DEF Mutex

\* A thread that begins to write.
LEMMA MutexTaken ==
  ASSUME Types, Mutex, NEW t \in Threads, NEW d \in Dispatchers, OthersStay(t), Lock(t, d),
         at[t].step \notin WritingSteps, \A e \in Dispatchers : Writing(t, e)' <=> e = d
  PROVE  Mutex'
<1> SUFFICES ASSUME NEW u \in Threads, NEW e \in Dispatchers
             PROVE  Writing(u, e)' <=> m_writer_mutex'[e] = u
  BY Zenon DEF Mutex
<1>1. ~ Writing(t, e) /\ (u # t => (Writing(u, e)' <=> Writing(u, e)))
  BY Zenon DEF Writing, WritingSteps, OthersStay
<1>2. m_writer_mutex'[e] = IF e = d THEN t ELSE m_writer_mutex[e]
  BY Zenon DEF Types, Lock
<1>3. e = d => m_writer_mutex[e] # u
  BY Zenon, Instances DEF Lock
<1> QED
  BY Zenon, <1>1, <1>2, <1>3 DEF Mutex

\* A writer that is done.
LEMMA MutexReleased ==
  ASSUME Types, Mutex, NEW t \in Threads, NEW d \in Dispatchers, OthersStay(t), Unlock(d),
         Writing(t, d), at'[t].step \notin WritingSteps
  PROVE  Mutex'
<1> SUFFICES ASSUME NEW u \in Threads, NEW e \in Dispatchers
             PROVE  Writing(u, e)' <=> m_writer_mutex'[e] = u
  BY Zenon DEF Mutex
<1>1. ~ Writing(t, e)' /\ (u # t => (Writing(u, e)' <=> Writing(u, e)))
  BY Zenon DEF Writing, WritingSteps, OthersStay
<1>2. m_writer_mutex'[e] = IF e = d THEN None ELSE m_writer_mutex[e]
  BY Zenon DEF Types, Unlock
<1>3. Writing(t, e) => e = d
  BY Zenon DEF Writing
<1>4. m_writer_mutex[d] = t
  BY Zenon DEF Mutex
<1> QED
  BY Zenon, <1>1, <1>2, <1>3, <1>4, Instances DEF Mutex

\* A step of t writes a dispatcher only while nobody else does.
LEMMA CopiesStay ==
  ASSUME Types, Homes, Mutex, Copies, NEW t \in Threads, OthersStay(t), asked \subseteq asked',
         \A d \in Dispatchers :
           \/ m_writer_mutex[d] \in {None, t}
           \/ /\ m_handlers'[d] = m_handlers[d] /\ m_handler_count'[d] = m_handler_count[d]
              /\ m_pending_removals'[d] = m_pending_removals[d],
         Copy(t)'
  PROVE  Copies'
<1> SUFFICES ASSUME NEW u \in Threads, u # t PROVE Copy(u)'
  BY Zenon DEF Copies
<1>1. Copy(u)
  BY Zenon DEF Copies
<1>2. ASSUME NEW d \in Dispatchers, Writing(u, d)
      PROVE  /\ m_handlers'[d] = m_handlers[d] /\ m_handler_count'[d] = m_handler_count[d]
             /\ m_pending_removals'[d] = m_pending_removals[d]
  BY <1>2, Instances DEF Mutex
<1>3. /\ at'[u] = at[u]
      /\ at[u].step \in {"subscribe", "removed"} =>
           home'[at[u].s] = home[at[u].s] /\ state'[at[u].s] = state[at[u].s]
  BY Zenon DEF OthersStay
<1>4. CASE at[u].step \in {"subscribe", "removed"}
  <2>1. home[at[u].s] \in Dispatchers /\ Writing(u, home[at[u].s])
    BY Zenon, <1>4 DEF Homes, Writing
  <2> QED
    BY <1>1, <1>2, <1>3, <1>4, <2>1 DEF Copy
<1>5. CASE at[u].step \in {"drained", "cleared"}
  <2>1. at[u].d \in Dispatchers /\ Writing(u, at[u].d)
    BY Zenon, <1>5, AtTypes DEF Writing
  <2> QED
    BY Zenon, <1>1, <1>2, <1>3, <1>5, <2>1 DEF Copy
<1> QED
  BY Zenon, <1>3, <1>4, <1>5 DEF Copy

\* A step outside the draining of a queue leaves the debts of all threads.
LEMMA OwesStays ==
  ASSUME NEW t \in Threads, OthersStay(t), UNCHANGED stack,
         at'[t] = at[t] \/ at[t].step \notin {"flag", "drain", "drained"}
  PROVE  \A u \in Threads, d \in Dispatchers : Owes(u, d) => Owes(u, d)'
BY Zenon DEF Owes, EmittingThis, OthersStay

-----------------------------------------------------------------------------
(* subscribe *)

\* subscribe, rejected: nothing is published.
LEMMA SubscribeRejectedStep ==
  ASSUME Counting, EInv, NEW t \in Threads, NEW d \in Dispatchers, NEW s \in Subscriptions,
         SubscribeRejected(t, d, s)
  PROVE  EInv'
<1> USE DEF EInv
<1>0. Types'
  BY Zenon, TypesStep DEF Next, Begin
<1>1. /\ UNCHANGED <<shared, m_writer_mutex, m_alive, home, stack, at, asked, starved>>
      /\ at[t].step = "none" /\ state[s] = "none" /\ home[s] = None
      /\ state' = [state EXCEPT ![s] = "inactive"]
  BY DEF SubscribeRejected, Free, Idle
<1>2. OthersStay(t)
  BY Zenon, <1>1, AtTypes, Instances DEF Types, Homes, OthersStay
<1>3. Nesting'
  BY Zenon, <1>1 DEF Nesting
<1>4. Homes'
  BY Zenon, <1>1 DEF shared, Types, Homes
<1>5. Mutex'
  BY Zenon, <1>1, <1>2, MutexStays DEF WritingSteps
<1>6. Copies'
  BY Zenon, <1>1, <1>2, CopiesStay DEF shared, Copy
<1>7. Counted'
  BY Zenon, <1>1 DEF shared, Counted
<1>8. Kept'
  BY Zenon, <1>1 DEF shared, Types, Kept
<1>9. Queued'
  BY Zenon, <1>1, <1>2, OwesStays DEF shared, Types, Queued
<1> QED
  BY Zenon, <1>0, <1>3, <1>4, <1>5, <1>6, <1>7, <1>8, <1>9

\* subscribe: the mutex is taken, the list copied and the count published.
LEMMA SubscribeStep ==
  ASSUME Counting, EInv, NEW t \in Threads, NEW d \in Dispatchers, NEW s \in Subscriptions, Subscribe(t, d, s)
  PROVE  EInv'
<1> USE DEF EInv
<1>0. Types'
  BY Zenon, TypesStep DEF Next, Begin
<1>1. /\ UNCHANGED <<m_handlers, m_pending_removals, m_has_pending_removals, m_alive, state, stack,
                     asked, starved>>
      /\ at[t].step = "none" /\ state[s] = "none" /\ home[s] = None /\ Lock(t, d)
      /\ home' = [home EXCEPT ![s] = d]
      /\ at' = [at EXCEPT ![t] = [step |-> "subscribe", s |-> s, next |-> m_handlers[d] \cup {s}]]
      /\ m_handler_count' = [m_handler_count EXCEPT ![d] = Cardinality(m_handlers[d]) + 1]
  BY DEF Subscribe, Free, Idle, Goto
<1>2. OthersStay(t)
  BY ZenonT(40), <1>1, AtTypes, Instances DEF Types, Homes, OthersStay
<1>3. Nesting'
  BY Zenon, <1>1 DEF Types, Nesting
<1>4. s \notin m_handlers[d] /\ Cardinality(m_handlers[d] \cup {s}) = Cardinality(m_handlers[d]) + 1
  <2>1. s \in Subscriptions \ m_handlers[d] /\ m_handlers[d] \in SUBSET Subscriptions
    BY Zenon, <1>1 DEF Types, Homes
  <2> QED
    BY Zenon, <2>1 DEF Counting
<1>5. Homes'
  BY <1>1, <1>2, AtTypes, Instances DEF Types, Homes
<1>6. Mutex'
  <2>1. \A e \in Dispatchers : Writing(t, e)' <=> e = d
    BY Zenon, <1>1 DEF Types, Writing
  <2> QED
    BY Zenon, <1>1, <1>2, <2>1, MutexTaken DEF WritingSteps
<1>7. Copies'
  <2>1. Copy(t)'
    BY Zenon, <1>1, <1>4 DEF Types, Copy
  <2>2. \A e \in Dispatchers : e = d \/ m_handler_count'[e] = m_handler_count[e]
    BY Zenon, <1>1 DEF Types
  <2> QED
    BY Zenon, <1>1, <1>2, <2>1, <2>2, CopiesStay DEF Lock
<1>8. Counted'
  <2>1. Cardinality(m_handlers[d]) + 1 \in 0 .. Cardinality(Subscriptions)
    <3>1. m_handlers[d] \cup {s} \in SUBSET Subscriptions /\ m_handlers[d] \in SUBSET Subscriptions
      BY Zenon DEF Types
    <3> QED
      BY <1>4, <3>1, ListsAreFinite
  <2> QED
    BY Zenon, <1>1, <2>1, Instances DEF Types, Counted, Lock
<1>9. Kept'
  BY Zenon, <1>1 DEF Types, Kept
<1>10. Queued'
  BY Zenon, <1>1, <1>2, OwesStays DEF Types, Queued
<1> QED
  BY Zenon, <1>0, <1>3, <1>5, <1>6, <1>7, <1>8, <1>9, <1>10

\* subscribe: the copy is published; it is still the list and one handler more.
LEMMA SubscribePublishesStep ==
  ASSUME Counting, EInv, NEW t \in Threads, SubscribePublishes(t) PROVE EInv'
<1> USE DEF EInv
<1>0. Types'
  BY Zenon, TypesStep DEF Next, Step
<1> DEFINE s == at[t].s
           d == home[s]
<1>1. /\ UNCHANGED <<m_handler_count, m_pending_removals, m_has_pending_removals, m_alive, home,
                     stack, asked, starved>>
      /\ at[t].step = "subscribe" /\ Unlock(d) /\ at' = [at EXCEPT ![t] = Idle]
      /\ m_handlers' = [m_handlers EXCEPT ![d] = at[t].next]
      /\ state' = [state EXCEPT ![s] = "active"]
  BY Zenon DEF SubscribePublishes, Goto
<1>2. /\ s \in Subscriptions /\ d \in Dispatchers /\ Writing(t, d) /\ m_writer_mutex[d] = t
      /\ state[s] = "none" /\ at[t].next = m_handlers[d] \cup {s}
      /\ m_handler_count[d] = Cardinality(at[t].next)
  BY <1>1, AtTypes DEF Homes, Writing, Mutex, Copies, Copy
<1> HIDE DEF s, d
<1>3. OthersStay(t)
  <2> SUFFICES ASSUME NEW u \in Threads, u # t, at[u].step \in {"subscribe", "removed"}
               PROVE  at[u].s # s
    BY <1>1 DEF Types, OthersStay
  <2> QED
    BY Zenon, <1>2 DEF Mutex, Writing, d
<1>4. Nesting'
  BY Zenon, <1>1 DEF Types, Nesting, Idle
<1>5. Homes'
  <2>1. \A e \in Dispatchers : \A r \in m_handlers'[e] \cup m_pending_removals'[e] :
          home'[r] = e /\ state'[r] # "none"
    BY <1>1, <1>2 DEF Types, Homes, d
  <2> QED
    BY <1>1, <1>2, <2>1, AtTypes DEF Types, Homes, Idle, d
<1>6. Mutex'
  <2>1. at'[t].step \notin WritingSteps
    BY Zenon, <1>1 DEF Types, Idle, WritingSteps
  <2> QED
    BY Zenon, <1>1, <1>2, <1>3, <2>1, MutexReleased
<1>7. Copies'
  <2>1. Copy(t)'
    BY Zenon, <1>1 DEF Types, Copy, Idle
  <2>2. \A e \in Dispatchers : e = d \/ m_handlers'[e] = m_handlers[e]
    BY Zenon, <1>1 DEF Types
  <2> QED
    BY Zenon, <1>1, <1>2, <1>3, <2>1, <2>2, CopiesStay
<1>8. Counted'
  BY Zenon, <1>1, <1>2 DEF Types, Counted, Unlock
<1>9. Kept'
  BY <1>1, <1>2 DEF Types, Kept, d
<1>10. Queued'
  <2>1. \A r \in Subscriptions : state'[r] = "destroyed" =>
          state[r] = "destroyed" /\ (r \in m_handlers'[home'[r]] => r \in m_handlers[home[r]])
    BY Zenon, <1>1, <1>2 DEF Types, Homes
  <2> QED
    BY Zenon, <1>1, <1>3, <2>1, OwesStays DEF Types, Queued
<1> QED
  BY Zenon, <1>0, <1>4, <1>5, <1>6, <1>7, <1>8, <1>9, <1>10

-----------------------------------------------------------------------------
(* emit and emit_safe: a thread changes its own stack and its own step. *)

\* An emit writes nothing that other threads read.
LEMMA ReadersWriteNothing ==
  ASSUME Counting, EInv, Types', NEW t \in Threads, OthersStay(t),
         UNCHANGED <<shared, m_writer_mutex, m_alive, home, state, asked, starved>>,
         at[t].step \notin WritingSteps, at'[t].step \notin WritingSteps
  PROVE  Homes' /\ Mutex' /\ Copies' /\ Counted' /\ Kept'
<1> USE DEF EInv
<1>1. Homes'
  BY Zenon DEF shared, Homes, OthersStay, WritingSteps
<1>2. Mutex'
  BY Zenon, MutexStays
<1>3. Copies'
  <2>1. Copy(t)'
    BY Zenon DEF Copy, WritingSteps
  <2> QED
    BY Zenon, <2>1, CopiesStay DEF shared
<1>4. Counted' /\ Kept'
  BY Zenon DEF shared, Counted, Kept
<1> QED
  BY Zenon, <1>1, <1>2, <1>3, <1>4

\* emit: the count is looked at.
LEMMA EmitStep ==
  ASSUME Counting, EInv, NEW t \in Threads, NEW d \in Dispatchers, Emit(t, d) PROVE EInv'
<1> USE DEF EInv
<1>0. Types'
  BY Zenon, TypesStep DEF Next, Begin
<1>1. /\ UNCHANGED <<shared, m_writer_mutex, m_alive, home, state, stack, asked, starved>>
      /\ at[t].step = "none" /\ Len(stack[t]) < MaxDepth
      /\ at' = [at EXCEPT ![t] = [step |-> "load", d |-> d]]
  BY DEF Emit, Free, Idle, Goto
<1>2. OthersStay(t) /\ at'[t].step = "load"
  BY Zenon, <1>1 DEF Types, OthersStay
<1>3. Homes' /\ Mutex' /\ Copies' /\ Counted' /\ Kept'
  BY Zenon, <1>0, <1>1, <1>2, ReadersWriteNothing DEF WritingSteps
<1>4. Nesting'
  BY Zenon, <1>1 DEF Types, Nesting
<1>5. Queued'
  BY Zenon, <1>1, <1>2, OwesStays DEF shared, Queued
<1> QED
  BY Zenon, <1>0, <1>3, <1>4, <1>5

\* emit: the snapshot is loaded, and the EmitGuard is on the stack.
LEMMA EmitLoadsStep ==
  ASSUME Counting, EInv, NEW t \in Threads, EmitLoads(t) PROVE EInv'
<1> USE DEF EInv
<1>0. Types'
  BY Zenon, TypesStep DEF Next, Step
<1> DEFINE f == [owner |-> at[t].d, todo |-> m_handlers[at[t].d], calling |-> FALSE]
<1>1. /\ UNCHANGED <<shared, m_writer_mutex, m_alive, home, state, asked, starved>>
      /\ at[t].step = "load" /\ at' = [at EXCEPT ![t] = Idle]
      /\ stack' = [stack EXCEPT ![t] = Append(stack[t], f)]
  BY Zenon DEF EmitLoads, Goto
<1> HIDE DEF f
<1>2. OthersStay(t) /\ at'[t].step = "none"
  BY Zenon, <1>1 DEF Types, OthersStay, Idle
<1>3. Homes' /\ Mutex' /\ Copies' /\ Counted' /\ Kept'
  BY Zenon, <1>0, <1>1, <1>2, ReadersWriteNothing DEF WritingSteps
<1>4. /\ stack[t] \in Seq(Frames) /\ stack'[t] = Append(stack[t], f)
      /\ \A u \in Threads : u # t => stack'[u] = stack[u]
  BY Zenon, <1>1 DEF Types
<1>5. /\ Len(stack'[t]) = Len(stack[t]) + 1
      /\ \A i \in 1 .. Len(stack[t]) : stack'[t][i] = stack[t][i]
  BY <1>4
<1>6. Nesting'
  BY <1>1, <1>2, <1>4, <1>5, Instances DEF Types, Nesting
<1>7. ASSUME NEW u \in Threads, NEW e \in Dispatchers, Owes(u, e) PROVE Owes(u, e)'
  BY <1>1, <1>2, <1>4, <1>5, <1>7 DEF Owes, EmittingThis, OthersStay
<1>8. Queued'
  BY Zenon, <1>1, <1>7 DEF shared, Queued
<1> QED
  BY Zenon, <1>0, <1>3, <1>6, <1>8

\* emit: a handler is called and returns or throws.
LEMMA HandlerStep ==
  ASSUME Counting, EInv, NEW t \in Threads, NEW throws \in BOOLEAN, Call(t) \/ Return(t, throws) PROVE EInv'
<1> USE DEF EInv
<1>0. Types'
  BY Zenon, TypesStep DEF Next, Step
<1>1. /\ UNCHANGED <<shared, m_writer_mutex, m_alive, home, state, at, asked, starved>>
      /\ at[t].step = "none"
  <2>1. UNCHANGED <<shared, m_writer_mutex, m_alive, home, state, at, asked, starved>>
    BY Zenon DEF Call, Return
  <2>2. at[t] = Idle
    BY Zenon DEF Call, Return
  <2> QED
    BY <2>1, <2>2 DEF Idle
<1>2. OthersStay(t)
  BY Zenon, <1>1 DEF OthersStay
<1>3. Homes' /\ Mutex' /\ Copies' /\ Counted' /\ Kept'
  BY Zenon, <1>0, <1>1, <1>2, ReadersWriteNothing DEF WritingSteps
<1>4. \A u \in Threads : /\ Len(stack'[u]) = Len(stack[u])
                         /\ \A i \in 1 .. Len(stack[u]) : stack'[u][i].owner = stack[u][i].owner
  BY Zenon, TopChanges
<1>5. Nesting'
  BY Zenon, <1>1, <1>4 DEF Nesting
<1>6. ASSUME NEW u \in Threads, NEW e \in Dispatchers, Owes(u, e) PROVE Owes(u, e)'
  <2>1. stack[u] \in Seq(Frames) /\ stack'[u] \in Seq(Frames)
    BY Zenon, <1>0 DEF Types
  <2>2. DOMAIN stack[u] = 1 .. Len(stack[u]) /\ DOMAIN stack'[u] = 1 .. Len(stack'[u])
    BY <2>1
  <2>3. EmittingThis(u, e) => EmittingThis(u, e)'
    BY Zenon, <1>4, <2>2 DEF EmittingThis
  <2> QED
    BY Zenon, <1>1, <1>6, <2>3 DEF Owes
<1>7. Queued'
  BY Zenon, <1>1, <1>6 DEF shared, Queued
<1> QED
  BY Zenon, <1>0, <1>3, <1>5, <1>7

\* ~EmitGuard leaves the stack, and now owes a look at the flag.
LEMMA UnwindStep ==
  ASSUME Counting, EInv, NEW t \in Threads, Unwind(t) PROVE EInv'
<1> USE DEF EInv
<1>0. Types'
  BY Zenon, TypesStep DEF Next, Step
<1>1. /\ UNCHANGED <<shared, m_writer_mutex, m_alive, home, state, asked, starved>>
      /\ at[t].step = "none" /\ stack[t] # <<>>
      /\ at' = [at EXCEPT ![t] = [step |-> "flag", d |-> Top(t).owner]]
      /\ \A u \in Threads : u # t => stack'[u] = stack[u]
  BY DEF Unwind, Idle, Goto, Types
<1>2. OthersStay(t) /\ at'[t].step = "flag" /\ at'[t].d = Top(t).owner
  BY Zenon, <1>1 DEF Types, OthersStay
<1>3. Homes' /\ Mutex' /\ Copies' /\ Counted' /\ Kept'
  BY Zenon, <1>0, <1>1, <1>2, ReadersWriteNothing DEF WritingSteps
<1>4. /\ stack[t] \in Seq(Frames) /\ stack'[t] \in Seq(Frames) /\ Len(stack'[t]) = Len(stack[t]) - 1
      /\ \A i \in 1 .. Len(stack[t]) - 1 : stack'[t][i] = stack[t][i]
  BY Zenon, Unwound DEF Types
<1>5. Nesting'
  BY <1>1, <1>2, <1>4, Instances DEF Types, Nesting, OthersStay
<1>6. ASSUME NEW u \in Threads, NEW e \in Dispatchers, Owes(u, e) PROVE Owes(u, e)'
  <2>1. CASE u # t
    BY Zenon, <1>1, <1>2, <1>6, <2>1 DEF Owes, EmittingThis, OthersStay
  <2>2. CASE u = t
    <3>1. PICK i \in 1 .. Len(stack[t]) : stack[t][i].owner = e
      BY <1>1, <1>4, <1>6, <2>2 DEF Owes, EmittingThis
    <3>2. CASE i = Len(stack[t])
      BY Zenon, <1>2, <2>2, <3>1, <3>2 DEF Owes, Top
    <3>3. CASE i # Len(stack[t])
      BY <1>4, <2>2, <3>1, <3>3 DEF Owes, EmittingThis
    <3> QED
      BY Zenon, <3>2, <3>3
  <2> QED
    BY Zenon, <2>1, <2>2
<1>7. Queued'
  BY Zenon, <1>1, <1>6 DEF shared, Queued
<1> QED
  BY Zenon, <1>0, <1>3, <1>5, <1>7

\* ~EmitGuard looks at the flag, which is set while anything is queued.
LEMMA LoadFlagStep ==
  ASSUME Counting, EInv, NEW t \in Threads, LoadFlag(t) PROVE EInv'
<1> USE DEF EInv
<1>0. Types'
  BY Zenon, TypesStep DEF Next, Step
<1>1. /\ UNCHANGED <<shared, m_writer_mutex, m_alive, home, state, stack, asked, starved>>
      /\ at[t].step = "flag" /\ at[t].d \in Dispatchers
      /\ at' = [at EXCEPT ![t] = IF m_has_pending_removals[at[t].d]
                                 THEN [step |-> "drain", d |-> at[t].d] ELSE Idle]
  BY Zenon, AtTypes DEF LoadFlag, Goto
<1>2. /\ OthersStay(t) /\ at'[t].step \in {"drain", "none"}
      /\ m_has_pending_removals[at[t].d] => at'[t].step = "drain" /\ at'[t].d = at[t].d
  BY Zenon, <1>1 DEF Types, OthersStay, Idle
<1>3. Homes' /\ Mutex' /\ Copies' /\ Counted' /\ Kept'
  BY Zenon, <1>0, <1>1, <1>2, ReadersWriteNothing DEF WritingSteps
<1>4. Nesting'
  BY Zenon, <1>1, <1>2 DEF Nesting, OthersStay
<1>5. ASSUME NEW u \in Threads, NEW e \in Dispatchers, Owes(u, e), m_has_pending_removals[e]
      PROVE  Owes(u, e)'
  BY Zenon, <1>1, <1>2, <1>5 DEF Owes, EmittingThis, OthersStay
<1>6. Queued'
  BY Zenon, <1>1, <1>5 DEF shared, Queued
<1> QED
  BY Zenon, <1>0, <1>3, <1>4, <1>6

\* drain_pending_removals: nothing queued, no memory, or the first of its two stores.
LEMMA DrainBeginsStep ==
  ASSUME Counting, EInv, NEW t \in Threads, DrainBegins(t) PROVE EInv'
<1> USE DEF EInv
<1>0. Types'
  BY Zenon, TypesStep DEF Next, Step
<1> DEFINE d == at[t].d
<1>1. /\ UNCHANGED <<m_handler_count, m_pending_removals, m_alive, home, state, stack, asked>>
      /\ at[t].step = "drain" /\ d \in Dispatchers /\ m_writer_mutex[d] = None
  BY Zenon, AtTypes DEF DrainBegins, Locked, Lock
<1>2. CASE /\ m_pending_removals[d] = {} /\ UNCHANGED <<m_handlers, m_writer_mutex, starved>>
           /\ m_has_pending_removals' = [m_has_pending_removals EXCEPT ![d] = FALSE]
           /\ at' = [at EXCEPT ![t] = Idle]
  <2>1. OthersStay(t) /\ at'[t].step = "none"
    BY Zenon, <1>1, <1>2 DEF Types, OthersStay, Idle
  <2>2. Nesting'
    BY Zenon, <1>1, <2>1 DEF Nesting, OthersStay
  <2>3. Homes'
    BY ZenonT(40), <1>1, <1>2, <2>1 DEF Homes, OthersStay
  <2>4. Mutex'
    BY Zenon, <1>1, <1>2, <2>1, MutexStays DEF WritingSteps
  <2>5. Copies'
    <3>1. Copy(t)'
      BY Zenon, <2>1 DEF Copy
    <3> QED
      BY Zenon, <1>1, <1>2, <2>1, <3>1, CopiesStay
  <2>6. Counted' /\ Kept'
    BY Zenon, <1>1, <1>2 DEF Counted, Kept
  <2>7. ASSUME NEW u \in Threads, NEW e \in Dispatchers, Owes(u, e), m_pending_removals[e] # {}
        PROVE  Owes(u, e)'
    BY Zenon, <1>1, <1>2, <2>1, <2>7 DEF Owes, EmittingThis, OthersStay
  <2>8. Queued'
    BY Zenon, <1>1, <1>2, <2>7 DEF Types, Queued
  <2> QED
    BY Zenon, <1>0, <2>2, <2>3, <2>4, <2>5, <2>6, <2>8
<1>3. CASE /\ starved' = TRUE /\ UNCHANGED <<m_handlers, m_has_pending_removals, m_writer_mutex>>
           /\ at' = [at EXCEPT ![t] = Idle]
  <2>1. OthersStay(t) /\ at'[t].step = "none"
    BY Zenon, <1>1, <1>3 DEF Types, OthersStay, Idle
  <2>2. Nesting'
    BY Zenon, <1>1, <2>1 DEF Nesting, OthersStay
  <2>3. Homes'
    BY ZenonT(40), <1>1, <1>3, <2>1 DEF Homes, OthersStay
  <2>4. Mutex'
    BY Zenon, <1>1, <1>3, <2>1, MutexStays DEF WritingSteps
  <2>5. Copies'
    <3>1. Copy(t)'
      BY Zenon, <2>1 DEF Copy
    <3> QED
      BY Zenon, <1>1, <1>3, <2>1, <3>1, CopiesStay
  <2>6. Counted' /\ Kept' /\ Queued'
    BY Zenon, <1>1, <1>3 DEF Counted, Kept, Queued
  <2> QED
    BY Zenon, <1>0, <2>2, <2>3, <2>4, <2>5, <2>6
<1>4. CASE /\ Lock(t, d) /\ UNCHANGED <<m_has_pending_removals, starved>>
           /\ m_handlers' = [m_handlers EXCEPT ![d] = @ \ m_pending_removals[d]]
           /\ at' = [at EXCEPT ![t] = [step |-> "drained", d |-> d]]
  <2>1. OthersStay(t) /\ at'[t].step = "drained" /\ at'[t].d = d
    BY Zenon, <1>1, <1>4 DEF Types, OthersStay
  <2>2. Nesting'
    BY Zenon, <1>1, <2>1 DEF Nesting, OthersStay
  <2>3. /\ m_handlers'[d] = m_handlers[d] \ m_pending_removals[d]
        /\ \A e \in Dispatchers : e # d => m_handlers'[e] = m_handlers[e]
    BY Zenon, <1>1, <1>4 DEF Types
  <2>4. Homes'
    BY <1>1, <2>1, <2>3 DEF Homes, OthersStay
  <2>5. Mutex'
    <3>1. \A e \in Dispatchers : Writing(t, e)' <=> e = d
      BY Zenon, <2>1 DEF Writing
    <3> QED
      BY Zenon, <1>1, <1>4, <2>1, <3>1, MutexTaken DEF WritingSteps
  <2>6. Copies'
    <3>1. Cardinality(m_handlers'[d]) <= Cardinality(m_handlers[d])
      BY Zenon, <1>1, <2>3 DEF Types, Counting
    <3>2. Copy(t)'
      BY Zenon, <1>1, <2>1, <2>3, <3>1 DEF Copy, Counted
    <3> QED
      BY Zenon, <1>1, <1>4, <2>1, <2>3, <3>2, CopiesStay
  <2>7. Counted'
    BY Zenon, <1>1, <1>4, <2>3, Instances DEF Types, Counted, Lock
  <2>8. Kept'
    BY Zenon, <1>1, <2>3 DEF Homes, Kept
  <2>9. ASSUME NEW u \in Threads, NEW e \in Dispatchers, Owes(u, e) PROVE Owes(u, e)'
    BY Zenon, <1>1, <2>1, <2>9 DEF Owes, EmittingThis, OthersStay
  <2>10. Queued'
    BY ZenonT(40), <1>1, <1>4, <2>3, <2>9 DEF Types, Homes, Queued
  <2> QED
    BY Zenon, <1>0, <2>2, <2>4, <2>5, <2>6, <2>7, <2>8, <2>10
<1> QED
  BY Zenon, <1>2, <1>3, <1>4 DEF DrainBegins, Locked, RunsOut, Goto

\* drain_pending_removals: the count is published, and the queue emptied of what has left.
LEMMA DrainEndsStep ==
  ASSUME Counting, EInv, NEW t \in Threads, DrainEnds(t) PROVE EInv'
<1> USE DEF EInv
<1>0. Types'
  BY Zenon, TypesStep DEF Next, Step
<1> DEFINE d == at[t].d
<1>1. /\ UNCHANGED <<m_handlers, m_alive, home, state, stack, asked, starved>>
      /\ at[t].step = "drained" /\ Unlock(d) /\ at' = [at EXCEPT ![t] = Idle]
      /\ m_handler_count' = [m_handler_count EXCEPT ![d] = Cardinality(m_handlers[d])]
      /\ m_pending_removals' = [m_pending_removals EXCEPT ![d] = {}]
      /\ m_has_pending_removals' = [m_has_pending_removals EXCEPT ![d] = FALSE]
  BY Zenon DEF DrainEnds, Goto
<1>2. /\ d \in Dispatchers /\ Writing(t, d) /\ m_writer_mutex[d] = t
      /\ m_handlers[d] \cap m_pending_removals[d] = {}
  BY Zenon, <1>1, AtTypes DEF Writing, Mutex, Copies, Copy
<1>3. OthersStay(t) /\ at'[t].step = "none"
  BY Zenon, <1>1 DEF Types, OthersStay, Idle
<1> HIDE DEF d
<1>4. /\ m_handler_count'[d] = Cardinality(m_handlers[d]) /\ m_pending_removals'[d] = {}
      /\ \A e \in Dispatchers : e # d =>
           /\ m_handler_count'[e] = m_handler_count[e] /\ m_pending_removals'[e] = m_pending_removals[e]
           /\ m_has_pending_removals'[e] = m_has_pending_removals[e]
           /\ m_writer_mutex'[e] = m_writer_mutex[e]
  BY Zenon, <1>1, <1>2 DEF Types, Unlock
<1>5. Nesting'
  BY Zenon, <1>1, <1>3 DEF Nesting, OthersStay
<1>6. Homes'
  BY <1>1, <1>3, <1>4 DEF Homes, OthersStay
<1>7. Mutex'
  BY Zenon, <1>1, <1>2, <1>3, MutexReleased DEF WritingSteps
<1>8. Copies'
  <2>1. Copy(t)'
    BY Zenon, <1>3 DEF Copy
  <2> QED
    BY Zenon, <1>1, <1>2, <1>3, <1>4, <2>1, CopiesStay
<1>9. Counted'
  <2>1. Cardinality(m_handlers[d]) \in 0 .. Cardinality(Subscriptions)
    BY <1>2, ListsAreFinite DEF Types
  <2> QED
    BY Zenon, <1>1, <1>4, <2>1 DEF Counted
<1>10. Kept'
  BY Zenon, <1>1, <1>4 DEF Kept
<1>11. ASSUME NEW u \in Threads, NEW e \in Dispatchers, Owes(u, e), e # d PROVE Owes(u, e)'
  BY Zenon, <1>1, <1>3, <1>11 DEF Owes, EmittingThis, OthersStay, d
<1>12. Queued'
  <2>1. \A s \in Subscriptions : s \in m_handlers[home[s]] /\ s \in m_pending_removals[home[s]] =>
          home[s] # d
    BY Zenon, <1>2
  <2> QED
    BY <1>1, <1>4, <1>11, <2>1 DEF Homes, Queued
<1> QED
  BY Zenon, <1>0, <1>5, <1>6, <1>7, <1>8, <1>9, <1>10, <1>12

-----------------------------------------------------------------------------
(* Subscription::reset and ~Subscription, and unsubscribe *)

\* A Subscription its thread may use is in no step of another thread.
LEMMA Owned ==
  ASSUME Types, Homes, Copies, NEW t \in Threads, NEW s \in Subscriptions, Owns(t, s)
  PROVE  /\ at[t].step = "none" /\ state[s] = "active" /\ home[s] \in Dispatchers
         /\ \A u \in Threads : at[u].step \in {"subscribe", "removed"} => at[u].s # s
BY Zenon, AtTypes DEF Owns, Free, Idle, Homes, Copies, Copy

\* reset of a Subscription whose dispatcher is gone.
LEMMA ResetExpiredStep ==
  ASSUME Counting, EInv, NEW t \in Threads, NEW s \in Subscriptions, NEW destroys \in BOOLEAN,
         ResetExpired(t, s, destroys)
  PROVE  EInv'
<1> USE DEF EInv
<1>0. Types'
  BY Zenon, TypesStep DEF Next, Begin
<1>1. /\ UNCHANGED <<shared, m_writer_mutex, m_alive, home, stack, at, asked, starved>>
      /\ Owns(t, s) /\ ~ m_alive[home[s]]
      /\ state' = [state EXCEPT ![s] = IF destroys THEN "destroyed" ELSE "inactive"]
  BY Zenon DEF ResetExpired, Release
<1>2. /\ at[t].step = "none" /\ state[s] = "active" /\ home[s] \in Dispatchers
      /\ state'[s] \in {"destroyed", "inactive"}
      /\ \A r \in Subscriptions : r # s => state'[r] = state[r]
  BY Zenon, <1>1, Owned DEF Types
<1>3. OthersStay(t)
  BY Zenon, <1>1, <1>2, Owned, AtTypes DEF OthersStay
<1>4. Nesting'
  BY Zenon, <1>1 DEF Nesting
<1>5. Homes'
  BY <1>1, <1>2 DEF shared, Types, Homes
<1>6. Mutex'
  BY Zenon, <1>1, <1>2, <1>3, MutexStays DEF WritingSteps
<1>7. Copies'
  BY Zenon, <1>1, <1>2, <1>3, CopiesStay DEF shared, Copy
<1>8. Counted'
  BY Zenon, <1>1 DEF shared, Counted
<1>9. Kept'
  BY Zenon, <1>1, <1>2 DEF shared, Kept
<1>10. Queued'
  BY Zenon, <1>1, <1>2, <1>3, OwesStays DEF shared, Queued
<1> QED
  BY Zenon, <1>0, <1>4, <1>5, <1>6, <1>7, <1>8, <1>9, <1>10

\* unsubscribe inside an emit of the dispatcher: the removal is queued.
LEMMA ResetDeferredStep ==
  ASSUME Counting, EInv, NEW t \in Threads, NEW s \in Subscriptions, NEW destroys \in BOOLEAN,
         ResetDeferred(t, s, destroys)
  PROVE  EInv'
<1> USE DEF EInv
<1>0. Types'
  BY Zenon, TypesStep DEF Next, Begin
<1> DEFINE d == home[s]
<1>1. /\ UNCHANGED <<m_handlers, m_handler_count, m_writer_mutex, m_alive, home, stack, at>>
      /\ Owns(t, s) /\ EmittingThis(t, d) /\ m_writer_mutex[d] = None
      /\ asked' = asked \cup {s}
      /\ state' = [state EXCEPT ![s] = IF destroys THEN "destroyed" ELSE @]
  BY Zenon DEF ResetDeferred, Release, Locked
<1>2. /\ at[t].step = "none" /\ state[s] = "active" /\ d \in Dispatchers
      /\ state'[s] \in {"destroyed", "active"}
      /\ \A r \in Subscriptions : r # s => state'[r] = state[r]
  BY Zenon, <1>1, Owned DEF Types
<1>3. OthersStay(t)
  BY Zenon, <1>1, <1>2, Owned, AtTypes DEF OthersStay
<1>4. /\ \A e \in Dispatchers : e # d =>
           /\ m_pending_removals'[e] = m_pending_removals[e]
           /\ m_has_pending_removals'[e] = m_has_pending_removals[e]
      /\ \/ /\ m_pending_removals'[d] = m_pending_removals[d] \cup {s}
            /\ m_has_pending_removals'[d] <=>
                 m_has_pending_removals[d] \/ s \notin m_pending_removals[d]
            /\ starved' = starved
         \/ /\ UNCHANGED <<m_pending_removals, m_has_pending_removals>>
            /\ starved' = TRUE
  BY Zenon, <1>2 DEF ResetDeferred, RunsOut, Types
<1> HIDE DEF d
<1>5. Nesting'
  BY Zenon, <1>1 DEF Nesting
<1>6. Homes'
  <2>1. \A e \in Dispatchers : m_pending_removals'[e] \subseteq m_pending_removals[e] \cup
                                 (IF e = d THEN {s} ELSE {})
    BY Zenon, <1>4
  <2> QED
    BY <1>1, <1>2, <2>1 DEF Types, Homes, d
<1>7. Mutex'
  BY Zenon, <1>1, <1>2, <1>3, MutexStays DEF WritingSteps
<1>8. Copies'
  BY Zenon, <1>1, <1>2, <1>3, <1>4, CopiesStay DEF Copy
<1>9. Counted'
  BY Zenon, <1>1 DEF Counted
<1>10. Kept'
  <2>1. \A e \in Dispatchers : m_pending_removals'[e] \subseteq asked'
    BY Zenon, <1>1, <1>4 DEF Kept
  <2> QED
    BY Zenon, <1>1, <1>2, <2>1 DEF Kept
<1>11. Queued'
  <2>1. \A e \in Dispatchers : m_pending_removals'[e] # {} => m_has_pending_removals'[e]
    BY Zenon, <1>4 DEF Queued
  <2>2. CASE starved' = TRUE
    BY Zenon, <2>1, <2>2 DEF Queued
  <2>3. CASE starved' = starved /\ m_pending_removals'[d] = m_pending_removals[d] \cup {s}
    <3>1. \A e \in Dispatchers : e = d => Owes(t, e)'
      BY Zenon, <1>1 DEF Owes, EmittingThis
    <3>2. \A u \in Threads, e \in Dispatchers : Owes(u, e) => Owes(u, e)'
      BY Zenon, <1>1, <1>3, OwesStays
    <3>3. s \in m_pending_removals'[home'[s]]
      BY Zenon, <1>1, <2>3 DEF d
    <3> QED
      BY <1>1, <1>2, <1>4, <2>1, <2>3, <3>1, <3>2, <3>3 DEF Homes, Queued
  <2> QED
    BY Zenon, <1>4, <2>2, <2>3
<1> QED
  BY Zenon, <1>0, <1>5, <1>6, <1>7, <1>8, <1>9, <1>10, <1>11

\* unsubscribe that finds nothing, or no memory.
LEMMA ResetKeepsListStep ==
  ASSUME Counting, EInv, NEW t \in Threads, NEW s \in Subscriptions, NEW destroys \in BOOLEAN,
         ResetKeepsList(t, s, destroys)
  PROVE  EInv'
<1> USE DEF EInv
<1>0. Types'
  BY Zenon, TypesStep DEF Next, Begin
<1>1. /\ UNCHANGED <<shared, m_writer_mutex, m_alive, home, stack, at>>
      /\ Owns(t, s) /\ asked' = asked \cup {s}
      /\ starved' = TRUE \/ (starved' = starved /\ s \notin m_handlers[home[s]])
      /\ state' = [state EXCEPT ![s] = state'[s]]
  BY Zenon DEF ResetKeepsList, Release, Locked, RunsOut, Types
<1>2. /\ at[t].step = "none" /\ state[s] = "active" /\ home[s] \in Dispatchers
      /\ state'[s] # "none"
      /\ \A r \in Subscriptions : r # s => state'[r] = state[r]
  BY Zenon, Owned DEF Types, ResetKeepsList, Release
<1>3. OthersStay(t)
  BY ZenonT(40), <1>1, <1>2, Owned, AtTypes DEF OthersStay
<1>4. Nesting'
  BY Zenon, <1>1 DEF Nesting
<1>5. Homes'
  BY ZenonT(40), <1>1, <1>2 DEF shared, Types, Homes
<1>6. Mutex'
  BY Zenon, <1>1, <1>2, <1>3, MutexStays DEF WritingSteps
<1>7. Copies'
  BY Zenon, <1>1, <1>2, <1>3, CopiesStay DEF shared, Copy
<1>8. Counted'
  BY Zenon, <1>1 DEF shared, Counted
<1>9. Kept'
  BY Zenon, <1>1, <1>2 DEF shared, Kept
<1>10. Queued'
  BY <1>1, <1>2, <1>3, OwesStays DEF shared, Queued
<1> QED
  BY Zenon, <1>0, <1>4, <1>5, <1>6, <1>7, <1>8, <1>9, <1>10

\* unsubscribe: the list without the handler is published.
LEMMA ResetRemovesStep ==
  ASSUME Counting, EInv, NEW t \in Threads, NEW s \in Subscriptions, NEW destroys \in BOOLEAN,
         ResetRemoves(t, s, destroys)
  PROVE  EInv'
<1> USE DEF EInv
<1>0. Types'
  BY Zenon, TypesStep DEF Next, Begin
<1> DEFINE d == home[s]
           n == Cardinality(m_handlers[d])
<1>1. /\ UNCHANGED <<m_handler_count, m_pending_removals, m_has_pending_removals, m_alive, home,
                     state, stack, starved>>
      /\ Owns(t, s) /\ Lock(t, d) /\ s \in m_handlers[d] /\ asked' = asked \cup {s}
      /\ m_handlers' = [m_handlers EXCEPT ![d] = @ \ {s}]
      /\ at' = [at EXCEPT ![t] = [step |-> "removed", s |-> s, destroys |-> destroys,
                                  count |-> n - 1]]
  BY Zenon DEF ResetRemoves, Goto
<1>2. /\ at[t].step = "none" /\ state[s] = "active" /\ d \in Dispatchers
      /\ m_handlers'[d] = m_handlers[d] \ {s}
      /\ \A e \in Dispatchers : e # d => m_handlers'[e] = m_handlers[e]
      /\ at'[t].step = "removed" /\ at'[t].s = s /\ at'[t].count = n - 1
  BY Zenon, <1>1, Owned DEF Types
<1>3. OthersStay(t)
  BY Zenon, <1>1 DEF Types, OthersStay
<1>4. n \in Nat /\ Cardinality(m_handlers'[d]) = n - 1 /\ m_handler_count[d] = n
  <2>1. m_handlers[d] \in SUBSET Subscriptions /\ n \in Nat
    BY Zenon, <1>2, ListsAreFinite DEF Types
  <2>2. Cardinality(m_handlers[d] \ {s}) = n - 1
    BY Zenon, <1>1, <2>1 DEF Counting
  <2> QED
    BY Zenon, <1>1, <1>2, <2>1, <2>2 DEF Lock, Counted
<1> HIDE DEF d, n
<1>5. Nesting'
  BY Zenon, <1>1, <1>2, <1>3 DEF Nesting, OthersStay
<1>6. Homes'
  <2>1. \A e \in Dispatchers : m_handlers'[e] \subseteq m_handlers[e]
    BY Zenon, <1>2
  <2> QED
    BY <1>1, <1>2, <1>3, <2>1 DEF Homes, OthersStay, d
<1>7. Mutex'
  <2>1. \A e \in Dispatchers : Writing(t, e)' <=> e = d
    BY Zenon, <1>1, <1>2 DEF Writing, d
  <2> QED
    BY Zenon, <1>1, <1>2, <1>3, <2>1, MutexTaken DEF WritingSteps
<1>8. Copies'
  <2>1. Copy(t)'
    BY <1>1, <1>2, <1>4 DEF Copy, d
  <2> QED
    BY Zenon, <1>1, <1>2, <1>3, <2>1, CopiesStay DEF Lock
<1>9. Counted'
  BY Zenon, <1>1, <1>2, Instances DEF Types, Counted, Lock
<1>10. Kept'
  BY <1>1, <1>2 DEF Homes, Kept
<1>11. Queued'
  BY <1>1, <1>2, <1>3, OwesStays DEF Homes, Queued
<1> QED
  BY Zenon, <1>0, <1>5, <1>6, <1>7, <1>8, <1>9, <1>10, <1>11

\* unsubscribe: the count follows the list.
LEMMA ResetEndsStep ==
  ASSUME Counting, EInv, NEW t \in Threads, ResetEnds(t) PROVE EInv'
<1> USE DEF EInv
<1>0. Types'
  BY Zenon, TypesStep DEF Next, Step
<1> DEFINE s == at[t].s
           d == home[s]
<1>1. /\ UNCHANGED <<m_handlers, m_pending_removals, m_has_pending_removals, m_alive, home, stack,
                     asked, starved>>
      /\ at[t].step = "removed" /\ Unlock(d) /\ at' = [at EXCEPT ![t] = Idle]
      /\ m_handler_count' = [m_handler_count EXCEPT ![d] = at[t].count]
      /\ state' = [state EXCEPT ![s] = IF at[t].destroys THEN "destroyed" ELSE "inactive"]
  BY Zenon DEF ResetEnds, Release, Goto
<1>2. /\ s \in Subscriptions /\ d \in Dispatchers /\ Writing(t, d) /\ m_writer_mutex[d] = t
      /\ s \notin m_handlers[d] /\ at[t].count = Cardinality(m_handlers[d])
  BY <1>1, AtTypes DEF Homes, Writing, Mutex, Copies, Copy
<1>3. /\ m_handler_count'[d] = Cardinality(m_handlers[d])
      /\ \A e \in Dispatchers : e # d => m_handler_count'[e] = m_handler_count[e]
      /\ state'[s] \in {"destroyed", "inactive"}
      /\ \A r \in Subscriptions : r # s => state'[r] = state[r]
  BY Zenon, <1>1, <1>2 DEF Types
<1> HIDE DEF s, d
<1>4. OthersStay(t) /\ at'[t].step = "none"
  <2>1. ASSUME NEW u \in Threads, u # t, at[u].step \in {"subscribe", "removed"}
        PROVE  at[u].s # s
    BY Zenon, <1>2, <2>1 DEF Mutex, Writing, d
  <2> QED
    BY ZenonT(40), <1>1, <1>3, <2>1, AtTypes DEF Types, OthersStay, Idle
<1>5. Nesting'
  BY Zenon, <1>1, <1>4 DEF Nesting, OthersStay
<1>6. Homes'
  BY <1>1, <1>2, <1>3, <1>4 DEF Types, Homes, OthersStay, d
<1>7. Mutex'
  BY Zenon, <1>1, <1>2, <1>4, MutexReleased DEF WritingSteps
<1>8. Copies'
  <2>1. Copy(t)'
    BY Zenon, <1>4 DEF Copy
  <2> QED
    BY Zenon, <1>1, <1>2, <1>3, <1>4, <2>1, CopiesStay
<1>9. Counted'
  <2>1. Cardinality(m_handlers[d]) \in 0 .. Cardinality(Subscriptions)
    BY <1>2, ListsAreFinite DEF Types
  <2> QED
    BY Zenon, <1>1, <1>2, <1>3, <2>1 DEF Types, Counted, Unlock
<1>10. Kept'
  BY Zenon, <1>1, <1>3 DEF Kept
<1>11. Queued'
  BY Zenon, <1>1, <1>2, <1>3, <1>4, OwesStays DEF Queued, d
<1> QED
  BY Zenon, <1>0, <1>5, <1>6, <1>7, <1>8, <1>9, <1>10, <1>11

-----------------------------------------------------------------------------
(* clear and ~EventDispatcher *)

\* clear: the count goes to zero.
LEMMA ClearStep ==
  ASSUME Counting, EInv, NEW t \in Threads, NEW d \in Dispatchers, Clear(t, d) PROVE EInv'
<1> USE DEF EInv
<1>0. Types'
  BY Zenon, TypesStep DEF Next, Begin
<1>1. /\ UNCHANGED <<m_handlers, m_pending_removals, m_has_pending_removals, m_alive, home, state,
                     stack, starved>>
      /\ at[t].step = "none" /\ Lock(t, d) /\ asked' = asked \cup m_handlers[d]
      /\ at' = [at EXCEPT ![t] = [step |-> "cleared", d |-> d]]
      /\ m_handler_count' = [m_handler_count EXCEPT ![d] = 0]
  BY DEF Clear, Free, Idle, Goto
<1>2. /\ m_handler_count'[d] = 0 /\ at'[t].step = "cleared" /\ at'[t].d = d
      /\ \A e \in Dispatchers : e # d => m_handler_count'[e] = m_handler_count[e]
  BY Zenon, <1>1 DEF Types
<1>3. OthersStay(t)
  BY Zenon, <1>1 DEF Types, OthersStay
<1>4. Nesting'
  BY Zenon, <1>1, <1>2, <1>3 DEF Nesting, OthersStay
<1>5. Homes'
  BY ZenonT(40), <1>1, <1>2, <1>3 DEF Homes, OthersStay
<1>6. Mutex'
  <2>1. \A e \in Dispatchers : Writing(t, e)' <=> e = d
    BY Zenon, <1>2 DEF Writing
  <2> QED
    BY Zenon, <1>1, <1>3, <2>1, MutexTaken DEF WritingSteps
<1>7. Copies'
  <2>1. Copy(t)'
    BY Zenon, <1>1, <1>2 DEF Copy
  <2> QED
    BY Zenon, <1>1, <1>2, <1>3, <2>1, CopiesStay DEF Lock
<1>8. Counted'
  <2>1. 0 \in 0 .. Cardinality(Subscriptions)
    BY ListsAreFinite
  <2> QED
    BY Zenon, <1>1, <1>2, <2>1, Instances DEF Types, Counted, Lock
<1>9. Kept'
  BY Zenon, <1>1 DEF Kept
<1>10. Queued'
  BY Zenon, <1>1, <1>3, OwesStays DEF Queued
<1> QED
  BY Zenon, <1>0, <1>4, <1>5, <1>6, <1>7, <1>8, <1>9, <1>10

\* clear: the empty list is published.
LEMMA ClearPublishesStep ==
  ASSUME Counting, EInv, NEW t \in Threads, ClearPublishes(t) PROVE EInv'
<1> USE DEF EInv
<1>0. Types'
  BY Zenon, TypesStep DEF Next, Step
<1> DEFINE d == at[t].d
<1>1. /\ UNCHANGED <<m_handler_count, m_pending_removals, m_has_pending_removals, m_alive, home,
                     state, stack, asked, starved>>
      /\ at[t].step = "cleared" /\ Unlock(d) /\ at' = [at EXCEPT ![t] = Idle]
      /\ m_handlers' = [m_handlers EXCEPT ![d] = {}]
  BY Zenon DEF ClearPublishes, Goto
<1>2. /\ d \in Dispatchers /\ Writing(t, d) /\ m_writer_mutex[d] = t
      /\ m_handler_count[d] = 0 /\ m_handlers[d] \subseteq asked
  BY Zenon, <1>1, AtTypes DEF Writing, Mutex, Copies, Copy
<1>3. /\ m_handlers'[d] = {} /\ at'[t].step = "none"
      /\ \A e \in Dispatchers : e # d => m_handlers'[e] = m_handlers[e]
  BY Zenon, <1>1, <1>2 DEF Types, Idle
<1>4. OthersStay(t)
  BY Zenon, <1>1 DEF Types, OthersStay
<1> HIDE DEF d
<1>5. Nesting'
  BY Zenon, <1>1, <1>3, <1>4 DEF Nesting, OthersStay
<1>6. Homes'
  BY <1>1, <1>3, <1>4 DEF Homes, OthersStay
<1>7. Mutex'
  BY Zenon, <1>1, <1>2, <1>3, <1>4, MutexReleased DEF WritingSteps
<1>8. Copies'
  <2>1. Copy(t)'
    BY Zenon, <1>3 DEF Copy
  <2> QED
    BY Zenon, <1>1, <1>2, <1>3, <1>4, <2>1, CopiesStay
<1>9. Counted'
  <2>1. Cardinality({}) = 0
    BY Zenon DEF Counting
  <2> QED
    BY Zenon, <1>1, <1>2, <1>3, <2>1 DEF Types, Counted, Unlock
<1>10. Kept'
  BY <1>1, <1>2, <1>3 DEF Homes, Kept
<1>11. Queued'
  BY ZenonT(40), <1>1, <1>3, <1>4, OwesStays DEF Homes, Queued
<1> QED
  BY Zenon, <1>0, <1>5, <1>6, <1>7, <1>8, <1>9, <1>10, <1>11

\* ~EventDispatcher, which nobody uses.
LEMMA DestroyDispatcherStep ==
  ASSUME Counting, EInv, NEW t \in Threads, NEW d \in Dispatchers, DestroyDispatcher(t, d) PROVE EInv'
<1> USE DEF EInv
<1>0. Types'
  BY Zenon, TypesStep DEF Next, Begin
<1>1. /\ UNCHANGED <<shared, m_writer_mutex, home, state, stack, at, asked, starved>>
      /\ m_alive' = [m_alive EXCEPT ![d] = FALSE]
  BY Zenon DEF DestroyDispatcher
<1>2. OthersStay(t)
  BY Zenon, <1>1 DEF OthersStay
<1>3. Nesting' /\ Homes' /\ Counted' /\ Kept'
  BY Zenon, <1>1 DEF shared, Nesting, Homes, Counted, Kept
<1>4. Mutex' /\ Copies'
  BY <1>1 DEF shared, Mutex, Writing, Copies, Copy
<1>5. Queued'
  <2>1. \A e \in Dispatchers : m_alive'[e] => m_alive[e]
    BY Zenon, <1>1 DEF Types
  <2> QED
    BY Zenon, <1>1, <1>2, <2>1, OwesStays DEF shared, Homes, Queued
<1> QED
  BY Zenon, <1>0, <1>3, <1>4, <1>5

\* A step of nobody.
LEMMA StutterStep == ASSUME Counting, EInv, UNCHANGED vars PROVE EInv'
<1> USE DEF EInv
<1>1. Types'
  BY Zenon, TypesStep
<1>2. Nesting' /\ Homes' /\ Counted' /\ Kept'
  BY Zenon DEF vars, shared, Nesting, Homes, Counted, Kept
<1>3. Mutex' /\ Copies'
  BY ZenonT(40) DEF vars, shared, Mutex, Writing, Copies, Copy
<1>4. Queued'
  BY Zenon DEF vars, shared, Queued, Owes, EmittingThis
<1> QED
  BY Zenon, <1>1, <1>2, <1>3, <1>4

-----------------------------------------------------------------------------

\* The dispatchers begin without handlers.
LEMMA EInvInit == ASSUME Counting, Init PROVE EInv
<1>1. Types
  BY DEF Init, Types, Ats
<1>2. Nesting
  BY Instances DEF Init, Nesting, Idle
<1>3. Homes /\ Mutex
  BY Zenon, Instances DEF Init, Homes, Mutex, Writing, Idle
<1>4. Copies
  BY Zenon DEF Init, Copies, Copy, Idle
<1>5. Counted
  <2>1. Cardinality({}) = 0 /\ 0 \in 0 .. Cardinality(Subscriptions)
    BY DEF Counting
  <2> QED
    BY Zenon, <2>1 DEF Init, Counted
<1>6. Kept /\ Queued
  BY Zenon DEF Init, Kept, Queued
<1> QED
  BY Zenon, <1>1, <1>2, <1>3, <1>4, <1>5, <1>6 DEF EInv

\* Every step keeps the invariant.
LEMMA EInvStep == ASSUME Counting, EInv, [Next]_vars PROVE EInv'
<1>1. CASE UNCHANGED vars
  BY Zenon, <1>1, StutterStep
<1>2. ASSUME NEW t \in Threads, Begin(t) PROVE EInv'
  BY Zenon, <1>2, SubscribeRejectedStep, SubscribeStep, EmitStep, ClearStep, DestroyDispatcherStep,
     ResetExpiredStep, ResetDeferredStep, ResetKeepsListStep, ResetRemovesStep DEF Begin
<1>3. ASSUME NEW t \in Threads, Step(t) PROVE EInv'
  BY Zenon, <1>3, SubscribePublishesStep, EmitLoadsStep, HandlerStep, UnwindStep, LoadFlagStep,
     DrainBeginsStep, DrainEndsStep, ResetEndsStep, ClearPublishesStep DEF Step
<1> QED
  BY Zenon, <1>1, <1>2, <1>3 DEF Next

\* The invariant implies what a subscriber may rely on.
LEMMA EInvMeansExact == ASSUME Counting, EInv PROVE HandlersAreExact
<1> USE DEF EInv
<1>1. TypeOK
  <2>1. m_handler_count \in [Dispatchers -> 0 .. Cardinality(Subscriptions)]
    BY Zenon DEF Types, Counted
  <2> QED
    BY Zenon, <2>1, AtTypes DEF Types, Nesting, TypeOK
<1>2. SubscribedIsSeen
  <2> SUFFICES ASSUME NEW s \in Subscriptions, state[s] = "active", s \notin asked
               PROVE  m_handler_count[home[s]] > 0 /\ s \in m_handlers[home[s]]
    BY Zenon DEF SubscribedIsSeen
  <2> DEFINE d == home[s]
  <2>1. d \in Dispatchers /\ s \in m_handlers[d]
    BY Zenon DEF Homes, Kept
  <2>2. Cardinality(m_handlers[d]) \in Nat
    BY Zenon, <2>1, ListsAreFinite DEF Types
  <2>3. Cardinality(m_handlers[d]) > 0
    BY Zenon, <2>1 DEF Types, Counting
  <2> HIDE DEF d
  <2>4. CASE m_writer_mutex[d] = None
    BY Zenon, <2>1, <2>2, <2>3, <2>4 DEF Counted, d
  <2>5. CASE m_writer_mutex[d] # None
    <3>1. PICK t \in Threads : m_writer_mutex[d] = t
      BY Zenon, <2>1, <2>5 DEF Types
    <3>2. Writing(t, d) /\ Copy(t)
      BY Zenon, <2>1, <3>1 DEF Mutex, Copies
    <3>3. CASE at[t].step = "subscribe" /\ home[at[t].s] = d
      <4>1. m_handler_count[d] = Cardinality(at[t].next) /\ s \in at[t].next
        BY Zenon, <2>1, <3>2, <3>3 DEF Copy
      <4>2. at[t].next \in SUBSET Subscriptions
        BY Zenon, <3>3, AtTypes
      <4>3. Cardinality(at[t].next) > 0
        BY Zenon, <4>1, <4>2 DEF Counting
      <4> QED
        BY <2>1, <4>1, <4>3 DEF d
    <3>4. CASE at[t].step = "removed" /\ home[at[t].s] = d
      BY <2>1, <2>2, <2>3, <3>2, <3>4 DEF Copy, d
    <3>5. CASE at[t].step \in {"drained", "cleared"} /\ at[t].d = d
      BY <2>1, <2>2, <2>3, <3>2, <3>5 DEF Types, Copy, d
    <3> QED
      BY Zenon, <3>2, <3>3, <3>4, <3>5 DEF Writing
  <2> QED
    BY Zenon, <2>4, <2>5
<1>3. DestroyedIsRemoved
  <2> SUFFICES ASSUME NEW s \in Subscriptions, state[s] = "destroyed", ~ starved,
                      s \in m_handlers[home[s]], m_alive[home[s]]
               PROVE  \E t \in Threads : Uses(t, home[s])
    BY Zenon DEF DestroyedIsRemoved
  <2>1. home[s] \in Dispatchers /\ s \in m_pending_removals[home[s]]
    BY Zenon DEF Homes, Queued
  <2>2. PICK t \in Threads : Owes(t, home[s])
    BY Zenon, <2>1 DEF Queued
  <2> QED
    BY Zenon, <2>2 DEF Owes, Uses
<1> QED
  BY Zenon, <1>1, <1>2, <1>3 DEF HandlersAreExact

-----------------------------------------------------------------------------

INSTANCE FiniteSetTheorems

\* Subscriptions are finitely many, so their sets have the sizes one expects.
LEMMA CountingHolds == Counting
<1>1. /\ IsFiniteSet(Subscriptions) /\ Cardinality(Subscriptions) \in Nat /\ Cardinality({}) = 0
  BY Zenon, Instances, FS_CardinalityType, FS_EmptySet
<1>2. ASSUME NEW l \in SUBSET Subscriptions
      PROVE  /\ IsFiniteSet(l) /\ Cardinality(l) \in Nat
             /\ Cardinality(l) <= Cardinality(Subscriptions)
  BY Zenon, <1>1, FS_Subset, FS_CardinalityType
<1>3. ASSUME NEW l \in SUBSET Subscriptions, l # {} PROVE Cardinality(l) > 0
  BY <1>2, <1>3, FS_EmptySet
<1>4. ASSUME NEW l \in SUBSET Subscriptions, NEW m \in SUBSET l PROVE Cardinality(m) <= Cardinality(l)
  BY Zenon, <1>2, FS_Subset
<1>5. ASSUME NEW l \in SUBSET Subscriptions, NEW s \in Subscriptions \ l
      PROVE  Cardinality(l \cup {s}) = Cardinality(l) + 1
  BY Zenon, <1>2, FS_AddElement
<1>6. ASSUME NEW l \in SUBSET Subscriptions, NEW s \in l
      PROVE  Cardinality(l \ {s}) = Cardinality(l) - 1
  BY Zenon, <1>2, FS_RemoveElement
<1> QED
  BY Zenon, <1>1, <1>2, <1>3, <1>4, <1>5, <1>6 DEF Counting

\* event_dispatcher.hpp, the writer mutex and the order of its two stores: the inductive
\* invariant behind the two results below.
THEOREM DispatcherInvariantHolds == Spec => []EInv
<1>1. Init => EInv
  BY Zenon, EInvInit, CountingHolds
<1>2. EInv /\ [Next]_vars => EInv'
  BY Zenon, EInvStep, CountingHolds
<1> QED
  BY <1>1, <1>2, PTL DEF Spec

\* event_dispatcher.hpp, subscribe, emit, unsubscribe, drain_pending_removals and clear: once
\* subscribe has returned, every emit finds the handler until its removal is asked for; and a
\* destroyed Subscription leaves none behind once no emit of its dispatcher runs, unless memory
\* ran out.
THEOREM HandlersStayExact == Spec => []HandlersAreExact
<1>1. EInv => HandlersAreExact
  BY Zenon, EInvMeansExact, CountingHolds
<1> QED
  BY <1>1, DispatcherInvariantHolds, PTL

\* event_dispatcher.hpp, the copies of the list: no writer publishes a list it copied before a
\* removal, so a handler enters the list only when it is subscribed.
THEOREM RemovedNeverReturns == Spec => RemovedStaysRemoved
<1> DEFINE Added == \A d \in Dispatchers : \A s \in m_handlers'[d] \ m_handlers[d] : state[s] = "none"
<1>1. ASSUME EInv, [Next]_vars PROVE [Added]_vars
  <2>1. ASSUME NEW t \in Threads, SubscribePublishes(t) PROVE Added
    <3>1. /\ at[t].step = "subscribe" /\ state[at[t].s] = "none"
          /\ at[t].next = m_handlers[home[at[t].s]] \cup {at[t].s}
      BY Zenon, <1>1, <2>1 DEF SubscribePublishes, EInv, Copies, Copy
    <3>2. m_handlers' = [m_handlers EXCEPT ![home[at[t].s]] = at[t].next]
      BY Zenon, <2>1 DEF SubscribePublishes
    <3> QED
      BY Zenon, <1>1, <3>1, <3>2 DEF EInv, Types
  <2>2. ASSUME NEW t \in Threads, DrainBegins(t) \/ ClearPublishes(t) PROVE Added
    <3>1. m_handlers \in [Dispatchers -> SUBSET Subscriptions]
      BY Zenon, <1>1 DEF EInv, Types
    <3>2. CASE DrainBegins(t)
      BY Zenon, <3>1, <3>2 DEF DrainBegins
    <3>3. CASE ClearPublishes(t)
      BY Zenon, <3>1, <3>3 DEF ClearPublishes
    <3> QED
      BY Zenon, <2>2, <3>2, <3>3
  <2>3. ASSUME NEW t \in Threads, NEW s \in Subscriptions, NEW destroys \in BOOLEAN,
               ResetRemoves(t, s, destroys)
        PROVE  Added
    BY Zenon, <1>1, <2>3 DEF EInv, Types, ResetRemoves
  <2>4. CASE m_handlers' = m_handlers
    BY Zenon, <2>4
  <2>5. ASSUME NEW t \in Threads, Begin(t) PROVE Added
    <3>1. \/ m_handlers' = m_handlers
          \/ \E s \in Subscriptions, destroys \in BOOLEAN : ResetRemoves(t, s, destroys)
      BY Zenon, <2>5 DEF Begin, shared, SubscribeRejected, Subscribe, Emit, Clear, DestroyDispatcher,
                  ResetExpired, ResetDeferred, ResetKeepsList
    <3> QED
      BY Zenon, <2>3, <2>4, <3>1
  <2>6. ASSUME NEW t \in Threads, Step(t) PROVE Added
    <3>1. \/ m_handlers' = m_handlers
          \/ SubscribePublishes(t) \/ DrainBegins(t) \/ ClearPublishes(t)
      BY Zenon, <2>6 DEF Step, shared, EmitLoads, Call, Return, Unwind, LoadFlag, DrainEnds, ResetEnds
    <3> QED
      BY Zenon, <2>1, <2>2, <2>4, <3>1
  <2> QED
    BY Zenon, <1>1, <2>5, <2>6 DEF Next
<1> QED
  BY <1>1, DispatcherInvariantHolds, PTL DEF Spec, RemovedStaysRemoved
=============================================================================
