------------------------ MODULE GuardedAccessProofs -------------------------
(***************************************************************************)
(* Proofs about GuardedAccess, for any number of threads, stripes and      *)
(* pages.                                                                  *)
(*                                                                         *)
(* The inductive invariant says who holds the mutex, that an access counts *)
(* itself before it decides and until it leaves, and, at the heart of the  *)
(* drain, that the stripe of an access on the handler's path has either    *)
(* not been read yet or was read as not zero: the sum is no snapshot, but  *)
(* an access that saw the handle was counted before it was withdrawn.      *)
(***************************************************************************)
EXTENDS GuardedAccess, TLAPS

Counting == {"decide", "arm", "touch", "query", "protect", "handler", "validate", "leave"}
ThreadPcs == {"idle", "lock", "install", "publish", "count",
              "decide", "arm", "touch", "query", "protect", "handler", "validate", "leave"}
RemoverPcs == {"idle", "withdraw", "drain", "done"}

Types ==
  /\ handle \in BOOLEAN /\ registered \in BOOLEAN
  /\ mutex \in Threads \cup Removers \cup {None}
  /\ counted \in [Stripes -> SUBSET Threads]
  /\ slot \in [Threads -> BOOLEAN]
  /\ page \in [Pages -> {"ok", "gone", "fenced", "tripped"}]
  /\ todo \in [Threads -> SUBSET Pages]
  /\ scan \in [Removers -> [left : SUBSET Stripes, busy : BOOLEAN]]
  /\ pc \in [Threads \cup Removers -> ThreadPcs \cup RemoverPcs]
  /\ \A t \in Threads : pc[t] \in ThreadPcs
  /\ \A r \in Removers : pc[r] \in RemoverPcs

\* The handle and the list of handlers change only in the hands of the mutex's owner.
Held ==
  /\ \A t \in Threads : pc[t] \in {"install", "publish"} => mutex = t
  /\ \A r \in Removers : pc[r] \in {"withdraw", "drain"} => mutex = r

Listed ==
  /\ handle => registered
  /\ \A t \in Threads : pc[t] = "publish" => registered
  /\ \A r \in Removers : pc[r] = "drain" => ~ handle

Counts ==
  /\ \A t \in Threads : pc[t] \in Counting => t \in counted[StripeOf[t]]
  /\ \A t \in Threads : pc[t] \in {"touch", "query", "protect", "handler"} => slot[t]

Drains ==
  \A r \in Removers, t \in Threads :
    pc[r] = "drain" /\ Armed(t) => scan[r].busy \/ StripeOf[t] \in scan[r].left

AInv == Types /\ Held /\ Listed /\ Counts /\ Drains /\ HandlerOutlivesAccess

LEMMA InitEstablishesAInv == Init => AInv
<1>1. Init => Types
  <2> SUFFICES ASSUME Init PROVE Types
    OBVIOUS
  <2>1. pc \in [Threads \cup Removers -> ThreadPcs \cup RemoverPcs]
    BY Zenon DEF Init, ThreadPcs
  <2>2. page \in [Pages -> {"ok", "gone", "fenced", "tripped"}]
    BY Zenon DEF Init
  <2> QED
    BY Zenon, <2>1, <2>2, GuardedAssumption DEF Init, Types, ThreadPcs, RemoverPcs
<1>2. Init => Held /\ Listed /\ Counts /\ Drains /\ HandlerOutlivesAccess
  BY Zenon, GuardedAssumption DEF Init, Held, Listed, Counts, Drains, HandlerOutlivesAccess, Armed, Counting
<1> QED
  BY Zenon, <1>1, <1>2 DEF AInv

LEMMA NextKeepsAInv == AInv /\ [Next]_vars => AInv'
<1> SUFFICES ASSUME AInv, [Next]_vars PROVE AInv'
  OBVIOUS
<1> USE GuardedAssumption
    DEF AInv, Types, Held, Listed, Counts, Drains, HandlerOutlivesAccess, Armed, ThreadPcs, RemoverPcs, Counting, Goto
<1>1. CASE UNCHANGED vars
  BY Zenon, <1>1 DEF vars
<1>2. ASSUME NEW t \in Threads, Call(t) PROVE AInv'
  BY <1>2 DEF Call
<1>3. ASSUME NEW t \in Threads, EnsureLock(t) PROVE AInv'
  BY Zenon, <1>3 DEF EnsureLock
<1>4. ASSUME NEW t \in Threads, Install(t) PROVE AInv'
  <2>1. UNCHANGED <<handle, counted, slot, page, todo, scan>> /\ pc[t] = "install"
    BY Zenon, <1>4 DEF Install
  <2>2. CASE mutex' = None /\ pc' = [pc EXCEPT ![t] = "count"] /\ UNCHANGED registered
    BY Zenon, <2>1, <2>2
  <2>3. CASE ~ handle /\ registered' = TRUE /\ pc' = [pc EXCEPT ![t] = "publish"] /\ UNCHANGED mutex
    BY Zenon, <2>1, <2>3
  <2> QED
    BY <1>4, <2>2, <2>3, Zenon DEF Install
<1>5. ASSUME NEW t \in Threads, PublishHandle(t) PROVE AInv'
  BY Zenon, <1>5 DEF PublishHandle
<1>6. ASSUME NEW t \in Threads, Count(t) PROVE AInv'
  BY <1>6 DEF Count
<1>7. ASSUME NEW t \in Threads, Decide(t) PROVE AInv'
  BY Zenon, <1>7 DEF Decide
<1>8. ASSUME NEW t \in Threads, Arm(t) PROVE AInv'
  BY <1>8 DEF Arm
<1>9. ASSUME NEW t \in Threads, Touch(t) PROVE AInv'
  BY <1>9 DEF Touch
<1>10. ASSUME NEW t \in Threads, Handler(t) PROVE AInv'
  BY Zenon, <1>10 DEF Handler
<1>11. ASSUME NEW t \in Threads, TouchEnds(t) PROVE AInv'
  BY Zenon, <1>11 DEF TouchEnds
<1>12. ASSUME NEW t \in Threads, Validate(t) PROVE AInv'
  <2>1. UNCHANGED <<handle, registered, mutex, counted, slot, page, scan>> /\ pc[t] = "validate"
    BY Zenon, <1>12 DEF Validate
  <2>2. pc' = [pc EXCEPT ![t] = "validate"] \/ pc' = [pc EXCEPT ![t] = "leave"]
    BY Zenon, <1>12 DEF Validate
  <2>3. todo' \in [Threads -> SUBSET Pages]
    BY <1>12 DEF Validate
  <2>4. Types'
    BY <2>1, <2>2, <2>3
  <2> QED
    BY <2>1, <2>2, <2>4
<1>13. ASSUME NEW t \in Threads, Leave(t) PROVE AInv'
  BY Zenon, <1>13 DEF Leave
<1>14. ASSUME NEW r \in Removers, Remove(r) PROVE AInv'
  <2>1. UNCHANGED <<handle, registered, counted, slot, page, todo, scan>> /\ pc[r] = "idle" /\ mutex = None
    BY Zenon, <1>14 DEF Remove
  <2>2. CASE mutex' = r /\ pc' = [pc EXCEPT ![r] = "withdraw"]
    BY <2>1, <2>2
  <2>3. CASE mutex' = mutex /\ pc' = [pc EXCEPT ![r] = "done"]
    BY <2>1, <2>3
  <2> QED
    BY Zenon, <1>14, <2>2, <2>3 DEF Remove
<1>15. ASSUME NEW r \in Removers, Withdraw(r) PROVE AInv'
  <2>1. /\ handle' = FALSE /\ pc[r] = "withdraw"
        /\ pc' = [pc EXCEPT ![r] = "drain"]
        /\ scan' = [scan EXCEPT ![r] = [left |-> Stripes, busy |-> FALSE]]
    BY Zenon, <1>15 DEF Withdraw
  <2>2. UNCHANGED <<registered, mutex, counted, slot, page, todo>>
    BY Zenon, <1>15 DEF Withdraw
  <2>3. scan' \in [Removers -> [left : SUBSET Stripes, busy : BOOLEAN]]
    BY Zenon, <2>1
  <2>4. Types'
    BY <2>1, <2>2, <2>3, Zenon
  <2>5. Held' /\ Listed' /\ Counts'
    BY Zenon, <2>1, <2>2
  <2>6. \A q \in Removers \ {r} : pc'[q] # "drain"
    BY Zenon, <2>1
  <2>7. Drains' /\ HandlerOutlivesAccess'
    BY Zenon, <2>1, <2>2, <2>6
  <2> QED
    BY Zenon, <2>4, <2>5, <2>7
<1>16. ASSUME NEW r \in Removers, ReadStripe(r) PROVE AInv'
  BY <1>16 DEF ReadStripe
<1>17. ASSUME NEW r \in Removers, Summed(r) PROVE AInv'
  <2>1. CASE scan[r].busy
    <3>1. pc' = pc /\ scan' = [scan EXCEPT ![r] = [left |-> Stripes, busy |-> FALSE]]
      BY Zenon, <1>17, <2>1 DEF Summed
    <3>2. UNCHANGED <<handle, registered, mutex, counted, slot, page, todo>>
      BY Zenon, <1>17, <2>1 DEF Summed
    <3> QED
      BY <3>1, <3>2
  <2>2. CASE ~ scan[r].busy
    <3>1. \A t \in Threads : ~ Armed(t) /\ pc[t] \notin {"install", "publish"}
      BY Zenon, <1>17, <2>2 DEF Summed
    <3>2. pc' = [pc EXCEPT ![r] = "done"] /\ mutex' = None /\ registered' = FALSE /\ ~ handle
      BY Zenon, <1>17, <2>2 DEF Summed
    <3>3. UNCHANGED <<handle, counted, slot, page, todo, scan>>
      BY Zenon, <1>17, <2>2 DEF Summed
    <3>4. \A q \in Removers \ {r} : pc[q] \notin {"withdraw", "drain"}
      BY Zenon, <1>17 DEF Summed
    <3>5. Held' /\ Listed' /\ Counts'
      BY Zenon, <3>1, <3>2, <3>3, <3>4
    <3>6. Drains' /\ HandlerOutlivesAccess'
      BY Zenon, <3>1, <3>2, <3>3, <3>4
    <3>7. pc' \in [Threads \cup Removers -> ThreadPcs \cup RemoverPcs]
      BY Zenon, <3>2
    <3>8. (\A t \in Threads : pc'[t] \in ThreadPcs) /\ (\A q \in Removers : pc'[q] \in RemoverPcs)
      BY <3>2
    <3>9. Types'
      BY Zenon, <3>2, <3>3, <3>7, <3>8
    <3> QED
      BY Zenon, <3>5, <3>6, <3>9
  <2> QED
    BY Zenon, <2>1, <2>2
<1>18. ASSUME NEW p \in Pages, Change(p) PROVE AInv'
  BY Zenon, <1>18 DEF Change
<1>19. ASSUME NEW t \in Threads, RearmQuery(t) PROVE AInv'
  <2>1. UNCHANGED <<handle, registered, mutex, counted, slot, page, todo, scan>> /\ pc[t] = "query"
    BY Zenon, <1>19 DEF RearmQuery
  <2>2. pc' = [pc EXCEPT ![t] = "handler"] \/ pc' = [pc EXCEPT ![t] = "protect"]
    BY Zenon, <1>19 DEF RearmQuery, RearmFails
  <2> QED
    BY <2>1, <2>2
<1>20. ASSUME NEW t \in Threads, RearmProtect(t) PROVE AInv'
  <2>1. UNCHANGED <<handle, registered, mutex, counted, slot, todo, scan>> /\ pc[t] = "protect"
    BY Zenon, <1>20 DEF RearmProtect
  <2>2. pc' = [pc EXCEPT ![t] = "handler"]
    BY Zenon, <1>20 DEF RearmProtect, RearmFails
  <2>3. page' \in [Pages -> {"ok", "gone", "fenced", "tripped"}]
    BY Zenon, <1>20 DEF RearmProtect
  <2> QED
    BY Zenon, <2>1, <2>2, <2>3
<1> QED
  BY Zenon, <1>1, <1>2, <1>3, <1>4, <1>5, <1>6, <1>7, <1>8, <1>9, <1>10, <1>11, <1>12, <1>13, <1>14,
     <1>15, <1>16, <1>17, <1>18, <1>19, <1>20 DEF Next, Access, Removal

\* remove_veh_handler: whatever the number of threads and stripes, the handler is not
\* unregistered under an access that relies on it.
THEOREM HandlerIsNeverGone == Spec => []HandlerOutlivesAccess
<1>1. Spec => []AInv
  BY InitEstablishesAInv, NextKeepsAInv, PTL DEF Spec
<1> QED
  BY <1>1, PTL DEF AInv

\* A step of somebody who is not putting a fence back, and that touches no page, keeps the fences.
LEMMA BystanderKeepsFence ==
  ASSUME NEW t \in Threads \cup Removers,
         FenceIsRestored, pc[t] \notin {"query", "protect"}, page' = page, bare' = bare,
         \A u \in Threads \ {t} : pc'[u] = pc[u] /\ todo'[u] = todo[u]
  PROVE  FenceIsRestored'
<1> SUFFICES ASSUME NEW p \in Pages \ bare, page'[p] = "tripped"
             PROVE  \E u \in Threads : pc'[u] \in {"query", "protect"} /\ todo'[u] = {p}
  BY Zenon DEF FenceIsRestored
<1>1. PICK u \in Threads : pc[u] \in {"query", "protect"} /\ todo[u] = {p}
  BY Zenon DEF FenceIsRestored
<1>2. u # t /\ pc'[u] = pc[u] /\ todo'[u] = todo[u]
  BY Zenon, <1>1
<1> QED
  BY Zenon, <1>1, <1>2

\* A step in which one thread puts its fence back, leaves it bare, or goes on to put it back keeps
\* the fences.
LEMMA RearmKeepsFence ==
  ASSUME NEW t \in Threads,
         FenceIsRestored, todo' = todo, bare \subseteq bare',
         \A u \in Threads \ {t} : pc'[u] = pc[u],
         \A p \in Pages : page'[p] = "tripped" => page[p] = "tripped",
         \/ pc'[t] \in {"query", "protect"}
         \/ \A p \in todo[t] : page'[p] # "tripped" \/ p \in bare'
  PROVE  FenceIsRestored'
<1> SUFFICES ASSUME NEW p \in Pages \ bare', page'[p] = "tripped"
             PROVE  \E u \in Threads : pc'[u] \in {"query", "protect"} /\ todo'[u] = {p}
  BY Zenon DEF FenceIsRestored
<1>1. PICK u \in Threads : pc[u] \in {"query", "protect"} /\ todo[u] = {p}
  BY Zenon DEF FenceIsRestored
<1>2. CASE u # t
  BY Zenon, <1>1, <1>2
<1>3. CASE u = t
  BY Zenon, <1>1, <1>3
<1> QED
  BY Zenon, <1>2, <1>3

LEMMA NextKeepsFence == AInv /\ FenceIsRestored /\ [Next]_vars => FenceIsRestored'
<1> SUFFICES ASSUME AInv, FenceIsRestored, [Next]_vars PROVE FenceIsRestored'
  OBVIOUS
<1>a. pc \in [Threads \cup Removers -> ThreadPcs \cup RemoverPcs]
  BY Zenon DEF AInv, Types
<1>b. todo \in [Threads -> SUBSET Pages] /\ page \in [Pages -> {"ok", "gone", "fenced", "tripped"}]
  BY Zenon DEF AInv, Types
<1>c. \A t \in Threads : pc[t] = "touch" => registered /\ slot[t]
  BY Zenon DEF AInv, Counts, HandlerOutlivesAccess, Armed
<1>1. CASE UNCHANGED <<page, todo, pc, bare>>
  BY Zenon, <1>1 DEF FenceIsRestored
<1>2. ASSUME NEW t \in Threads, Call(t) PROVE FenceIsRestored'
  <2>1. pc[t] \notin {"query", "protect"} /\ page' = page /\ bare' = bare
    BY Zenon, <1>2 DEF Call
  <2>2. \A u \in Threads \ {t} : pc'[u] = pc[u] /\ todo'[u] = todo[u]
    BY Zenon, <1>2, <1>a, <1>b DEF Call, Goto
  <2> QED
    BY Zenon, <2>1, <2>2, BystanderKeepsFence
<1>3. ASSUME NEW t \in Threads,
             \/ EnsureLock(t) \/ Install(t) \/ PublishHandle(t) \/ Count(t) \/ Decide(t) \/ Arm(t)
             \/ Handler(t) \/ TouchEnds(t)
      PROVE  FenceIsRestored'
  <2>1. pc[t] \notin {"query", "protect"} /\ page' = page /\ todo' = todo /\ bare' = bare
    BY Zenon, <1>3 DEF EnsureLock, Install, PublishHandle, Count, Decide, Arm, Handler, TouchEnds
  <2>2. \A u \in Threads \ {t} : pc'[u] = pc[u]
    BY Zenon, <1>3, <1>a DEF EnsureLock, Install, PublishHandle, Count, Decide, Arm, Handler, TouchEnds, Goto
  <2> QED
    BY Zenon, <2>1, <2>2, BystanderKeepsFence
<1>4. ASSUME NEW t \in Threads, Touch(t) PROVE FenceIsRestored'
  <2>1. PICK p \in todo[t] :
          /\ todo' = [todo EXCEPT ![t] = IF page[p] \in {"ok", "tripped"} THEN @ \ {p} ELSE {p}]
          /\ page' = IF page[p] = "fenced" THEN [page EXCEPT ![p] = "tripped"] ELSE page
          /\ pc' = [pc EXCEPT ![t] = IF page[p] \in {"ok", "tripped"} THEN "touch"
                                     ELSE IF ~ (registered /\ slot[t]) THEN "crash"
                                     ELSE IF page[p] = "fenced" THEN "query" ELSE "handler"]
    BY Zenon, <1>4 DEF Touch, Goto
  <2>2. pc[t] = "touch" /\ registered /\ slot[t] /\ bare' = bare
    BY Zenon, <1>4, <1>c DEF Touch
  <2>3. \A u \in Threads \ {t} : todo'[u] = todo[u] /\ pc'[u] = pc[u]
    BY Zenon, <1>a, <1>b, <2>1
  <2>4. CASE page[p] = "fenced"
    <3>1. p \in Pages /\ page' = [page EXCEPT ![p] = "tripped"] /\ pc'[t] = "query" /\ todo'[t] = {p}
      BY Zenon, <1>a, <1>b, <2>1, <2>2, <2>4
    <3> SUFFICES ASSUME NEW q \in Pages \ bare, page'[q] = "tripped"
                 PROVE  \E u \in Threads : pc'[u] \in {"query", "protect"} /\ todo'[u] = {q}
      BY Zenon, <2>2 DEF FenceIsRestored
    <3>2. CASE q = p
      BY Zenon, <3>1, <3>2
    <3>3. CASE q # p
      <4>1. page[q] = "tripped"
        BY Zenon, <1>b, <3>1, <3>3
      <4>2. PICK u \in Threads : pc[u] \in {"query", "protect"} /\ todo[u] = {q}
        BY Zenon, <4>1 DEF FenceIsRestored
      <4> QED
        BY Zenon, <2>2, <2>3, <4>2
    <3> QED
      BY Zenon, <3>2, <3>3
  <2>5. CASE page[p] # "fenced"
    <3>1. page' = page
      BY Zenon, <2>1, <2>5
    <3> QED
      BY Zenon, <2>2, <2>3, <3>1, BystanderKeepsFence
  <2> QED
    BY Zenon, <2>4, <2>5
<1>5. ASSUME NEW t \in Threads, RearmQuery(t) PROVE FenceIsRestored'
  <2>1. todo' = todo /\ page' = page
    BY Zenon, <1>5 DEF RearmQuery
  <2>2. \A u \in Threads \ {t} : pc'[u] = pc[u]
    BY Zenon, <1>5, <1>a DEF RearmQuery, RearmFails, Goto
  <2>3. bare \subseteq bare'
    BY Zenon, <1>5 DEF RearmQuery, RearmFails
  <2>4. CASE RearmFails(t)
    <3>1. \A p \in todo[t] : p \in bare'
      BY Zenon, <2>4 DEF RearmFails
    <3> QED
      BY Zenon, <2>1, <2>2, <2>3, <3>1, RearmKeepsFence
  <2>5. CASE \E p \in todo[t] : page[p] = "gone"
    <3>1. CASE \E u \in Threads : u = t /\ \E p \in Pages : todo[t] = {p}
      <4>1. \A p \in todo[t] : page'[p] # "tripped"
        BY Zenon, <2>1, <2>5, <3>1
      <4> QED
        BY Zenon, <2>1, <2>2, <2>3, <4>1, RearmKeepsFence
    <3>2. CASE \A p \in Pages : todo[t] # {p}
      <4> SUFFICES ASSUME NEW p \in Pages \ bare', page'[p] = "tripped"
                   PROVE  \E u \in Threads : pc'[u] \in {"query", "protect"} /\ todo'[u] = {p}
        BY Zenon DEF FenceIsRestored
      <4>1. PICK u \in Threads : pc[u] \in {"query", "protect"} /\ todo[u] = {p}
        BY Zenon, <2>1, <2>3 DEF FenceIsRestored
      <4> QED
        BY Zenon, <2>1, <2>2, <3>2, <4>1
    <3> QED
      BY Zenon, <3>1, <3>2
  <2>6. CASE ~ RearmFails(t) /\ ~ \E p \in todo[t] : page[p] = "gone"
    <3>1. pc'[t] = "protect"
      BY Zenon, <1>5, <1>a, <2>6 DEF RearmQuery, Goto
    <3> QED
      BY Zenon, <2>1, <2>2, <2>3, <3>1, RearmKeepsFence
  <2> QED
    BY Zenon, <2>4, <2>5, <2>6
<1>6. ASSUME NEW t \in Threads, RearmProtect(t) PROVE FenceIsRestored'
  <2>1. todo' = todo
    BY Zenon, <1>6 DEF RearmProtect
  <2>2. \A u \in Threads \ {t} : pc'[u] = pc[u]
    BY Zenon, <1>6, <1>a DEF RearmProtect, RearmFails, Goto
  <2>3. bare \subseteq bare'
    BY Zenon, <1>6 DEF RearmProtect, RearmFails
  <2>4. \A p \in Pages : page'[p] = "tripped" => page[p] = "tripped"
    BY Zenon, <1>6 DEF RearmProtect
  <2>5. \A p \in todo[t] : page'[p] # "tripped" \/ p \in bare'
    BY Zenon, <1>6, <1>b DEF RearmProtect, RearmFails
  <2> QED
    BY Zenon, <2>1, <2>2, <2>3, <2>4, <2>5, RearmKeepsFence
<1>7. ASSUME NEW t \in Threads, Validate(t) PROVE FenceIsRestored'
  <2>1. pc[t] \notin {"query", "protect"} /\ page' = page /\ bare' = bare
    BY Zenon, <1>7 DEF Validate
  <2>2. \A u \in Threads \ {t} : pc'[u] = pc[u] /\ todo'[u] = todo[u]
    <3>1. CASE todo[t] = {}
      BY Zenon, <1>7, <1>a, <3>1 DEF Validate, Goto
    <3>2. CASE todo[t] # {}
      BY Zenon, <1>7, <1>a, <1>b, <3>2 DEF Validate, Goto
    <3> QED
      BY Zenon, <3>1, <3>2
  <2> QED
    BY Zenon, <2>1, <2>2, BystanderKeepsFence
<1>8. ASSUME NEW t \in Threads, Leave(t) PROVE FenceIsRestored'
  <2>1. pc[t] \notin {"query", "protect"} /\ page' = page /\ bare' = bare
    BY Zenon, <1>8 DEF Leave
  <2>2. \A u \in Threads \ {t} : pc'[u] = pc[u] /\ todo'[u] = todo[u]
    BY Zenon, <1>8, <1>a, <1>b DEF Leave, Goto
  <2> QED
    BY Zenon, <2>1, <2>2, BystanderKeepsFence
<1>9. ASSUME NEW r \in Removers, Removal(r) PROVE FenceIsRestored'
  <2>1. pc[r] \notin {"query", "protect"} /\ page' = page /\ todo' = todo /\ bare' = bare
    BY Zenon, <1>9 DEF Removal, Remove, Withdraw, ReadStripe, Summed
  <2>2. \A u \in Threads \ {r} : pc'[u] = pc[u]
    BY Zenon, <1>9, <1>a DEF Removal, Remove, Withdraw, ReadStripe, Summed, Goto
  <2> QED
    BY Zenon, <2>1, <2>2, BystanderKeepsFence
<1>10. ASSUME NEW p \in Pages, Change(p) PROVE FenceIsRestored'
  BY Zenon, <1>10, <1>b DEF Change, FenceIsRestored
<1> QED
  BY Zenon, <1>1, <1>2, <1>3, <1>4, <1>5, <1>6, <1>7, <1>8, <1>9, <1>10 DEF Next, Access, vars

\* rearm_guard_page_if_consumed: a fence is down only while the handler that puts it back runs, or
\* for good where the system refused to put it back.
THEOREM FenceIsNeverLost == Spec => []FenceIsRestored
<1>1. Init => FenceIsRestored
  BY Zenon, GuardedAssumption DEF Init, FenceIsRestored
<1>2. Spec => []AInv
  BY InitEstablishesAInv, NextKeepsAInv, PTL DEF Spec
<1> QED
  BY <1>1, <1>2, NextKeepsFence, PTL DEF Spec

\* Guarded accesses are safe for any set of threads, removers, stripes and pages.
THEOREM AccessStaysGuarded == Spec => []AccessIsGuarded
  BY HandlerIsNeverGone, FenceIsNeverLost, PTL DEF AccessIsGuarded
=============================================================================
