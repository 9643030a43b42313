------------------------- MODULE ConfigReloadProofs -------------------------
(***************************************************************************)
(* For any number of threads, watchers, items, files and contents, and for *)
(* whatever the consumer calls: outside a pass the remembered hash is that *)
(* of the values every item holds (PassesAreWhole), a disabled auto-reload *)
(* is not brought back by a load() that was re-pointing the watcher, and   *)
(* once an unload found the background threads quiesced none of them runs  *)
(* consumer code before the next load() (OffIsOff).                        *)
(***************************************************************************)
EXTENDS ConfigReload, TLAPS

-----------------------------------------------------------------------------
(* The inductive invariant. *)

\* Under the pass lock; not counted as in flight; holding back at the gate; in load() after
\* its values were read; re-pointing without a lock.
Passing   == {"setters", "setter", "repoint"}
Outside   == {"idle", "drain", "check", "enter"}
Held      == Outside \cup {"recheck"}
Loading   == Passing \cup {"join", "snapshot", "restart"}
Repointed == {"repoint", "snapshot", "restart"}

Local == [path : Paths \cup {None}, todo : Seq(Item), data : Nat, commit : Nat \cup {None},
          ok : BOOLEAN, loading : BOOLEAN, thread : Background \cup {None}, generation : Nat,
          unloading : BOOLEAN, loaderLock : BOOLEAN]

Life == {"none", "runs", "done"}
Bg   == [life : Life, stop : BOOLEAN, pending : BOOLEAN, path : Paths \cup {None}, cb : BOOLEAN]

Hotkey == [slot : BOOLEAN, ref : BOOLEAN, enabled : BOOLEAN]
SharedTypes ==
  /\ file \in [Paths -> [data : Nat, locked : BOOLEAN]]
  /\ latch \in BOOLEAN
  /\ apply \in Threads \cup {None}
  /\ value \in [Item -> Nat]
  /\ hotkey \in Hotkey

Registry      == [items : Seq(Item), path : Paths \cup {None}, hash : Nat \cup {None}]
RegistryTypes == registry \in Registry

Slot == [watcher : Watchers \cup {None}, callback : BOOLEAN, generation : Nat]
AutoTypes ==
  /\ auto \in Slot
  /\ bg \in [Background -> Bg]

ControlTypes == DOMAIN pc = Threads /\ local \in [Threads -> Local]

Past      == [fresh : SUBSET Item, owed : BOOLEAN, off : BOOLEAN, quiet : BOOLEAN]
PastTypes == past \in Past

\* A thread about to call a setter has one to call.
Todo == \A t \in Threads : pc[t] \in {"setter", "bind"} => local[t].todo # <<>>

Types == SharedTypes /\ RegistryTypes /\ AutoTypes /\ ControlTypes /\ PastTypes /\ Todo

Names(s) == {s[k] : k \in DOMAIN s}

\* No item is registered twice.
Registered ==
  IsFiniteSet(Names(registry.items)) /\ Cardinality(Names(registry.items)) = Len(registry.items)

\* The pass lock is held by the thread in a pass, and by no other.
Lock == \A t \in Threads : apply = t <=> pc[t] \in Passing

\* The in-flight count is that of the background threads past the increment.
InFlight == {b \in Background : pc[b] \notin Outside}
Gate     == inFlight = Cardinality(InFlight)

\* After an unload that found nothing in flight the latch keeps every background thread at
\* the gate.
Quiet == past.quiet => latch /\ \A b \in Background : pc[b] \in Held

\* Only load() re-points, and a load() that moved the watcher out remembers the disable
\* generation of a moment when auto-reload was on.
Loaded(t) == /\ local[t].loading => pc[t] \in Loading
             /\ pc[t] \in Repointed => local[t].loading
Loads     == \A t \in Threads : Loaded(t)

Joining(t) == local[t].loading /\ pc[t] \in {"join", "snapshot", "restart"}

Off ==
  /\ past.off => auto.watcher = None
  /\ \A t \in Threads : Joining(t) =>
       /\ local[t].generation <= auto.generation
       /\ past.off => local[t].generation < auto.generation

\* What the hash says of the values, outside the setters of a pass.
Working == {"setters", "setter"}
Whole ==
  (\A t \in Threads : pc[t] \notin Working) /\ registry.hash # None /\ ~ past.owed =>
    \A i \in Names(registry.items) : Vouched(i)

\* What a pass has done so far: an item is registered since, still to come, or given the
\* value, unless a setter failed or was given up.
Given(t, i) ==
  i \in past.fresh \/ i \in Names(local[t].todo) \/ value[i] = local[t].data \/ ~ local[t].ok
Partial ==
  \A t \in Threads : pc[t] \in Working =>
    /\ local[t].commit \in {None, local[t].data}
    /\ \A i \in Names(registry.items) : Given(t, i)

CInv ==
  Types /\ Registered /\ Lock /\ Gate /\ Quiet /\ Loads /\ Off /\ Whole /\ Partial

-----------------------------------------------------------------------------
(* The threads are distinct, and a step moves one of them. *)

\* The consumer's threads, the watchers and the servicer are different threads, and None is
\* none of them.
LEMMA Apart ==
  /\ Apps \subseteq Threads /\ Watchers \subseteq Background /\ Background \subseteq Threads
  /\ Servicer \in Background /\ Servicer \notin Apps /\ Servicer \notin Watchers
  /\ \A a \in Apps : a \notin Background
  /\ None \notin Threads /\ None \notin Paths /\ None \notin Nat /\ None \notin Background
  BY Zenon, ConfigAssumption DEF Threads, Background

\* Every thread but t stays where it is.
Alone(t) == \A u \in Threads : u # t => pc'[u] = pc[u]

\* Goto moves t and no other thread.
LEMMA PcMoves ==
  ASSUME DOMAIN pc = Threads, NEW t \in Threads, NEW to, pc' = [pc EXCEPT ![t] = to]
  PROVE  DOMAIN pc' = Threads /\ pc'[t] = to /\ Alone(t)
  BY Zenon DEF Alone

\* Every thread but t keeps its local variables.
Private(t) == \A u \in Threads : u # t => local'[u] = local[u]

\* A step that rewrites the local variables of t rewrites those of no other thread.
LEMMA LocalMoves ==
  ASSUME local \in [Threads -> Local], NEW t \in Threads, NEW l, local' = [local EXCEPT ![t] = l]
  PROVE  local'[t] = l /\ Private(t) /\ (l \in Local => local' \in [Threads -> Local])
  BY Zenon DEF Private

-----------------------------------------------------------------------------
(* Types. *)

\* A call that has not begun.
LEMMA BlankType == Blank \in Local /\ Blank.todo = <<>> /\ ~ Blank.loading
  BY SMT DEF Blank, Local, Default

\* A thread that moves without touching its local variables.
LEMMA PcOnly ==
  ASSUME ControlTypes, Todo, NEW t \in Threads, NEW to, pc' = [pc EXCEPT ![t] = to],
         local' = local, to \notin {"setter", "bind"}
  PROVE  ControlTypes' /\ Todo'
  BY Zenon, PcMoves DEF ControlTypes, Todo, Alone

\* A thread that moves and rewrites its local variables.
LEMMA PcLocal ==
  ASSUME ControlTypes, Todo, NEW t \in Threads, NEW to, NEW l \in Local,
         pc' = [pc EXCEPT ![t] = to], local' = [local EXCEPT ![t] = l],
         to \in {"setter", "bind"} => l.todo # <<>>
  PROVE  ControlTypes' /\ Todo'
<1>1. DOMAIN pc' = Threads /\ pc'[t] = to /\ Alone(t)
  BY Zenon, PcMoves DEF ControlTypes
<1>2. local'[t] = l /\ Private(t) /\ local' \in [Threads -> Local]
  BY Zenon, LocalMoves DEF ControlTypes
<1> QED
  BY Zenon, <1>1, <1>2 DEF ControlTypes, Todo, Alone, Private

\* A call that returns leaves nothing behind.
LEMMA Returns ==
  ASSUME ControlTypes, Todo, NEW t \in Threads, NEW to, pc' = [pc EXCEPT ![t] = to],
         local' = [local EXCEPT ![t] = Blank], to \notin {"setter", "bind"}
  PROVE  ControlTypes' /\ Todo'
  BY Zenon, BlankType, PcLocal

\* Return ends on no setter.
LEMMA ReturnTypes ==
  ASSUME ControlTypes, Todo, NEW t \in Threads, Return(t)
  PROVE  ControlTypes' /\ Todo'
<1>1. PICK to \in {"idle", "leave"} : pc' = [pc EXCEPT ![t] = to]
  BY Zenon DEF Return, Goto
<1> QED
  BY Zenon, <1>1, Returns DEF Return

\* Nor does the end of a reload.
LEMMA EndReloadMoves ==
  ASSUME NEW t \in Threads, EndReload(t)
  PROVE  \E to \in {"idle", "report", "leave"} : pc' = [pc EXCEPT ![t] = to]
<1>1. CASE t \in Apps
  <2>1. t \notin Watchers
    BY Zenon, <1>1, Apart
  <2> QED
    BY SMT, <1>1, <2>1 DEF EndReload, Goto
<1>2. CASE t \notin Apps /\ t \in Watchers
  BY SMT, <1>2 DEF EndReload, Goto
<1>3. CASE t \notin Apps /\ t \notin Watchers
  BY SMT, <1>3 DEF EndReload, Goto
<1> QED
  BY Zenon, <1>1, <1>2, <1>3

\* A reload that ends lets the pass lock go.
LEMMA EndReloadTypes ==
  ASSUME ControlTypes, Todo, NEW t \in Threads, EndReload(t)
  PROVE  ControlTypes' /\ Todo' /\ apply' = None
<1>1. PICK to \in {"idle", "report", "leave"} : pc' = [pc EXCEPT ![t] = to]
  BY Zenon, EndReloadMoves
<1> QED
  BY Zenon, <1>1, Returns DEF EndReload

\* The parts of Types that a step leaves alone.
LEMMA SharedStays ==
  ASSUME SharedTypes, UNCHANGED <<file, latch, apply, value, hotkey>>
  PROVE  SharedTypes'
  BY Zenon DEF SharedTypes

\* The registry, as its type says.
LEMMA RegistryStays ==
  ASSUME RegistryTypes, UNCHANGED registry
  PROVE  RegistryTypes'
  BY Zenon DEF RegistryTypes

\* The watcher slot and the background threads.
LEMMA AutoStays ==
  ASSUME AutoTypes, UNCHANGED <<auto, bg>>
  PROVE  AutoTypes'
  BY Zenon DEF AutoTypes

\* The history.
LEMMA PastStays ==
  ASSUME PastTypes, UNCHANGED past
  PROVE  PastTypes'
  BY Zenon DEF PastTypes

\* A flag of a background thread changes.
LEMMA BgTypes ==
  ASSUME AutoTypes, NEW b \in Background, auto' = auto,
         \/ bg' = [bg EXCEPT ![b].pending = FALSE] \/ bg' = [bg EXCEPT ![b].pending = TRUE]
         \/ bg' = [bg EXCEPT ![b].stop = TRUE] \/ bg' = [bg EXCEPT ![b].life = "done"]
  PROVE  AutoTypes'
<1>1. bg \in [Background -> Bg] /\ auto' \in Slot
  BY Zenon DEF AutoTypes
<1>2. ASSUME NEW r \in Bg, bg' = [bg EXCEPT ![b] = r] PROVE AutoTypes'
  BY Zenon, <1>1, <1>2 DEF AutoTypes
<1>3. bg[b] \in Bg
  BY Zenon, <1>1
<1>4. ASSUME NEW q \in BOOLEAN PROVE [bg[b] EXCEPT !.pending = q] \in Bg
  BY Zenon, <1>3 DEF Bg
<1>5. ASSUME NEW q \in BOOLEAN PROVE [bg[b] EXCEPT !.stop = q] \in Bg
  BY Zenon, <1>3 DEF Bg
<1>6. [bg[b] EXCEPT !.life = "done"] \in Bg
  BY Zenon, <1>3 DEF Bg, Life
<1> QED
  BY Zenon, <1>2, <1>4, <1>5, <1>6

\* The history after each of its updates.
LEMMA PastTypesMove ==
  ASSUME PastTypes, NEW i \in Item, NEW q \in BOOLEAN
  PROVE  /\ [past EXCEPT !.owed = q] \in Past /\ [past EXCEPT !.off = q] \in Past
         /\ [past EXCEPT !.quiet = q] \in Past /\ [past EXCEPT !.fresh = {}] \in Past
         /\ [past EXCEPT !.fresh = {}, !.owed = q] \in Past
         /\ [past EXCEPT !.fresh = past.fresh \cup {i}] \in Past
<1>1. [past EXCEPT !.owed = q] \in Past
  BY Zenon DEF PastTypes, Past
<1>2. [past EXCEPT !.off = q] \in Past
  BY Zenon DEF PastTypes, Past
<1>3. [past EXCEPT !.quiet = q] \in Past
  BY Zenon DEF PastTypes, Past
<1>4. [past EXCEPT !.fresh = {}] \in Past
  <2>1. ASSUME NEW f \in SUBSET Item PROVE [past EXCEPT !.fresh = f] \in Past
    BY Zenon DEF PastTypes, Past
  <2> QED
    BY Zenon, <2>1
<1>5. [past EXCEPT !.fresh = {}, !.owed = q] \in Past
  <2>1. ASSUME NEW f \in SUBSET Item PROVE [past EXCEPT !.fresh = f, !.owed = q] \in Past
    BY Zenon DEF PastTypes, Past
  <2> QED
    BY Zenon, <2>1
<1>6. [past EXCEPT !.fresh = past.fresh \cup {i}] \in Past
  <2>1. ASSUME NEW f \in SUBSET Item PROVE [past EXCEPT !.fresh = f] \in Past
    BY Zenon DEF PastTypes, Past
  <2>2. past.fresh \in SUBSET Item
    BY Zenon DEF PastTypes, Past
  <2>3. past.fresh \cup {i} \in SUBSET Item
    BY Zenon, <2>2
  <2> QED
    BY Zenon, <2>1, <2>3
<1> QED
  BY Zenon, <1>1, <1>2, <1>3, <1>4, <1>5, <1>6

\* The gate changes only the in-flight count and the place of its thread.
LEMMA GateTypes ==
  ASSUME Types, NEW b \in Background,
         \/ GuardCheck(b) \/ GuardEnter(b) \/ GuardRecheck(b) \/ GuardLeave(b)
         \/ Report(b) \/ CallbackReturns(b) \/ (b = Servicer /\ ServicerWakes)
  PROVE  Types'
<1>1. b \in Threads
  BY Zenon, Apart
<1>2. PICK to \in {"idle", "enter", "recheck", "pass", "drain", "callback", "leave"} : pc' = [pc EXCEPT ![b] = to]
  <2> USE DEF Goto
  <2>1. CASE GuardCheck(b)
    BY Zenon, <2>1 DEF GuardCheck
  <2>2. CASE GuardEnter(b)
    BY Zenon, <2>2 DEF GuardEnter
  <2>3. CASE GuardRecheck(b)
    BY Zenon, <2>3 DEF GuardRecheck
  <2>4. CASE GuardLeave(b)
    BY Zenon, <2>4 DEF GuardLeave
  <2>5. CASE Report(b)
    BY Zenon, <2>5 DEF Report
  <2>6. CASE CallbackReturns(b) \/ (b = Servicer /\ ServicerWakes)
    BY Zenon, <2>6 DEF CallbackReturns, ServicerWakes
  <2> QED
    BY Zenon, <2>1, <2>2, <2>3, <2>4, <2>5, <2>6
<1>3. UNCHANGED <<file, latch, apply, registry, value, auto, hotkey, bg, local, past>>
  BY Zenon DEF GuardCheck, GuardEnter, GuardRecheck, GuardLeave, Report, CallbackReturns,
               ServicerWakes, shared
<1>4. ControlTypes' /\ Todo'
  BY Zenon, <1>1, <1>2, <1>3, PcOnly DEF Types
<1> QED
  BY Zenon, <1>3, <1>4, SharedStays, RegistryStays, AutoStays, PastStays DEF Types

\* So do the steps that also change a flag of a background thread.
LEMMA FlagTypes ==
  ASSUME Types, NEW b \in Background,
         WatcherFires(b) \/ BgExits(b) \/ (b = Servicer /\ (ServicerDrains \/ Press))
  PROVE  Types'
<1>1. b \in Threads
  BY Zenon, Apart
<1>2. ControlTypes' /\ Todo'
  <2>1. CASE WatcherFires(b)
    <3>1. pc' = [pc EXCEPT ![b] = "check"] /\ local' = local
      BY Zenon, <2>1 DEF WatcherFires, Goto
    <3> QED
      BY Zenon, <1>1, <3>1, PcOnly DEF Types
  <2>2. CASE BgExits(b) \/ (b = Servicer /\ Press)
    BY Zenon, <2>2 DEF BgExits, Press, Types, ControlTypes, Todo
  <2>3. CASE b = Servicer /\ ServicerDrains
    <3>1. PICK to \in {"check", "idle"} : pc' = [pc EXCEPT ![b] = to]
      BY Zenon, <2>3 DEF ServicerDrains, Goto
    <3> QED
      BY Zenon, <1>1, <2>3, <3>1, PcOnly DEF ServicerDrains, Types
  <2> QED
    BY Zenon, <2>1, <2>2, <2>3
<1>3. AutoTypes'
  BY Zenon, BgTypes DEF WatcherFires, BgExits, ServicerDrains, Press, Types
<1>4. UNCHANGED <<file, latch, apply, registry, value, hotkey, past>>
  BY Zenon DEF WatcherFires, BgExits, ServicerDrains, Press
<1> QED
  BY Zenon, <1>2, <1>3, <1>4, SharedStays, RegistryStays, PastStays DEF Types

\* What a record of local variables holds.
LEMMA LocalFields ==
  ASSUME NEW l \in Local
  PROVE  /\ l.path \in Paths \cup {None} /\ l.todo \in Seq(Item) /\ l.data \in Nat
         /\ l.commit \in Nat \cup {None} /\ l.thread \in Background \cup {None}
         /\ l.generation \in Nat /\ l.ok \in BOOLEAN /\ l.loading \in BOOLEAN
  BY SMT DEF Local

\* What the registry holds.
LEMMA RegistryFields ==
  ASSUME NEW r \in Registry
  PROVE  r.items \in Seq(Item) /\ r.path \in Paths \cup {None} /\ r.hash \in Nat \cup {None}
  BY SMT DEF Registry

\* The contents of a readable file.
LEMMA ReadableData ==
  ASSUME SharedTypes, NEW p \in Paths \cup {None}, Readable(p)
  PROVE  p \in Paths /\ file[p].data \in Nat
<1>1. p \in Paths
  BY Zenon DEF Readable
<1> QED
  BY SMT, <1>1 DEF SharedTypes

\* What a pass is given.
Captured(p, d, c, q) ==
  p \in Paths \cup {None} /\ d \in Nat /\ c \in Nat \cup {None} /\ q \in BOOLEAN

\* What Capture leaves in the local variables of the pass.
LEMMA CaptureTypes ==
  ASSUME ControlTypes, Todo, RegistryTypes, NEW t \in Threads, NEW p, NEW d, NEW c, NEW q,
         Captured(p, d, c, q), Capture(t, p, d, c, q)
  PROVE  /\ ControlTypes' /\ Todo' /\ apply' = t /\ pc' = [pc EXCEPT ![t] = "setters"] /\ Private(t)
         /\ local'[t].todo = registry.items /\ local'[t].data = d /\ local'[t].commit = c
         /\ local'[t].ok = TRUE /\ local'[t].loading = q
<1> DEFINE l == [local[t] EXCEPT !.path = p, !.todo = registry.items, !.data = d,
                                 !.commit = c, !.ok = TRUE, !.loading = q]
<1>1. local' = [local EXCEPT ![t] = l] /\ apply' = t /\ pc' = [pc EXCEPT ![t] = "setters"]
  BY Zenon DEF Capture, Goto
<1>2. registry.items \in Seq(Item) /\ local[t] \in Local
  BY Zenon, RegistryFields DEF RegistryTypes, ControlTypes
<1>3. l \in Local
  <2>1. ASSUME NEW s \in Seq(Item), NEW k \in BOOLEAN
        PROVE  [local[t] EXCEPT !.path = p, !.todo = s, !.data = d, !.commit = c, !.ok = k, !.loading = q] \in Local
    BY Zenon, <1>2 DEF Local, Captured
  <2> QED
    BY Zenon, <1>2, <2>1
<1>4. l.todo = registry.items /\ l.data = d /\ l.commit = c /\ l.ok = TRUE /\ l.loading = q
  BY SMT, <1>2 DEF Local
<1> HIDE DEF l
<1>5. ControlTypes' /\ Todo'
  BY Zenon, <1>1, <1>3, PcLocal
<1>6. local'[t] = l /\ Private(t)
  BY Zenon, <1>1, LocalMoves DEF ControlTypes
<1> QED
  BY Zenon, <1>1, <1>4, <1>5, <1>6

\* The steps of a pass of reload().
LEMMA ReloadTypes ==
  ASSUME Types, NEW t \in Threads,
         \/ ReloadNothing(t) \/ ReloadUnchanged(t) \/ ReloadParseFails(t) \/ ReloadCapture(t)
  PROVE  Types'
<1>1. registry \in Registry /\ past \in Past /\ registry.path \in Paths \cup {None}
  BY Zenon, RegistryFields DEF Types, RegistryTypes, PastTypes
<1>2. UNCHANGED <<file, latch, value, auto, hotkey, bg>>
  BY Zenon DEF ReloadNothing, ReloadUnchanged, ReloadParseFails, ReloadCapture
<1>3. ASSUME apply' \in Threads \cup {None} PROVE SharedTypes' /\ AutoTypes'
  BY Zenon, <1>2, <1>3, AutoStays DEF Types, SharedTypes
<1>4. ASSUME EndReload(t) PROVE SharedTypes' /\ AutoTypes' /\ ControlTypes' /\ Todo'
  BY Zenon, <1>3, <1>4, EndReloadTypes DEF Types
<1>5. CASE ReloadNothing(t)
  <2>1. RegistryTypes' /\ PastTypes'
    <3>1. CASE registry.path = None
      BY Zenon, <1>1, <1>5, <3>1 DEF ReloadNothing, RegistryTypes, PastTypes
    <3>2. CASE registry.path # None
      <4>1. registry' = [registry EXCEPT !.hash = None] /\ past' = [past EXCEPT !.owed = FALSE]
        BY Zenon, <1>5, <3>2 DEF ReloadNothing
      <4> QED
        BY Zenon, <1>1, <4>1 DEF RegistryTypes, PastTypes, Registry, Past
    <3> QED
      BY Zenon, <3>1, <3>2
  <2> QED
    BY Zenon, <1>4, <1>5, <2>1 DEF ReloadNothing, Types
<1>6. CASE ReloadUnchanged(t)
  BY Zenon, <1>4, <1>6, RegistryStays, PastStays DEF ReloadUnchanged, Types
<1>7. CASE ReloadParseFails(t) \/ ReloadCapture(t)
  <2>1. Current \in Nat
    BY Zenon, <1>1, <1>7, ReadableData DEF ReloadParseFails, ReloadCapture, Current, Types
  <2>2. CASE ReloadParseFails(t)
    <3>1. registry' = [registry EXCEPT !.hash = Current] /\ past' = [past EXCEPT !.owed = TRUE] /\ EndReload(t)
      BY Zenon, <2>2 DEF ReloadParseFails
    <3>2. RegistryTypes' /\ PastTypes'
      BY Zenon, <1>1, <2>1, <3>1 DEF RegistryTypes, PastTypes, Registry, Past
    <3> QED
      BY Zenon, <1>4, <3>1, <3>2 DEF Types
  <2>3. CASE ReloadCapture(t)
    <3>1. Capture(t, registry.path, Current, Current, FALSE) /\ UNCHANGED registry
          /\ past' = [past EXCEPT !.fresh = {}]
      BY Zenon, <2>3 DEF ReloadCapture
    <3>2. ControlTypes' /\ Todo' /\ apply' = t
      BY Zenon, <1>1, <2>1, <3>1, CaptureTypes DEF Types, Captured
    <3>3. PastTypes'
      BY Zenon, <1>1, <3>1 DEF PastTypes, Past
    <3> QED
      BY Zenon, <1>3, <3>1, <3>2, <3>3, RegistryStays DEF Types
  <2> QED
    BY Zenon, <1>7, <2>2, <2>3
<1> QED
  BY Zenon, <1>5, <1>6, <1>7

\* The head and the tail of what is left to call.
LEMMA HeadTail ==
  ASSUME NEW s \in Seq(Item), s # <<>>
  PROVE  Head(s) \in Item /\ Tail(s) \in Seq(Item) /\ Names(s) = {Head(s)} \cup Names(Tail(s))
<1>1. Head(s) \in Item /\ Tail(s) \in Seq(Item) /\ Head(s) = s[1]
  BY SMT
<1>2. /\ 1 \in DOMAIN s
      /\ \A k \in DOMAIN s : k = 1 \/ (k - 1 \in DOMAIN Tail(s) /\ Tail(s)[k - 1] = s[k])
      /\ \A k \in DOMAIN Tail(s) : k + 1 \in DOMAIN s /\ Tail(s)[k] = s[k + 1]
  BY SMT
<1>3. ASSUME NEW x \in Names(s) PROVE x \in {Head(s)} \cup Names(Tail(s))
  <2>1. PICK k \in DOMAIN s : x = s[k]
    BY Zenon, <1>3 DEF Names
  <2>2. x = Head(s) \/ \E j \in DOMAIN Tail(s) : x = Tail(s)[j]
    BY SMT, <1>1, <1>2, <2>1
  <2> QED
    BY Zenon, <2>2 DEF Names
<1>4. ASSUME NEW x \in {Head(s)} \cup Names(Tail(s)) PROVE x \in Names(s)
  <2>1. x = Head(s) \/ \E j \in DOMAIN Tail(s) : x = Tail(s)[j]
    BY Zenon, <1>4 DEF Names
  <2>2. \E k \in DOMAIN s : x = s[k]
    BY SMT, <1>1, <1>2, <2>1
  <2> QED
    BY Zenon, <2>2 DEF Names
<1> QED
  BY Zenon, <1>1, <1>3, <1>4

\* The setters of a pass, and the setter a bind_* calls.
LEMMA SetterTypes ==
  ASSUME Types, NEW t \in Threads, NextSetter(t) \/ RunSetter(t) \/ BindDefault(t)
  PROVE  Types'
<1>1. /\ local[t] \in Local /\ local[t].data \in Nat /\ local[t].todo \in Seq(Item)
      /\ value \in [Item -> Nat] /\ past \in Past
  BY Zenon, LocalFields DEF Types, ControlTypes, SharedTypes, PastTypes
<1>3. CASE NextSetter(t)
  <2>1. ControlTypes' /\ Todo'
    <3>1. CASE latch /\ ~ local[t].loading
      <4>1. local' = [local EXCEPT ![t] = [local[t] EXCEPT !.todo = <<>>, !.ok = FALSE]] /\ UNCHANGED pc
            /\ pc[t] = "setters"
        BY Zenon, <1>3, <3>1 DEF NextSetter, At
      <4>2. <<>> \in Seq(Item)
        BY SMT
      <4>3. [local[t] EXCEPT !.todo = <<>>, !.ok = FALSE] \in Local
        BY Zenon, <1>1, <4>2 DEF Local
      <4>4. DOMAIN pc = Threads /\ local \in [Threads -> Local] /\ Todo
        BY Zenon DEF Types, ControlTypes
      <4>5. local' \in [Threads -> Local] /\ Private(t)
        BY Zenon, <4>1, <4>3, <4>4, LocalMoves
      <4> QED
        BY Zenon, <4>1, <4>4, <4>5 DEF ControlTypes, Todo, Private
    <3>2. CASE ~ (latch /\ ~ local[t].loading)
      <4>1. pc' = [pc EXCEPT ![t] = "setter"] /\ local' = local /\ local[t].todo # <<>>
        BY Zenon, <1>3, <3>2 DEF NextSetter, Goto
      <4> QED
        BY Zenon, <4>1, PcMoves DEF Types, ControlTypes, Todo, Alone
    <3> QED
      BY Zenon, <3>1, <3>2
  <2>2. UNCHANGED <<shared, past>>
    BY Zenon, <1>3 DEF NextSetter
  <2> QED
    BY Zenon, <2>1, <2>2, SharedStays, RegistryStays, AutoStays, PastStays DEF Types, shared
<1>4. CASE RunSetter(t)
  <2>1. /\ pc' = [pc EXCEPT ![t] = "setters"] /\ pc[t] = "setter"
        /\ UNCHANGED <<file, latch, apply, registry, auto, hotkey, bg, past>>
    BY Zenon, <1>4 DEF RunSetter, Goto, At
  <2>2. Tail(local[t].todo) \in Seq(Item) /\ local[t].todo # <<>>
    BY Zenon, <1>1, <2>1, HeadTail DEF Types, Todo
  <2>3. PICK l \in Local : local' = [local EXCEPT ![t] = l]
    <3>1. /\ [local[t] EXCEPT !.todo = Tail(local[t].todo)] \in Local
          /\ [local[t] EXCEPT !.todo = Tail(local[t].todo), !.ok = FALSE] \in Local
      BY Zenon, <1>1, <2>2 DEF Local
    <3>2. \/ local' = [local EXCEPT ![t] = [local[t] EXCEPT !.todo = Tail(local[t].todo)]]
          \/ local' = [local EXCEPT ![t] = [local[t] EXCEPT !.todo = Tail(local[t].todo), !.ok = FALSE]]
      BY SMT, <1>4 DEF RunSetter
    <3> QED
      BY Zenon, <3>1, <3>2
  <2>4. ControlTypes' /\ Todo'
    BY Zenon, <2>1, <2>3, PcLocal DEF Types
  <2>5. value' \in [Item -> Nat]
    BY Zenon, <1>1, <1>4 DEF RunSetter
  <2> QED
    BY Zenon, <2>1, <2>4, <2>5, RegistryStays, AutoStays, PastStays DEF Types, SharedTypes
<1>5. CASE BindDefault(t)
  <2>1. /\ value' = [value EXCEPT ![Head(local[t].todo)] = Default]
        /\ past' = [past EXCEPT !.fresh = past.fresh \cup {Head(local[t].todo)}]
        /\ Return(t) /\ pc[t] = "bind"
        /\ UNCHANGED <<file, latch, apply, registry, auto, hotkey, bg>>
    BY Zenon, <1>5 DEF BindDefault, At
  <2>2. Head(local[t].todo) \in Item
    BY Zenon, <1>1, <2>1, HeadTail DEF Types, Todo
  <2>3. PastTypes'
    BY Zenon, <2>1, <2>2, PastTypesMove DEF PastTypes, Types
  <2>4. Default \in Nat
    BY SMT DEF Default
  <2>5. value' \in [Item -> Nat]
    BY Zenon, <1>1, <2>1, <2>4
  <2>6. ControlTypes' /\ Todo'
    BY Zenon, <2>1, ReturnTypes DEF Types
  <2> QED
    BY Zenon, <2>1, <2>3, <2>5, <2>6, RegistryStays, AutoStays DEF Types, SharedTypes
<1> QED
  BY Zenon, <1>3, <1>4, <1>5

\* What the watcher slot and a background thread hold.
LEMMA SlotFields ==
  ASSUME AutoTypes
  PROVE  /\ auto.watcher \in Watchers \cup {None} /\ auto.callback \in BOOLEAN /\ auto.generation \in Nat
         /\ \A b \in Background : bg[b].path \in Paths \cup {None}
  BY SMT DEF AutoTypes, Slot, Bg

\* start_watcher_locked fills the slot with a watcher.
LEMMA StartTypes ==
  ASSUME AutoTypes, NEW p \in Paths \cup {None}, NEW cb \in BOOLEAN, StartWatcher(p, cb)
  PROVE  AutoTypes'
<1>1. auto \in Slot /\ bg \in [Background -> Bg]
  BY Zenon DEF AutoTypes
<1>2. CASE NoFault /\ \E w \in FreeWatchers :
             /\ auto' = [auto EXCEPT !.watcher = w, !.callback = cb]
             /\ bg' = [bg EXCEPT ![w] = [life |-> "runs", stop |-> FALSE, pending |-> FALSE,
                                         path |-> p, cb |-> cb]]
  <2>1. PICK w \in FreeWatchers :
             /\ auto' = [auto EXCEPT !.watcher = w, !.callback = cb]
             /\ bg' = [bg EXCEPT ![w] = [life |-> "runs", stop |-> FALSE, pending |-> FALSE,
                                         path |-> p, cb |-> cb]]
    BY Zenon, <1>2
  <2>2. w \in Watchers /\ w \in Background
    BY Zenon, Apart DEF FreeWatchers
  <2>3. auto' \in Slot
    BY Zenon, <1>1, <2>1, <2>2 DEF Slot
  <2>4. [life |-> "runs", stop |-> FALSE, pending |-> FALSE, path |-> p, cb |-> cb] \in Bg
    BY Zenon DEF Bg, Life
  <2>5. bg' \in [Background -> Bg]
    BY Zenon, <1>1, <2>1, <2>2, <2>4
  <2> QED
    BY Zenon, <2>3, <2>5 DEF AutoTypes
<1>3. CASE auto' = [auto EXCEPT !.callback = FALSE] /\ UNCHANGED bg
  <2>1. auto' \in Slot
    BY Zenon, <1>1, <1>3 DEF Slot
  <2> QED
    BY Zenon, <1>1, <1>3, <2>1 DEF AutoTypes
<1> QED
  BY Zenon, <1>2, <1>3 DEF StartWatcher

\* The end of the setters, and what load() does before them.
LEMMA LoadTypes ==
  ASSUME Types, NEW t \in Threads, Commit(t) \/ LoadCapture(t)
  PROVE  Types'
<1>1. /\ registry \in Registry /\ past \in Past /\ local[t] \in Local
      /\ local[t].commit \in Nat \cup {None} /\ local[t].path \in Paths \cup {None}
  BY Zenon, RegistryFields, LocalFields DEF Types, RegistryTypes, PastTypes, ControlTypes
<1>2. UNCHANGED <<file, latch, value, auto, hotkey, bg>>
  BY Zenon DEF Commit, LoadCapture
<1>3. ASSUME apply' \in Threads \cup {None} PROVE SharedTypes' /\ AutoTypes'
  BY Zenon, <1>2, <1>3, AutoStays DEF Types, SharedTypes
<1>4. CASE Commit(t)
  <2>1. RegistryTypes' /\ PastTypes'
    <3>1. CASE local[t].ok /\ local[t].commit # None
      <4>1. registry' = [registry EXCEPT !.hash = local[t].commit] /\ past' = [past EXCEPT !.owed = FALSE]
        BY Zenon, <1>4, <3>1 DEF Commit
      <4> QED
        BY Zenon, <1>1, <4>1 DEF RegistryTypes, PastTypes, Registry, Past
    <3>2. CASE ~ (local[t].ok /\ local[t].commit # None)
      <4>1. registry' = registry /\ past' = [past EXCEPT !.owed = TRUE]
        BY Zenon, <1>4, <3>2 DEF Commit
      <4> QED
        BY Zenon, <1>1, <4>1 DEF RegistryTypes, PastTypes, Past
    <3> QED
      BY Zenon, <3>1, <3>2
  <2>2. ControlTypes' /\ Todo' /\ apply' \in Threads \cup {None}
    <3>1. CASE local[t].loading
      <4>1. pc' = [pc EXCEPT ![t] = "repoint"] /\ apply' = apply /\ local' = local
        BY Zenon, <1>4, <3>1 DEF Commit, Goto
      <4>2. ControlTypes' /\ Todo'
        BY Zenon, <4>1, PcOnly DEF Types
      <4> QED
        BY Zenon, <4>1, <4>2 DEF Types, SharedTypes
    <3>2. CASE ~ local[t].loading
      BY Zenon, <1>4, <3>2, EndReloadTypes DEF Commit, Types
    <3> QED
      BY Zenon, <3>1, <3>2
  <2> QED
    BY Zenon, <1>3, <2>1, <2>2 DEF Types
<1>5. CASE LoadCapture(t)
  <2>1. /\ registry' = [registry EXCEPT !.hash = None, !.path = local[t].path]
        /\ past' = [past EXCEPT !.fresh = {}, !.owed = FALSE]
    BY Zenon, <1>5 DEF LoadCapture
  <2>2. RegistryTypes' /\ PastTypes'
    BY Zenon, <1>1, <2>1 DEF RegistryTypes, PastTypes, Registry, Past
  <2>3. ControlTypes' /\ Todo' /\ apply' = t
    <3>1. CASE /\ Readable(local[t].path)
               /\ Capture(t, local[t].path, file[local[t].path].data, file[local[t].path].data, TRUE)
      <4>1. file[local[t].path].data \in Nat
        BY Zenon, <1>1, <3>1, ReadableData DEF Types
      <4>2. Captured(local[t].path, file[local[t].path].data, file[local[t].path].data, TRUE)
        BY Zenon, <1>1, <4>1 DEF Captured
      <4> QED
        BY Zenon, <3>1, <4>2, CaptureTypes DEF Types
    <3>2. CASE Capture(t, local[t].path, Default, None, TRUE)
      <4>1. Default \in Nat
        BY SMT DEF Default
      <4> QED
        BY Zenon, <1>1, <3>2, <4>1, CaptureTypes DEF Types, Captured
    <3> QED
      BY Zenon, <1>5, <3>1, <3>2 DEF LoadCapture
  <2> QED
    BY Zenon, <1>3, <2>2, <2>3 DEF Types
<1> QED
  BY Zenon, <1>4, <1>5

\* Changes of a single local variable.
LEMMA LocalUpdates ==
  ASSUME NEW l \in Local, NEW p \in Paths \cup {None}, NEW b \in Background \cup {None}, NEW g \in Nat,
         NEW s \in Seq(Item), NEW q \in BOOLEAN, NEW r \in BOOLEAN
  PROVE  /\ [l EXCEPT !.path = p] \in Local /\ [l EXCEPT !.thread = b] \in Local
         /\ [l EXCEPT !.thread = b, !.generation = g] \in Local /\ [l EXCEPT !.todo = s] \in Local
         /\ [l EXCEPT !.unloading = q, !.loaderLock = r] \in Local
<1>1. [l EXCEPT !.path = p] \in Local /\ [l EXCEPT !.thread = b] \in Local
  BY Zenon DEF Local
<1>2. [l EXCEPT !.thread = b, !.generation = g] \in Local /\ [l EXCEPT !.todo = s] \in Local
  BY Zenon DEF Local
<1>3. [l EXCEPT !.unloading = q, !.loaderLock = r] \in Local
  BY Zenon DEF Local
<1> QED
  BY Zenon, <1>1, <1>2, <1>3

\* load() after its pass.
LEMMA RepointTypes ==
  ASSUME Types, NEW t \in Threads,
         LoadRepoint(t) \/ Join(t) \/ RepointPath(t) \/ LoadRestart(t) \/ \E cb \in BOOLEAN : EnableStart(t, cb)
  PROVE  Types'
<1>1. /\ local[t] \in Local /\ local[t].path \in Paths \cup {None} /\ registry.path \in Paths \cup {None}
      /\ auto.watcher \in Watchers \cup {None} /\ auto.generation \in Nat /\ auto.callback \in BOOLEAN
      /\ <<>> \in Seq(Item)
  BY Zenon, RegistryFields, LocalFields, SlotFields, BlankType DEF Types, RegistryTypes, ControlTypes
<1>2. CASE LoadRepoint(t)
  <2>1. SharedTypes' /\ RegistryTypes' /\ PastTypes'
    BY Zenon, <1>2, RegistryStays, PastStays DEF LoadRepoint, SharedTypes, Types
  <2>2. CASE auto.watcher # None /\ auto.watcher # t /\ bg[auto.watcher].path # local[t].path
    <3>1. /\ auto' = [auto EXCEPT !.watcher = None] /\ bg' = [bg EXCEPT ![auto.watcher].stop = TRUE]
          /\ local' = [local EXCEPT ![t] = [local[t] EXCEPT !.thread = auto.watcher, !.generation = auto.generation]]
          /\ pc' = [pc EXCEPT ![t] = "join"]
      BY Zenon, <1>2, <2>2 DEF LoadRepoint, Goto
    <3>2. auto.watcher \in Background
      BY Zenon, <1>1, <2>2, Apart
    <3>3. [local[t] EXCEPT !.thread = auto.watcher, !.generation = auto.generation] \in Local
      BY Zenon, <1>1, <3>2, LocalUpdates
    <3>4. ControlTypes' /\ Todo'
      BY Zenon, <3>1, <3>3, PcLocal DEF Types
    <3>5. bg' \in [Background -> Bg]
      BY Zenon, <3>1, <3>2 DEF Bg, Types, AutoTypes
    <3>6. auto' \in Slot
      BY Zenon, <3>1 DEF Slot, Types, AutoTypes
    <3> QED
      BY Zenon, <2>1, <3>4, <3>5, <3>6 DEF Types, AutoTypes
  <2>3. CASE ~ (auto.watcher # None /\ auto.watcher # t /\ bg[auto.watcher].path # local[t].path)
    <3>1. Return(t) /\ UNCHANGED <<auto, bg>>
      BY Zenon, <1>2, <2>3 DEF LoadRepoint
    <3> QED
      BY Zenon, <2>1, <3>1, ReturnTypes, AutoStays DEF Types
  <2> QED
    BY Zenon, <2>2, <2>3
<1>3. CASE Join(t)
  <2>1. UNCHANGED <<shared, past>>
    BY Zenon, <1>3 DEF Join
  <2>2. ControlTypes' /\ Todo'
    <3>1. CASE local[t].loading \/ local[t].unloading
      <4>1. PICK to \in {"snapshot", "await", "clear"} :
              pc' = [pc EXCEPT ![t] = to] /\ local' = [local EXCEPT ![t] = [local[t] EXCEPT !.thread = None]]
        BY Zenon, <1>3, <3>1 DEF Join, Goto
      <4>2. [local[t] EXCEPT !.thread = None] \in Local
        BY Zenon, <1>1 DEF Local
      <4> QED
        BY Zenon, <4>1, <4>2, PcLocal DEF Types
    <3>2. CASE ~ local[t].loading /\ ~ local[t].unloading
      BY Zenon, <1>3, <3>2, ReturnTypes DEF Join, Types
    <3> QED
      BY Zenon, <3>1, <3>2
  <2> QED
    BY Zenon, <2>1, <2>2, SharedStays, RegistryStays, AutoStays, PastStays DEF Types, shared
<1>4. CASE RepointPath(t)
  <2>1. /\ local' = [local EXCEPT ![t] = [local[t] EXCEPT !.path = registry.path]]
        /\ pc' = [pc EXCEPT ![t] = "restart"] /\ UNCHANGED <<shared, past>>
    BY Zenon, <1>4 DEF RepointPath, Goto
  <2>2. [local[t] EXCEPT !.path = registry.path] \in Local
    BY Zenon, <1>1 DEF Local
  <2>3. ControlTypes' /\ Todo'
    BY Zenon, <2>1, <2>2, PcLocal DEF Types
  <2> QED
    BY Zenon, <2>1, <2>3, SharedStays, RegistryStays, AutoStays, PastStays DEF Types, shared
<1>5. CASE LoadRestart(t)
  <2>1. ControlTypes' /\ Todo' /\ SharedTypes' /\ RegistryTypes' /\ PastTypes'
    BY Zenon, <1>5, ReturnTypes, SharedStays, RegistryStays, PastStays DEF LoadRestart, Types
  <2>2. AutoTypes'
    <3>1. CASE StartWatcher(local[t].path, auto.callback)
      BY Zenon, <1>1, <3>1, StartTypes DEF Types
    <3> QED
      BY Zenon, <1>5, <3>1, AutoStays DEF LoadRestart, Types
  <2> QED
    BY Zenon, <2>1, <2>2 DEF Types
<1>6. ASSUME NEW cb \in BOOLEAN, EnableStart(t, cb) PROVE Types'
  <2>1. ControlTypes' /\ Todo' /\ SharedTypes' /\ RegistryTypes'
    BY Zenon, <1>6, ReturnTypes, SharedStays, RegistryStays DEF EnableStart, Types
  <2>2. AutoTypes' /\ PastTypes'
    <3>1. CASE auto.watcher # None
      BY Zenon, <1>6, <3>1, AutoStays, PastStays DEF EnableStart, Types
    <3>2. CASE auto.watcher = None
      <4>1. StartWatcher(local[t].path, cb) /\ past' = [past EXCEPT !.off = FALSE]
        BY Zenon, <1>6, <3>2 DEF EnableStart
      <4>2. PastTypes'
        BY Zenon, <4>1 DEF Types, PastTypes, Past
      <4> QED
        BY Zenon, <1>1, <4>1, <4>2, StartTypes DEF Types
    <3> QED
      BY Zenon, <3>1, <3>2
  <2> QED
    BY Zenon, <2>1, <2>2 DEF Types
<1> QED
  BY Zenon, <1>2, <1>3, <1>4, <1>5, <1>6

\* disable_auto_reload().
LEMMA DisableTypes ==
  ASSUME Types, NEW t \in Threads, NEW next \in {"idle", "clear"}, DisableAutoReload(t, next)
  PROVE  ControlTypes' /\ Todo' /\ AutoTypes' /\ PastTypes'
<1>1. /\ local[t] \in Local /\ auto.watcher \in Watchers \cup {None} /\ auto.generation \in Nat
      /\ bg \in [Background -> Bg] /\ past \in Past
  BY Zenon, SlotFields DEF Types, ControlTypes, AutoTypes, PastTypes
<1>2. ASSUME IF next = "idle" THEN Return(t) ELSE Goto(t, next) /\ UNCHANGED local
      PROVE  ControlTypes' /\ Todo'
  <2>1. CASE next = "idle"
    BY Zenon, <1>2, <2>1, ReturnTypes DEF Types
  <2>2. CASE next = "clear"
    <3>1. pc' = [pc EXCEPT ![t] = "clear"] /\ local' = local
      BY Zenon, <1>2, <2>2 DEF Goto
    <3> QED
      BY Zenon, <3>1, PcOnly DEF Types
  <2> QED
    BY Zenon, <2>1, <2>2
<1>3. CASE t \in {auto.watcher, Servicer}
  BY Zenon, <1>2, <1>3, AutoStays, PastStays DEF DisableAutoReload, Types
<1>4. CASE t \notin {auto.watcher, Servicer}
  <2>1. /\ auto' = [watcher |-> None, callback |-> FALSE, generation |-> auto.generation + 1]
        /\ past' = [past EXCEPT !.off = TRUE]
    BY Zenon, <1>4 DEF DisableAutoReload
  <2>2. auto.generation + 1 \in Nat
    BY SMT, <1>1
  <2>3. auto' \in Slot
    BY Zenon, <2>1, <2>2 DEF Slot
  <2>4. PastTypes'
    BY Zenon, <1>1, <2>1 DEF PastTypes, Past
  <2>5. CASE auto.watcher = None
    <3>1. UNCHANGED bg /\ IF next = "idle" THEN Return(t) ELSE Goto(t, next) /\ UNCHANGED local
      BY Zenon, <1>4, <2>5 DEF DisableAutoReload
    <3> QED
      BY Zenon, <1>1, <1>2, <2>3, <2>4, <3>1 DEF AutoTypes
  <2>6. CASE auto.watcher # None
    <3>1. auto.watcher \in Background
      BY Zenon, <1>1, <2>6, Apart
    <3>2. bg' = [bg EXCEPT ![auto.watcher].stop = TRUE]
      BY Zenon, <1>4, <2>6 DEF DisableAutoReload
    <3>3. bg' \in [Background -> Bg]
      BY Zenon, <1>1, <3>1, <3>2 DEF Bg
    <3>4. ControlTypes' /\ Todo'
      <4>1. CASE local[t].loaderLock
        BY Zenon, <1>2, <1>4, <4>1 DEF DisableAutoReload
      <4>2. CASE ~ local[t].loaderLock
        <5>1. /\ pc' = [pc EXCEPT ![t] = "join"]
              /\ local' = [local EXCEPT ![t] = [local[t] EXCEPT !.thread = auto.watcher]]
          BY Zenon, <1>4, <2>6, <4>2 DEF DisableAutoReload, Goto
        <5>2. [local[t] EXCEPT !.thread = auto.watcher] \in Local
          BY Zenon, <1>1, <3>1 DEF Local
        <5> QED
          BY Zenon, <5>1, <5>2, PcLocal DEF Types
      <4> QED
        BY Zenon, <4>1, <4>2
    <3> QED
      BY Zenon, <2>3, <2>4, <3>3, <3>4 DEF AutoTypes
  <2> QED
    BY Zenon, <2>5, <2>6
<1> QED
  BY Zenon, <1>3, <1>4

\* clear() and the unload.
LEMMA ClearTypes ==
  ASSUME Types, NEW t \in Threads,
         \/ ClearRegistry(t) \/ ClearServicer(t) \/ UnloadDisables(t) \/ UnloadReturns(t) \/ Disable(t)
  PROVE  Types'
<1>1. /\ local[t] \in Local /\ bg \in [Background -> Bg] /\ past \in Past /\ hotkey \in Hotkey
      /\ Servicer \in Background
  BY Zenon, Apart DEF Types, ControlTypes, AutoTypes, PastTypes, SharedTypes
<1>2. CASE ClearRegistry(t)
  <2>1. /\ registry' = [items |-> <<>>, path |-> None, hash |-> None]
        /\ past' = [past EXCEPT !.owed = FALSE] /\ pc' = [pc EXCEPT ![t] = "clear_servicer"]
        /\ UNCHANGED <<file, latch, apply, value, auto, hotkey, bg, local>>
    BY Zenon, <1>2 DEF ClearRegistry, Goto
  <2>2. <<>> \in Seq(Item)
    BY SMT
  <2>3. RegistryTypes' /\ PastTypes'
    BY Zenon, <1>1, <2>1, <2>2 DEF RegistryTypes, PastTypes, Registry, Past
  <2>4. ControlTypes' /\ Todo'
    BY Zenon, <2>1, PcOnly DEF Types
  <2> QED
    BY Zenon, <2>1, <2>3, <2>4, SharedStays, AutoStays DEF Types
<1>3. CASE ClearServicer(t)
  <2>1. /\ hotkey' = [hotkey EXCEPT !.slot = FALSE, !.enabled = FALSE]
        /\ bg' = bg \/ bg' = [bg EXCEPT ![Servicer].stop = TRUE]
        /\ UNCHANGED <<file, latch, apply, registry, value, auto, past>>
    BY SMT, <1>3 DEF ClearServicer
  <2>2. AutoTypes'
    BY Zenon, <1>1, <2>1, AutoStays, BgTypes DEF Types
  <2>3. hotkey' \in Hotkey
    BY Zenon, <1>1, <2>1 DEF Hotkey
  <2>4. SharedTypes'
    BY Zenon, <2>1, <2>3 DEF Types, SharedTypes
  <2>5. ControlTypes' /\ Todo'
    <3>1. CASE (hotkey.slot /\ ~ hotkey.ref) /\ ~ local[t].loaderLock
      <4>1. /\ pc' = [pc EXCEPT ![t] = "join"]
            /\ local' = [local EXCEPT ![t] = [local[t] EXCEPT !.thread = Servicer]]
        BY Zenon, <1>3, <3>1 DEF ClearServicer, Goto
      <4>2. [local[t] EXCEPT !.thread = Servicer] \in Local
        BY Zenon, <1>1 DEF Local
      <4> QED
        BY Zenon, <4>1, <4>2, PcLocal DEF Types
    <3>2. CASE ~ ((hotkey.slot /\ ~ hotkey.ref) /\ ~ local[t].loaderLock)
      <4>1. IF local[t].unloading THEN Goto(t, "await") /\ UNCHANGED local ELSE Return(t)
        BY Zenon, <1>3, <3>2 DEF ClearServicer
      <4>2. CASE local[t].unloading
        <5>1. pc' = [pc EXCEPT ![t] = "await"] /\ local' = local
          BY Zenon, <4>1, <4>2 DEF Goto
        <5> QED
          BY Zenon, <5>1, PcOnly DEF Types
      <4> QED
        BY Zenon, <4>1, <4>2, ReturnTypes DEF Types
    <3> QED
      BY Zenon, <3>1, <3>2
  <2> QED
    BY Zenon, <2>1, <2>2, <2>4, <2>5, RegistryStays, PastStays DEF Types
<1>4. CASE UnloadDisables(t) \/ Disable(t)
  <2>1. PICK next \in {"idle", "clear"} : DisableAutoReload(t, next)
    BY Zenon, <1>4 DEF UnloadDisables, Disable
  <2>2. UNCHANGED <<file, latch, apply, registry, value, hotkey>>
    BY Zenon, <1>4 DEF UnloadDisables, Disable
  <2>3. ControlTypes' /\ Todo' /\ AutoTypes' /\ PastTypes'
    BY Zenon, <2>1, DisableTypes
  <2> QED
    BY Zenon, <2>2, <2>3, SharedStays, RegistryStays DEF Types
<1>5. CASE UnloadReturns(t)
  <2>1. /\ past' = [past EXCEPT !.quiet = (inFlight = 0 /\ latch)] /\ Return(t) /\ UNCHANGED shared
    BY Zenon, <1>5 DEF UnloadReturns
  <2>2. (inFlight = 0 /\ latch) \in BOOLEAN
    BY Zenon
  <2>3. ASSUME NEW q \in BOOLEAN, past' = [past EXCEPT !.quiet = q] PROVE PastTypes'
    BY Zenon, <1>1, <2>3 DEF PastTypes, Past
  <2>4. PastTypes'
    BY Zenon, <2>1, <2>2, <2>3
  <2> QED
    BY Zenon, <2>1, <2>4, ReturnTypes, SharedStays, RegistryStays, AutoStays DEF Types, shared
<1> QED
  BY Zenon, <1>2, <1>3, <1>4, <1>5

\* The consumer's calls.
LEMMA CallTypes ==
  ASSUME Types, NEW t \in Threads,
         \/ \E p \in Paths : LoadBegins(t, p)
         \/ Reload(t) \/ EnablePath(t) \/ ReloadHotkey(t)
         \/ \E i \in Item : Bind(t, i)
         \/ \E l, n \in BOOLEAN : UnloadBegins(t, l, n)
  PROVE  Types'
<1>1. /\ local[t] \in Local /\ bg \in [Background -> Bg] /\ past \in Past /\ hotkey \in Hotkey
      /\ registry \in Registry /\ registry.path \in Paths \cup {None} /\ registry.items \in Seq(Item)
      /\ Servicer \in Background /\ auto \in Slot
  BY Zenon, Apart, RegistryFields
     DEF Types, ControlTypes, AutoTypes, PastTypes, SharedTypes, RegistryTypes
<1>2. ASSUME NEW p \in Paths, LoadBegins(t, p) PROVE Types'
  <2>1. /\ latch' = FALSE /\ past' = [past EXCEPT !.quiet = FALSE]
        /\ local' = [local EXCEPT ![t] = [local[t] EXCEPT !.path = p]] /\ pc' = [pc EXCEPT ![t] = "load"]
        /\ UNCHANGED <<file, apply, registry, value, auto, hotkey, bg>>
    BY Zenon, <1>2 DEF LoadBegins, Goto
  <2>2. [local[t] EXCEPT !.path = p] \in Local
    BY Zenon, <1>1 DEF Local
  <2>3. ControlTypes' /\ Todo'
    BY Zenon, <2>1, <2>2, PcLocal DEF Types
  <2>4. PastTypes'
    BY Zenon, <1>1, <2>1 DEF PastTypes, Past
  <2>5. SharedTypes'
    BY Zenon, <2>1 DEF Types, SharedTypes
  <2> QED
    BY Zenon, <2>1, <2>3, <2>4, <2>5, RegistryStays, AutoStays DEF Types
<1>3. CASE Reload(t)
  <2>1. pc' = [pc EXCEPT ![t] = "pass"] /\ UNCHANGED <<shared, local, past>>
    BY Zenon, <1>3 DEF Reload, Goto
  <2>2. ControlTypes' /\ Todo'
    BY Zenon, <2>1, PcOnly DEF Types
  <2> QED
    BY Zenon, <2>1, <2>2, SharedStays, RegistryStays, AutoStays, PastStays DEF Types, shared
<1>4. CASE EnablePath(t)
  <2>1. UNCHANGED <<shared, past>>
    BY Zenon, <1>4 DEF EnablePath
  <2>2. ControlTypes' /\ Todo'
    <3>1. CASE registry.path = None
      BY Zenon, <1>4, <3>1, ReturnTypes DEF EnablePath, Types
    <3>2. CASE registry.path # None
      <4>1. /\ local' = [local EXCEPT ![t] = [local[t] EXCEPT !.path = registry.path]]
            /\ pc' = [pc EXCEPT ![t] = "enable"]
        BY Zenon, <1>4, <3>2 DEF EnablePath, Goto
      <4>2. [local[t] EXCEPT !.path = registry.path] \in Local
        BY Zenon, <1>1 DEF Local
      <4> QED
        BY Zenon, <4>1, <4>2, PcLocal DEF Types
    <3> QED
      BY Zenon, <3>1, <3>2
  <2> QED
    BY Zenon, <2>1, <2>2, SharedStays, RegistryStays, AutoStays, PastStays DEF Types, shared
<1>5. CASE ReloadHotkey(t)
  <2>1. /\ hotkey' = [slot |-> TRUE, ref |-> TRUE, enabled |-> TRUE]
        /\ pc' = [pc EXCEPT ![t] = pc[t]]
        /\ UNCHANGED <<file, latch, apply, registry, value, auto, local, past>>
        /\ bg' = IF hotkey.slot THEN bg
                 ELSE [bg EXCEPT ![Servicer] =
                        [bg[Servicer] EXCEPT !.life = "runs", !.stop = FALSE, !.pending = FALSE]]
    BY Zenon, <1>5 DEF ReloadHotkey, Goto
  <2>2. [bg[Servicer] EXCEPT !.life = "runs", !.stop = FALSE, !.pending = FALSE] \in Bg
    BY Zenon, <1>1 DEF Bg, Life
  <2>3. bg' \in [Background -> Bg]
    BY Zenon, <1>1, <2>1, <2>2
  <2>4. AutoTypes'
    BY Zenon, <1>1, <2>1, <2>3 DEF AutoTypes
  <2>5. hotkey' \in Hotkey
    BY Zenon, <2>1 DEF Hotkey
  <2>6. SharedTypes'
    BY Zenon, <2>1, <2>5 DEF Types, SharedTypes
  <2>7. DOMAIN pc' = Threads /\ pc'[t] = pc[t] /\ Alone(t)
    BY Zenon, <2>1, PcMoves DEF Types, ControlTypes
  <2>8. ControlTypes' /\ Todo'
    BY Zenon, <2>1, <2>7 DEF Types, ControlTypes, Todo, Alone
  <2> QED
    BY Zenon, <2>1, <2>4, <2>6, <2>8, RegistryStays, PastStays DEF Types
<1>6. ASSUME NEW i \in Item, Bind(t, i) PROVE Types'
  <2>1. /\ \/ registry' = [registry EXCEPT !.items = registry.items]
           \/ registry' = [registry EXCEPT !.items = Append(registry.items, i)]
        /\ past' = [past EXCEPT !.fresh = past.fresh \cup {i}]
        /\ local' = [local EXCEPT ![t] = [local[t] EXCEPT !.todo = <<i>>]]
        /\ pc' = [pc EXCEPT ![t] = "bind"]
        /\ UNCHANGED <<file, latch, apply, value, auto, hotkey, bg>>
    BY Zenon, <1>6 DEF Bind, Goto
  <2>2. Append(registry.items, i) \in Seq(Item) /\ <<i>> \in Seq(Item) /\ <<i>> # <<>>
    BY SMT, <1>1
  <2>3. RegistryTypes'
    BY Zenon, <1>1, <2>1, <2>2 DEF RegistryTypes, Registry
  <2>4. PastTypes'
    BY Zenon, <2>1, PastTypesMove DEF Types, PastTypes
  <2>5. [local[t] EXCEPT !.todo = <<i>>] \in Local /\ [local[t] EXCEPT !.todo = <<i>>].todo = <<i>>
    BY Zenon, <1>1, <2>2 DEF Local
  <2>6. ControlTypes' /\ Todo'
    BY Zenon, <2>1, <2>2, <2>5, PcLocal DEF Types
  <2> QED
    BY Zenon, <2>1, <2>3, <2>4, <2>6, SharedStays, AutoStays DEF Types
<1>7. ASSUME NEW l \in BOOLEAN, NEW n \in BOOLEAN, UnloadBegins(t, l, n) PROVE Types'
  <2>1. /\ hotkey' = IF n THEN [hotkey EXCEPT !.ref = FALSE, !.enabled = FALSE] ELSE hotkey
        /\ latch' = TRUE /\ pc' = [pc EXCEPT ![t] = "unload"]
        /\ local' = [local EXCEPT ![t] = [local[t] EXCEPT !.unloading = TRUE, !.loaderLock = l]]
        /\ UNCHANGED <<file, apply, registry, value, auto, bg, past>>
    BY Zenon, <1>7 DEF UnloadBegins, Goto
  <2>2. hotkey' \in Hotkey
    BY Zenon, <1>1, <2>1 DEF Hotkey
  <2>3. SharedTypes'
    BY Zenon, <2>1, <2>2 DEF Types, SharedTypes
  <2>4. [local[t] EXCEPT !.unloading = TRUE, !.loaderLock = l] \in Local
    BY Zenon, <1>1 DEF Local
  <2>5. ControlTypes' /\ Todo'
    BY Zenon, <2>1, <2>4, PcLocal DEF Types
  <2> QED
    BY Zenon, <2>1, <2>3, <2>5, RegistryStays, AutoStays, PastStays DEF Types
<1> QED
  BY Zenon, <1>2, <1>3, <1>4, <1>5, <1>6, <1>7

\* The saves.
LEMMA SaveTypes ==
  ASSUME Types, NEW p \in Paths, BeginSave(p) \/ EndSave(p)
  PROVE  Types'
<1>1. /\ file \in [Paths -> [data : Nat, locked : BOOLEAN]] /\ bg \in [Background -> Bg] /\ auto \in Slot
      /\ Contents \subseteq Nat
  BY Zenon, ConfigAssumption DEF Types, SharedTypes, AutoTypes
<1>2. UNCHANGED <<latch, apply, registry, value, auto, hotkey, pc, local, past>>
  BY Zenon DEF BeginSave, EndSave
<1>3. file' \in [Paths -> [data : Nat, locked : BOOLEAN]]
  <2>1. CASE BeginSave(p)
    <3>1. file' = [file EXCEPT ![p] = [file[p] EXCEPT !.locked = TRUE]]
      BY Zenon, <2>1 DEF BeginSave
    <3>2. [file[p] EXCEPT !.locked = TRUE] \in [data : Nat, locked : BOOLEAN]
      BY Zenon, <1>1
    <3> QED
      BY Zenon, <1>1, <3>1, <3>2
  <2>2. CASE EndSave(p)
    <3>1. PICK c \in Contents : file' = [file EXCEPT ![p] = [data |-> c, locked |-> FALSE]]
      BY Zenon, <2>2 DEF EndSave
    <3>2. [data |-> c, locked |-> FALSE] \in [data : Nat, locked : BOOLEAN]
      BY Zenon, <1>1
    <3> QED
      BY Zenon, <1>1, <3>1, <3>2
  <2> QED
    BY Zenon, <2>1, <2>2
<1>4. bg' \in [Background -> Bg]
  <2>1. CASE BeginSave(p)
    BY Zenon, <1>1, <2>1 DEF BeginSave
  <2>2. CASE EndSave(p)
    <3>1. ASSUME NEW b \in Background PROVE [bg[b] EXCEPT !.pending = TRUE] \in Bg
      BY Zenon, <1>1 DEF Bg
    <3>2. bg' = [b \in Background |->
                   IF bg[b].path = p /\ bg[b].life = "runs" /\ ~ bg[b].stop
                   THEN [bg[b] EXCEPT !.pending = TRUE] ELSE bg[b]]
      BY Zenon, <2>2 DEF EndSave
    <3> QED
      BY Zenon, <1>1, <3>1, <3>2
  <2> QED
    BY Zenon, <2>1, <2>2
<1>5. SharedTypes' /\ AutoTypes'
  BY Zenon, <1>1, <1>2, <1>3, <1>4 DEF Types, SharedTypes, AutoTypes
<1>6. ControlTypes' /\ Todo'
  BY Zenon, <1>2 DEF Types, ControlTypes, Todo
<1> QED
  BY Zenon, <1>2, <1>5, <1>6, RegistryStays, PastStays DEF Types

\* The kinds of steps, for the lemmas that follow.
Guarding(b)  == GuardCheck(b) \/ GuardEnter(b) \/ GuardRecheck(b) \/ GuardLeave(b)
Watching(b)  == Report(b) \/ CallbackReturns(b) \/ (b = Servicer /\ ServicerWakes)
Flagging(b)  == WatcherFires(b) \/ BgExits(b) \/ (b = Servicer /\ (ServicerDrains \/ Press))
Reloading(t) == ReloadNothing(t) \/ ReloadUnchanged(t) \/ ReloadParseFails(t) \/ ReloadCapture(t)
Setting(t)   == NextSetter(t) \/ RunSetter(t) \/ BindDefault(t)
Ending(t)    == Commit(t) \/ LoadCapture(t)
Repointing(t) ==
  LoadRepoint(t) \/ Join(t) \/ RepointPath(t) \/ LoadRestart(t) \/ \E cb \in BOOLEAN : EnableStart(t, cb)
Clearing(t)  == ClearRegistry(t) \/ ClearServicer(t) \/ UnloadDisables(t) \/ UnloadReturns(t) \/ Disable(t)
Calling(t) ==
  \/ \E p \in Paths : LoadBegins(t, p)
  \/ Reload(t) \/ EnablePath(t) \/ ReloadHotkey(t)
  \/ \E i \in Item : Bind(t, i)
  \/ \E l, n \in BOOLEAN : UnloadBegins(t, l, n)
Acting(t) == Reloading(t) \/ Setting(t) \/ Ending(t) \/ Repointing(t) \/ Clearing(t) \/ Calling(t)

\* Every step is a thread's, or a save.
LEMMA Kinds ==
  ASSUME Next
  PROVE  \/ \E b \in Background : Guarding(b) \/ Watching(b) \/ Flagging(b)
         \/ \E t \in Threads : Acting(t)
         \/ \E p \in Paths : BeginSave(p) \/ EndSave(p)
<1>1. CASE Press
  BY Zenon, <1>1, Apart DEF Flagging
<1>2. CASE \E b \in Background : BgStep(b)
  BY Zenon, <1>2 DEF BgStep, Guarding, Watching, Flagging
<1>3. ASSUME NEW t \in Threads, Step(t) PROVE Acting(t)
  BY Zenon, <1>3 DEF Step, Acting, Reloading, Setting, Ending, Repointing, Clearing
<1>4. ASSUME NEW t \in Apps \cup Watchers, Consumer(t) PROVE t \in Threads /\ Acting(t)
  BY Zenon, <1>4, Apart DEF Consumer, Acting, Calling, Clearing
<1> QED
  BY Zenon, <1>1, <1>2, <1>3, <1>4 DEF Next, Progress

\* Every step keeps the types.
LEMMA TypesStep ==
  ASSUME Types, [Next]_vars
  PROVE  Types'
<1>1. CASE UNCHANGED vars
  BY Zenon, <1>1 DEF vars, shared, Types, SharedTypes, RegistryTypes, AutoTypes, ControlTypes, PastTypes, Todo
<1>2. CASE \E b \in Background : Guarding(b) \/ Watching(b) \/ Flagging(b)
  BY Zenon, <1>2, GateTypes, FlagTypes DEF Guarding, Watching, Flagging
<1>3. CASE \E t \in Threads : Acting(t)
  BY Zenon, <1>3, ReloadTypes, SetterTypes, LoadTypes, RepointTypes, ClearTypes, CallTypes
     DEF Acting, Reloading, Setting, Ending, Repointing, Clearing, Calling
<1>4. CASE \E p \in Paths : BeginSave(p) \/ EndSave(p)
  BY Zenon, <1>4, SaveTypes
<1> QED
  BY Zenon, <1>1, <1>2, <1>3, <1>4, Kinds

-----------------------------------------------------------------------------
(* Who holds the pass lock, who is in flight, who is in load(). *)

\* What a step of t does to the pass lock: nothing, take it, or let it go.
Locks(t) ==
  \/ apply' = apply /\ (pc'[t] \in Passing <=> pc[t] \in Passing)
  \/ apply = None /\ apply' = t /\ pc'[t] \in Passing
  \/ apply' = None /\ pc[t] \in Passing /\ pc'[t] \notin Passing

\* A background thread does this only inside the gate, and stays inside.
Inside(t) == t \in Background => pc[t] \notin Held /\ pc'[t] \notin Outside

\* A step of a call or of a pass.
Moves(t) ==
  Alone(t) /\ Private(t) /\ inFlight' = inFlight /\ Locks(t) /\ Inside(t) /\ Loaded(t)'

\* Where a call that returns ends.
LEMMA ReturnMoves ==
  ASSUME ControlTypes, NEW t \in Threads, Return(t)
  PROVE  /\ Alone(t) /\ Private(t) /\ pc'[t] \in {"idle", "leave"} /\ Loaded(t)'
         /\ t \in Background => pc'[t] = "leave"
<1>1. PICK to \in {"idle", "leave"} : pc' = [pc EXCEPT ![t] = to] /\ (t \in Background => to = "leave")
  BY Zenon, Apart DEF Return, Goto
<1>2. Alone(t) /\ pc'[t] = to
  BY Zenon, <1>1, PcMoves DEF ControlTypes
<1>3. Private(t) /\ local'[t] = Blank
  BY Zenon, LocalMoves DEF ControlTypes, Return
<1>4. Loaded(t)'
  BY Zenon, <1>1, <1>2, <1>3, BlankType DEF Loaded, Repointed
<1> QED
  BY Zenon, <1>1, <1>2, <1>3, <1>4

\* Where a reload that ends goes.
LEMMA EndMoves ==
  ASSUME ControlTypes, NEW t \in Threads, EndReload(t)
  PROVE  /\ Alone(t) /\ Private(t) /\ pc'[t] \in {"idle", "report", "leave"} /\ Loaded(t)'
         /\ apply' = None /\ (t \in Background => pc'[t] \in {"report", "leave"})
<1>1. PICK to \in {"idle", "report", "leave"} : pc' = [pc EXCEPT ![t] = to]
  BY Zenon, EndReloadMoves
<1>2. Alone(t) /\ pc'[t] = to
  BY Zenon, <1>1, PcMoves DEF ControlTypes
<1>3. Private(t) /\ local'[t] = Blank
  BY Zenon, LocalMoves DEF ControlTypes, EndReload
<1>4. t \in Background => to \in {"report", "leave"}
  <2>1. CASE t \notin Apps /\ t \in Watchers
    <3>1. pc' = [pc EXCEPT ![t] = "report"]
      BY SMT, <2>1 DEF EndReload, Goto
    <3> QED
      BY Zenon, <1>2, <3>1, PcMoves DEF ControlTypes
  <2>2. CASE t \notin Apps /\ t \notin Watchers
    <3>1. pc' = [pc EXCEPT ![t] = "leave"]
      BY SMT, <2>2 DEF EndReload, Goto
    <3> QED
      BY Zenon, <1>2, <3>1, PcMoves DEF ControlTypes
  <2> QED
    BY Zenon, <2>1, <2>2, Apart
<1>5. Loaded(t)'
  BY Zenon, <1>1, <1>2, <1>3, BlankType DEF Loaded, Repointed
<1> QED
  BY Zenon, <1>1, <1>2, <1>3, <1>4, <1>5 DEF EndReload

\* Where a call begins.
LEMMA CalledFrom ==
  ASSUME NEW t \in Threads, NEW op, Called(t, op)
  PROVE  pc[t] \in {"idle", "callback"} /\ (t \in Background => pc[t] = "callback")
  BY Zenon, Apart DEF Called, At

\* The field that says whether a load() is under way outlives the updates of others.
LEMMA LoadingStays ==
  ASSUME NEW l \in Local, NEW x, NEW y
  PROVE  /\ [l EXCEPT !.path = x].loading = l.loading /\ [l EXCEPT !.thread = x].loading = l.loading
         /\ [l EXCEPT !.todo = x].loading = l.loading
         /\ [l EXCEPT !.unloading = x, !.loaderLock = y].loading = l.loading
         /\ [l EXCEPT !.todo = x, !.ok = y].loading = l.loading
         /\ [l EXCEPT !.thread = x, !.generation = y].loading = l.loading
  BY Zenon DEF Local

\* Reloads.
LEMMA ReloadMoves ==
  ASSUME Types, Loads, NEW t \in Threads, Reloading(t)
  PROVE  Moves(t)
<1>1. pc[t] = "pass" /\ apply = None /\ inFlight' = inFlight
  BY Zenon DEF Reloading, ReloadNothing, ReloadUnchanged, ReloadParseFails, ReloadCapture, At
<1>2. CASE EndReload(t)
  BY Zenon, <1>1, <1>2, EndMoves DEF Types, Moves, Locks, Inside, Passing, Held, Outside
<1>3. CASE ReloadCapture(t)
  <2>1. Capture(t, registry.path, Current, Current, FALSE) /\ Readable(registry.path)
    BY Zenon, <1>3 DEF ReloadCapture
  <2>2. registry.path \in Paths \cup {None}
    BY Zenon, RegistryFields DEF Types, RegistryTypes
  <2>3. Current \in Nat
    BY Zenon, <2>1, <2>2, ReadableData DEF Current, Types
  <2>4. apply' = t /\ pc' = [pc EXCEPT ![t] = "setters"] /\ Private(t)
    BY Zenon, <2>1, <2>2, <2>3, CaptureTypes DEF Types, Captured
  <2>5. pc'[t] = "setters" /\ Alone(t)
    BY Zenon, <2>4, PcMoves DEF Types, ControlTypes
  <2>6. Loaded(t)'
    BY Zenon, <2>5 DEF Loaded, Loading, Passing, Repointed
  <2> QED
    BY Zenon, <1>1, <2>4, <2>5, <2>6 DEF Moves, Locks, Inside, Passing, Held, Outside
<1> QED
  BY Zenon, <1>2, <1>3 DEF Reloading, ReloadNothing, ReloadUnchanged, ReloadParseFails

\* Setters.
LEMMA SetterMoves ==
  ASSUME Types, Loads, NEW t \in Threads, Setting(t)
  PROVE  Moves(t)
<1>1. DOMAIN pc = Threads /\ local \in [Threads -> Local] /\ ControlTypes
  BY Zenon DEF Types, ControlTypes
<1>2. inFlight' = inFlight /\ apply' = apply
  BY Zenon DEF Setting, NextSetter, RunSetter, BindDefault, shared
<1>3. CASE NextSetter(t) \/ RunSetter(t)
  <2>1. pc[t] \in {"setters", "setter"} /\ pc'[t] \in {"setters", "setter"} /\ Alone(t)
    <3>1. pc[t] \in {"setters", "setter"}
      BY Zenon, <1>3 DEF NextSetter, RunSetter, At
    <3>2. CASE pc' = pc
      BY Zenon, <3>1, <3>2 DEF Alone
    <3>3. CASE pc' # pc
      <4>1. PICK to \in {"setters", "setter"} : pc' = [pc EXCEPT ![t] = to]
        BY Zenon, <1>3, <3>3 DEF NextSetter, RunSetter, Goto
      <4> QED
        BY Zenon, <1>1, <3>1, <4>1, PcMoves
    <3> QED
      BY Zenon, <3>2, <3>3
  <2>2. Private(t)
    <3>1. CASE local' = local
      BY Zenon, <3>1 DEF Private
    <3>2. CASE local' # local
      <4>1. PICK l : local' = [local EXCEPT ![t] = l]
        BY Zenon, <1>3, <3>2 DEF NextSetter, RunSetter
      <4> QED
        BY Zenon, <1>1, <4>1, LocalMoves
    <3> QED
      BY Zenon, <3>1, <3>2
  <2>3. Loaded(t)'
    BY Zenon, <2>1 DEF Loaded, Loading, Passing, Repointed
  <2> QED
    BY Zenon, <1>2, <2>1, <2>2, <2>3 DEF Moves, Locks, Inside, Passing, Held, Outside
<1>4. CASE BindDefault(t)
  <2>1. Return(t) /\ pc[t] = "bind"
    BY Zenon, <1>4 DEF BindDefault, At
  <2> QED
    BY Zenon, <1>1, <1>2, <2>1, ReturnMoves DEF Moves, Locks, Inside, Passing, Held, Outside
<1> QED
  BY Zenon, <1>3, <1>4 DEF Setting

\* The end of a pass and the begin of that of load().
LEMMA EndingMoves ==
  ASSUME Types, Loads, NEW t \in Threads, Ending(t)
  PROVE  Moves(t)
<1>1. DOMAIN pc = Threads /\ local \in [Threads -> Local] /\ ControlTypes
  BY Zenon DEF Types, ControlTypes
<1>2. inFlight' = inFlight
  BY Zenon DEF Ending, Commit, LoadCapture
<1>3. CASE Commit(t)
  <2>1. pc[t] = "setters"
    BY Zenon, <1>3 DEF Commit, At
  <2>2. CASE local[t].loading
    <3>1. pc' = [pc EXCEPT ![t] = "repoint"] /\ apply' = apply /\ local' = local
      BY Zenon, <1>3, <2>2 DEF Commit, Goto
    <3>2. pc'[t] = "repoint" /\ Alone(t) /\ Private(t)
      BY Zenon, <1>1, <3>1, PcMoves DEF Private
    <3>3. Loaded(t)'
      BY Zenon, <2>2, <3>1, <3>2 DEF Loaded, Loading, Passing
    <3> QED
      BY Zenon, <1>2, <2>1, <3>1, <3>2, <3>3 DEF Moves, Locks, Inside, Passing, Held, Outside
  <2>3. CASE ~ local[t].loading
    <3>1. EndReload(t)
      BY Zenon, <1>3, <2>3 DEF Commit
    <3> QED
      BY Zenon, <1>1, <1>2, <2>1, <3>1, EndMoves DEF Moves, Locks, Inside, Passing, Held, Outside
  <2> QED
    BY Zenon, <2>2, <2>3
<1>4. CASE LoadCapture(t)
  <2>1. pc[t] = "load" /\ apply = None
    BY Zenon, <1>4 DEF LoadCapture, At
  <2>2. PICK p, d, c : Capture(t, p, d, c, TRUE)
    BY Zenon, <1>4 DEF LoadCapture
  <2>3. apply' = t /\ pc' = [pc EXCEPT ![t] = "setters"]
        /\ \E l : local' = [local EXCEPT ![t] = l]
    BY Zenon, <2>2 DEF Capture, Goto
  <2>4. Private(t) /\ Alone(t) /\ pc'[t] = "setters"
    BY Zenon, <1>1, <2>3, PcMoves, LocalMoves
  <2>5. Loaded(t)'
    BY Zenon, <2>4 DEF Loaded, Loading, Passing, Repointed
  <2> QED
    BY Zenon, <1>2, <2>1, <2>3, <2>4, <2>5 DEF Moves, Locks, Inside, Passing, Held, Outside
<1> QED
  BY Zenon, <1>3, <1>4 DEF Ending

\* A step that neither takes nor lets go of the pass lock and does not return.
LEMMA PlainMoves ==
  ASSUME ControlTypes, NEW t \in Threads, NEW to, NEW l, pc' = [pc EXCEPT ![t] = to],
         local' = [local EXCEPT ![t] = l], UNCHANGED <<inFlight, apply>>,
         pc[t] \notin Held \cup Passing \/ (t \notin Background /\ pc[t] = "idle"),
         to \notin Outside \cup Passing,
         l.loading => to \in Loading, to \in Repointed => l.loading
  PROVE  Moves(t)
<1>1. pc'[t] = to /\ Alone(t) /\ local'[t] = l /\ Private(t)
  BY Zenon, PcMoves, LocalMoves DEF ControlTypes
<1>2. Loaded(t)' /\ Inside(t)
  BY Zenon, <1>1 DEF Loaded, Inside
<1>3. pc[t] \notin Passing
  BY Zenon DEF Passing
<1> QED
  BY Zenon, <1>1, <1>2, <1>3 DEF Moves, Locks

\* One that returns.
LEMMA ReturningMoves ==
  ASSUME ControlTypes, NEW t \in Threads, Return(t), UNCHANGED <<inFlight, apply>>,
         pc[t] \notin Held \cup Passing \/ (t \notin Background /\ pc[t] = "idle")
  PROVE  Moves(t)
<1>1. pc[t] \notin Passing
  BY Zenon DEF Passing
<1> QED
  BY Zenon, <1>1, ReturnMoves DEF Moves, Locks, Inside, Passing, Outside

\* load() after its pass, and enable_auto_reload().
LEMMA RepointMoves ==
  ASSUME Types, Loads, NEW t \in Threads, Repointing(t)
  PROVE  Moves(t)
<1>1. ControlTypes /\ local[t] \in Local /\ Loaded(t)
  BY Zenon DEF Types, ControlTypes, Loads
<1>2. inFlight' = inFlight
  BY Zenon DEF Repointing, LoadRepoint, Join, RepointPath, LoadRestart, EnableStart, shared
<1>3. CASE LoadRepoint(t)
  <2>1. pc[t] = "repoint" /\ apply' = None
    BY Zenon, <1>3 DEF LoadRepoint, At
  <2>2. CASE Return(t)
    BY Zenon, <1>1, <1>2, <2>1, <2>2, ReturnMoves DEF Moves, Locks, Inside, Passing, Held, Outside
  <2>3. CASE Goto(t, "join") /\ \E l : local' = [local EXCEPT ![t] = l]
    <3>1. Private(t) /\ Alone(t) /\ pc'[t] = "join"
      BY Zenon, <1>1, <2>3, PcMoves, LocalMoves DEF Goto, ControlTypes
    <3>2. Loaded(t)'
      BY Zenon, <3>1 DEF Loaded, Loading, Repointed
    <3> QED
      BY Zenon, <1>2, <2>1, <3>1, <3>2 DEF Moves, Locks, Inside, Passing, Held, Outside
  <2> QED
    BY Zenon, <1>3, <2>2, <2>3 DEF LoadRepoint
<1>4. CASE Join(t)
  <2>1. pc[t] = "join" /\ apply' = apply
    BY Zenon, <1>4 DEF Join, At, shared
  <2>2. pc[t] \notin Held \cup Passing
    BY Zenon, <2>1 DEF Held, Outside, Passing
  <2>3. [local[t] EXCEPT !.thread = None].loading = local[t].loading
    BY Zenon, <1>1, LoadingStays
  <2>4. CASE local[t].loading
    <3>1. pc' = [pc EXCEPT ![t] = "snapshot"] /\ local' = [local EXCEPT ![t] = [local[t] EXCEPT !.thread = None]]
      BY Zenon, <1>4, <2>4 DEF Join, Goto
    <3>2. "snapshot" \notin Outside \cup Passing /\ "snapshot" \in Loading
      BY Zenon DEF Outside, Passing, Loading
    <3> QED
      BY Zenon, <1>1, <1>2, <2>1, <2>2, <2>3, <2>4, <3>1, <3>2, PlainMoves
  <2>5. CASE ~ local[t].loading /\ local[t].unloading
    <3>1. PICK to \in {"await", "clear"} :
            pc' = [pc EXCEPT ![t] = to] /\ local' = [local EXCEPT ![t] = [local[t] EXCEPT !.thread = None]]
      BY Zenon, <1>4, <2>5 DEF Join, Goto
    <3>2. to \notin Outside \cup Passing /\ to \notin Repointed
      BY Zenon DEF Outside, Passing, Repointed
    <3> QED
      BY Zenon, <1>1, <1>2, <2>1, <2>2, <2>3, <2>5, <3>1, <3>2, PlainMoves
  <2>6. CASE ~ local[t].loading /\ ~ local[t].unloading
    BY Zenon, <1>1, <1>2, <1>4, <2>1, <2>2, <2>6, ReturningMoves DEF Join
  <2> QED
    BY Zenon, <2>4, <2>5, <2>6
<1>5. CASE RepointPath(t)
  <2>1. /\ local' = [local EXCEPT ![t] = [local[t] EXCEPT !.path = registry.path]] /\ apply' = apply
        /\ pc' = [pc EXCEPT ![t] = "restart"] /\ pc[t] = "snapshot"
    BY Zenon, <1>5 DEF RepointPath, Goto, At, shared
  <2>2. [local[t] EXCEPT !.path = registry.path].loading = local[t].loading
    BY Zenon, <1>1, LoadingStays
  <2>3. local[t].loading /\ pc[t] \notin Held \cup Passing
    BY Zenon, <1>1, <2>1 DEF Loaded, Repointed, Held, Outside, Passing
  <2>4. "restart" \notin Outside \cup Passing /\ "restart" \in Loading
    BY Zenon DEF Outside, Passing, Loading
  <2> QED
    BY Zenon, <1>1, <1>2, <2>1, <2>2, <2>3, <2>4, PlainMoves
<1>6. CASE LoadRestart(t) \/ \E cb \in BOOLEAN : EnableStart(t, cb)
  <2>1. pc[t] \in {"restart", "enable"} /\ Return(t) /\ apply' = apply
    BY Zenon, <1>6 DEF LoadRestart, EnableStart, At
  <2>2. pc[t] \notin Held \cup Passing
    BY Zenon, <2>1 DEF Held, Outside, Passing
  <2> QED
    BY Zenon, <1>1, <1>2, <2>1, <2>2, ReturningMoves
<1> QED
  BY Zenon, <1>3, <1>4, <1>5, <1>6 DEF Repointing

\* Where a thread may be when it calls or unloads.
LEMMA CallPlace ==
  ASSUME Types, Loads, NEW t \in Threads,
         \/ \E op \in {"load", "reload", "enable", "disable", "hotkey", "bind", "clear", "unload"} : Called(t, op)
         \/ pc[t] \in {"clear", "clear_servicer", "unload", "await"}
  PROVE  /\ pc[t] \notin Held \cup Passing \/ (t \notin Background /\ pc[t] = "idle")
         /\ ~ local[t].loading /\ pc[t] \notin Repointed /\ pc[t] \notin Passing
         /\ t \in Background => pc[t] \notin Held
<1>1. \/ pc[t] \in {"idle", "callback"} /\ (t \in Background => pc[t] = "callback")
      \/ pc[t] \in {"clear", "clear_servicer", "unload", "await"}
  BY Zenon, CalledFrom
<1>2. pc[t] \notin Loading /\ pc[t] \notin Repointed /\ pc[t] \notin Passing
  BY Zenon, <1>1 DEF Loading, Passing, Repointed
<1> QED
  BY Zenon, <1>1, <1>2 DEF Loads, Loaded, Held, Outside, Passing

\* disable_auto_reload() returns, goes on with the unload, or joins.
LEMMA DisableMoves ==
  ASSUME ControlTypes, NEW t \in Threads, NEW next \in {"idle", "clear"}, DisableAutoReload(t, next),
         UNCHANGED <<inFlight, apply>>, ~ local[t].loading,
         pc[t] \notin Held \cup Passing \/ (t \notin Background /\ pc[t] = "idle")
  PROVE  Moves(t)
<1>1. ASSUME IF next = "idle" THEN Return(t) ELSE Goto(t, next) /\ UNCHANGED local
      PROVE  Moves(t)
  <2>1. CASE next = "idle"
    BY Zenon, <1>1, <2>1, ReturningMoves
  <2>2. CASE next = "clear"
    <3>1. pc' = [pc EXCEPT ![t] = "clear"] /\ local' = local
      BY Zenon, <1>1, <2>2 DEF Goto
    <3>2. pc'[t] = "clear" /\ Alone(t) /\ Private(t) /\ ~ local'[t].loading
      BY Zenon, <3>1, PcMoves DEF ControlTypes, Private
    <3>3. pc[t] \notin Passing
      BY Zenon DEF Passing
    <3> QED
      BY Zenon, <3>2, <3>3 DEF Moves, Locks, Inside, Loaded, Passing, Outside, Repointed
  <2> QED
    BY Zenon, <2>1, <2>2
<1>2. CASE Goto(t, "join") /\ local' = [local EXCEPT ![t].thread = auto.watcher]
  <2>1. pc' = [pc EXCEPT ![t] = "join"] /\ local' = [local EXCEPT ![t] = [local[t] EXCEPT !.thread = auto.watcher]]
    BY Zenon, <1>2 DEF Goto
  <2>2. ~ [local[t] EXCEPT !.thread = auto.watcher].loading
    <3>1. local[t] \in Local
      BY Zenon DEF ControlTypes
    <3>2. [local[t] EXCEPT !.thread = auto.watcher].loading = local[t].loading
      BY Zenon, <3>1, LoadingStays
    <3> QED
      BY Zenon, <3>2
  <2>3. "join" \notin Outside \cup Passing /\ "join" \notin Repointed
    BY Zenon DEF Outside, Passing, Repointed
  <2> QED
    BY Zenon, <2>1, <2>2, <2>3, PlainMoves
<1> QED
  BY Zenon, <1>1, <1>2 DEF DisableAutoReload

\* clear() and the unload.
LEMMA ClearMoves ==
  ASSUME Types, Loads, NEW t \in Threads, Clearing(t)
  PROVE  Moves(t)
<1>1. ControlTypes /\ local[t] \in Local
  BY Zenon DEF Types, ControlTypes
<1>2. UNCHANGED <<inFlight, apply>>
  BY Zenon DEF Clearing, ClearRegistry, ClearServicer, UnloadDisables, UnloadReturns, Disable, shared
<1>3. \/ \E op \in {"load", "reload", "enable", "disable", "hotkey", "bind", "clear", "unload"} : Called(t, op)
      \/ pc[t] \in {"clear", "clear_servicer", "unload", "await"}
  BY Zenon DEF Clearing, ClearRegistry, ClearServicer, UnloadDisables, UnloadReturns, Disable, At
<1>4. /\ pc[t] \notin Held \cup Passing \/ (t \notin Background /\ pc[t] = "idle")
      /\ ~ local[t].loading /\ pc[t] \notin Passing /\ (t \in Background => pc[t] \notin Held)
  BY Zenon, <1>3, CallPlace
<1>5. ASSUME NEW to \in {"clear_servicer", "await"}, pc' = [pc EXCEPT ![t] = to], local' = local
      PROVE  Moves(t)
  <2>1. pc'[t] = to /\ Alone(t) /\ Private(t) /\ ~ local'[t].loading
    BY Zenon, <1>1, <1>4, <1>5, PcMoves DEF ControlTypes, Private
  <2> QED
    BY Zenon, <1>2, <1>4, <2>1 DEF Moves, Locks, Inside, Loaded, Passing, Outside, Repointed
<1>6. CASE ClearRegistry(t)
  BY Zenon, <1>5, <1>6 DEF ClearRegistry, Goto
<1>7. CASE ClearServicer(t)
  <2>1. CASE Goto(t, "join") /\ local' = [local EXCEPT ![t].thread = Servicer]
    <3>1. pc' = [pc EXCEPT ![t] = "join"] /\ local' = [local EXCEPT ![t] = [local[t] EXCEPT !.thread = Servicer]]
      BY Zenon, <2>1 DEF Goto
    <3>2. ~ [local[t] EXCEPT !.thread = Servicer].loading
      BY Zenon, <1>1, <1>4, LoadingStays
    <3>3. "join" \notin Outside \cup Passing /\ "join" \notin Repointed
      BY Zenon DEF Outside, Passing, Repointed
    <3> QED
      BY Zenon, <1>1, <1>2, <1>4, <3>1, <3>2, <3>3, PlainMoves
  <2>2. CASE Goto(t, "await") /\ UNCHANGED local
    BY Zenon, <1>5, <2>2 DEF Goto
  <2>3. CASE Return(t)
    BY Zenon, <1>1, <1>2, <1>4, <2>3, ReturningMoves
  <2> QED
    BY Zenon, <1>7, <2>1, <2>2, <2>3 DEF ClearServicer
<1>8. CASE UnloadDisables(t) \/ Disable(t)
  <2>1. PICK next \in {"idle", "clear"} : DisableAutoReload(t, next)
    BY Zenon, <1>8 DEF UnloadDisables, Disable
  <2> QED
    BY Zenon, <1>1, <1>2, <1>4, <2>1, DisableMoves
<1>9. CASE UnloadReturns(t)
  <2>1. Return(t)
    BY Zenon, <1>9 DEF UnloadReturns
  <2> QED
    BY Zenon, <1>1, <1>2, <1>4, <2>1, ReturningMoves
<1> QED
  BY Zenon, <1>6, <1>7, <1>8, <1>9 DEF Clearing

\* The consumer's calls.
LEMMA CallMoves ==
  ASSUME Types, Loads, NEW t \in Threads, Calling(t)
  PROVE  Moves(t)
<1>1. ControlTypes /\ local[t] \in Local /\ DOMAIN pc = Threads /\ local \in [Threads -> Local]
  BY Zenon DEF Types, ControlTypes
<1>2. UNCHANGED <<inFlight, apply>>
  BY Zenon DEF Calling, LoadBegins, Reload, EnablePath, ReloadHotkey, Bind, UnloadBegins, shared
<1>3. \E op \in {"load", "reload", "enable", "disable", "hotkey", "bind", "clear", "unload"} : Called(t, op)
  BY Zenon DEF Calling, LoadBegins, Reload, EnablePath, ReloadHotkey, Bind, UnloadBegins
<1>4. /\ pc[t] \notin Held \cup Passing \/ (t \notin Background /\ pc[t] = "idle")
      /\ ~ local[t].loading /\ pc[t] \notin Passing /\ (t \in Background => pc[t] \notin Held)
      /\ pc[t] \notin Repointed
  BY Zenon, <1>3, CallPlace
<1>5. ASSUME NEW to \in {"load", "enable", "bind", "unload"}, NEW l, ~ l.loading,
             pc' = [pc EXCEPT ![t] = to], local' = [local EXCEPT ![t] = l]
      PROVE  Moves(t)
  <2>1. to \notin Outside \cup Passing /\ to \notin Repointed
    BY Zenon DEF Outside, Passing, Repointed
  <2> QED
    BY Zenon, <1>1, <1>2, <1>4, <1>5, <2>1, PlainMoves
<1>6. ASSUME NEW x, NEW y PROVE
        /\ ~ [local[t] EXCEPT !.path = x].loading /\ ~ [local[t] EXCEPT !.todo = x].loading
        /\ ~ [local[t] EXCEPT !.unloading = x, !.loaderLock = y].loading
  <2>1. [local[t] EXCEPT !.path = x].loading = local[t].loading
    BY Zenon, <1>1 DEF Local
  <2>2. [local[t] EXCEPT !.todo = x].loading = local[t].loading
    BY Zenon, <1>1 DEF Local
  <2>3. [local[t] EXCEPT !.unloading = x, !.loaderLock = y].loading = local[t].loading
    BY Zenon, <1>1 DEF Local
  <2> QED
    BY Zenon, <1>4, <2>1, <2>2, <2>3
<1>7. ASSUME NEW p \in Paths, LoadBegins(t, p) PROVE Moves(t)
  <2>1. local' = [local EXCEPT ![t] = [local[t] EXCEPT !.path = p]] /\ pc' = [pc EXCEPT ![t] = "load"]
    BY Zenon, <1>7 DEF LoadBegins, Goto
  <2> QED
    BY Zenon, <1>5, <1>6, <2>1
<1>8. CASE Reload(t)
  <2>1. pc' = [pc EXCEPT ![t] = "pass"] /\ local' = local
    BY Zenon, <1>8 DEF Reload, Goto
  <2>2. pc'[t] = "pass" /\ Alone(t) /\ Private(t) /\ ~ local'[t].loading
    BY Zenon, <1>1, <1>4, <2>1, PcMoves DEF Private
  <2> QED
    BY Zenon, <1>2, <1>4, <2>2 DEF Moves, Locks, Inside, Loaded, Passing, Outside, Repointed
<1>9. CASE EnablePath(t)
  <2>1. CASE registry.path = None
    BY Zenon, <1>1, <1>2, <1>4, <1>9, <2>1, ReturningMoves DEF EnablePath
  <2>2. CASE registry.path # None
    <3>1. /\ local' = [local EXCEPT ![t] = [local[t] EXCEPT !.path = registry.path]]
          /\ pc' = [pc EXCEPT ![t] = "enable"]
      BY Zenon, <1>9, <2>2 DEF EnablePath, Goto
    <3> QED
      BY Zenon, <1>5, <1>6, <3>1
  <2> QED
    BY Zenon, <2>1, <2>2
<1>10. CASE ReloadHotkey(t)
  <2>1. pc' = [pc EXCEPT ![t] = pc[t]] /\ local' = local
    BY Zenon, <1>10 DEF ReloadHotkey, Goto
  <2>2. pc'[t] = pc[t] /\ Alone(t) /\ Private(t) /\ ~ local'[t].loading
    BY Zenon, <1>1, <1>4, <2>1, PcMoves DEF Private
  <2>3. t \in Background => pc'[t] \notin Outside
    BY Zenon, <1>4, <2>2 DEF Held
  <2> QED
    BY Zenon, <1>2, <1>4, <2>2, <2>3 DEF Moves, Locks, Inside, Loaded
<1>11. ASSUME NEW i \in Item, Bind(t, i) PROVE Moves(t)
  <2>1. local' = [local EXCEPT ![t] = [local[t] EXCEPT !.todo = <<i>>]] /\ pc' = [pc EXCEPT ![t] = "bind"]
    BY Zenon, <1>11 DEF Bind, Goto
  <2> QED
    BY Zenon, <1>5, <1>6, <2>1
<1>12. ASSUME NEW l \in BOOLEAN, NEW n \in BOOLEAN, UnloadBegins(t, l, n) PROVE Moves(t)
  <2>1. /\ local' = [local EXCEPT ![t] = [local[t] EXCEPT !.unloading = TRUE, !.loaderLock = l]]
        /\ pc' = [pc EXCEPT ![t] = "unload"]
    BY Zenon, <1>12 DEF UnloadBegins, Goto
  <2> QED
    BY Zenon, <1>5, <1>6, <2>1
<1> QED
  BY Zenon, <1>7, <1>8, <1>9, <1>10, <1>11, <1>12 DEF Calling

\* All of them.
LEMMA ActingMoves ==
  ASSUME Types, Loads, NEW t \in Threads, Acting(t)
  PROVE  Moves(t)
  BY Zenon, ReloadMoves, SetterMoves, EndingMoves, RepointMoves, ClearMoves, CallMoves DEF Acting

\* What the background threads do between passes.
GateMove(b) ==
  \/ pc[b] = "check" /\ pc'[b] = (IF latch THEN "idle" ELSE "enter") /\ inFlight' = inFlight
  \/ pc[b] = "enter" /\ pc'[b] = "recheck" /\ inFlight' = inFlight + 1
  \/ pc[b] = "recheck" /\ latch /\ pc'[b] = "idle" /\ inFlight' = inFlight - 1
  \/ pc[b] = "recheck" /\ ~ latch /\ pc'[b] = "pass" /\ inFlight' = inFlight
  \/ pc[b] = "leave" /\ pc'[b] \in {"drain", "idle"} /\ inFlight' = inFlight - 1
  \/ pc[b] \in {"report", "callback"} /\ pc'[b] \in {"callback", "leave"} /\ inFlight' = inFlight
  \/ pc[b] \in {"idle", "drain"} /\ pc'[b] \in {"idle", "drain", "check"} /\ inFlight' = inFlight
  \/ pc'[b] = pc[b] /\ inFlight' = inFlight

LEMMA BackgroundMoves ==
  ASSUME Types, NEW b \in Background, Guarding(b) \/ Watching(b) \/ Flagging(b)
  PROVE  /\ Alone(b) /\ GateMove(b)
         /\ UNCHANGED <<latch, apply, registry, value, auto, local, past>>
<1>1. b \in Threads /\ DOMAIN pc = Threads
  BY Zenon, Apart DEF Types, ControlTypes
<1>2. UNCHANGED <<latch, apply, registry, value, auto, local, past>>
  BY Zenon DEF Guarding, Watching, Flagging, GuardCheck, GuardEnter, GuardRecheck, GuardLeave, Report,
               CallbackReturns, ServicerWakes, WatcherFires, BgExits, ServicerDrains, Press, shared
<1>3. ASSUME NEW to, pc' = [pc EXCEPT ![b] = to] PROVE Alone(b) /\ pc'[b] = to
  BY Zenon, <1>1, <1>3, PcMoves
<1> USE DEF At, Goto
<1>4. CASE GuardCheck(b)
  BY Zenon, <1>2, <1>3, <1>4 DEF GuardCheck, GateMove, shared
<1>5. CASE GuardEnter(b)
  BY Zenon, <1>2, <1>3, <1>5 DEF GuardEnter, GateMove
<1>6. CASE GuardRecheck(b)
  <2>1. CASE latch
    BY Zenon, <1>2, <1>3, <1>6, <2>1 DEF GuardRecheck, GateMove
  <2>2. CASE ~ latch
    BY Zenon, <1>2, <1>3, <1>6, <2>2 DEF GuardRecheck, GateMove
  <2> QED
    BY Zenon, <2>1, <2>2
<1>7. CASE GuardLeave(b)
  BY Zenon, <1>2, <1>3, <1>7 DEF GuardLeave, GateMove
<1>8. CASE Report(b)
  BY Zenon, <1>2, <1>3, <1>8 DEF Report, GateMove, shared
<1>9. CASE CallbackReturns(b)
  BY Zenon, <1>2, <1>3, <1>9 DEF CallbackReturns, GateMove, shared
<1>10. CASE b = Servicer /\ ServicerWakes
  BY Zenon, <1>2, <1>3, <1>10 DEF ServicerWakes, GateMove, shared
<1>11. CASE b = Servicer /\ ServicerDrains
  BY Zenon, <1>2, <1>3, <1>11 DEF ServicerDrains, GateMove
<1>12. CASE WatcherFires(b)
  BY Zenon, <1>2, <1>3, <1>12 DEF WatcherFires, GateMove
<1>13. CASE BgExits(b) \/ (b = Servicer /\ Press)
  BY Zenon, <1>2, <1>13 DEF BgExits, Press, GateMove, Alone
<1> QED
  BY Zenon, <1>4, <1>5, <1>6, <1>7, <1>8, <1>9, <1>10, <1>11, <1>12, <1>13 DEF Guarding, Watching, Flagging

\* A save moves no thread.
LEMMA SavesMoveNothing ==
  ASSUME NEW p \in Paths, BeginSave(p) \/ EndSave(p)
  PROVE  UNCHANGED <<latch, inFlight, apply, registry, value, auto, pc, local, past>>
  BY Zenon DEF BeginSave, EndSave

\* The places outside the gate, named one by one.
LEMMA Places ==
  /\ \A x \in {"idle", "drain", "check", "enter"} : x \in Outside /\ x \in Held /\ x \notin Passing /\ x \notin Loading /\ x \notin Repointed
  /\ "recheck" \notin Outside /\ "recheck" \in Held
  /\ \A x \in {"pass", "leave", "report", "callback"} : x \notin Held /\ x \notin Outside
  /\ \A x \in {"recheck", "pass", "leave", "report", "callback"} : x \notin Passing /\ x \notin Loading /\ x \notin Repointed
  BY Zenon DEF Outside, Held, Passing, Loading, Repointed

\* The pass lock is held by the thread in a pass.
LEMMA LockStep ==
  ASSUME Types, Loads, Lock, [Next]_vars
  PROVE  Lock'
<1>1. ASSUME NEW t \in Threads, Alone(t), Locks(t) PROVE Lock'
  <2>1. \A u \in Threads : u # t => (apply = u <=> pc'[u] \in Passing)
    BY Zenon, <1>1 DEF Alone, Lock
  <2>2. CASE apply' = apply /\ (pc'[t] \in Passing <=> pc[t] \in Passing)
    BY Zenon, <1>1, <2>1, <2>2 DEF Lock
  <2>3. CASE apply = None /\ apply' = t /\ pc'[t] \in Passing
    BY Zenon, <1>1, <2>1, <2>3, Apart DEF Lock
  <2>4. CASE apply' = None /\ pc[t] \in Passing /\ pc'[t] \notin Passing
    <3>1. apply = t
      BY Zenon, <1>1, <2>4 DEF Lock
    <3> QED
      BY Zenon, <1>1, <2>1, <2>4, <3>1, Apart DEF Lock
  <2> QED
    BY Zenon, <1>1, <2>2, <2>3, <2>4 DEF Locks
<1>2. CASE UNCHANGED <<apply, pc>>
  BY Zenon, <1>2 DEF Lock
<1>3. ASSUME NEW b \in Background, Guarding(b) \/ Watching(b) \/ Flagging(b) PROVE Lock'
  <2>1. Alone(b) /\ GateMove(b) /\ apply' = apply /\ b \in Threads
    BY Zenon, <1>3, BackgroundMoves, Apart
  <2>2. pc'[b] \in Passing <=> pc[b] \in Passing
    BY Zenon, <2>1, Places DEF GateMove
  <2> QED
    BY Zenon, <1>1, <2>1, <2>2 DEF Locks
<1>4. ASSUME NEW t \in Threads, Acting(t) PROVE Lock'
  BY Zenon, <1>1, <1>4, ActingMoves DEF Moves
<1>5. ASSUME NEW p \in Paths, BeginSave(p) \/ EndSave(p) PROVE Lock'
  BY Zenon, <1>2, <1>5, SavesMoveNothing
<1>6. CASE UNCHANGED vars
  BY Zenon, <1>2, <1>6 DEF vars, shared
<1> QED
  BY Zenon, <1>3, <1>4, <1>5, <1>6, Kinds

\* Only load() re-points.
LEMMA LoadsStep ==
  ASSUME Types, Loads, [Next]_vars
  PROVE  Loads'
<1>1. ASSUME NEW t \in Threads, Alone(t), Private(t), Loaded(t)' PROVE Loads'
  BY Zenon, <1>1 DEF Alone, Private, Loads, Loaded
<1>2. CASE UNCHANGED <<local, pc>>
  BY Zenon, <1>2 DEF Loads, Loaded
<1>3. ASSUME NEW b \in Background, Guarding(b) \/ Watching(b) \/ Flagging(b) PROVE Loads'
  <2>1. Alone(b) /\ GateMove(b) /\ local' = local /\ b \in Threads
    BY Zenon, <1>3, BackgroundMoves, Apart
  <2>2. /\ pc[b] \in Loading => pc'[b] \in Loading
        /\ pc'[b] \in Repointed => pc[b] \in Repointed
    BY Zenon, <2>1, Places DEF GateMove
  <2>3. Loaded(b)' /\ Private(b)
    BY Zenon, <2>1, <2>2 DEF Loads, Loaded, Private
  <2> QED
    BY Zenon, <1>1, <2>1, <2>3
<1>4. ASSUME NEW t \in Threads, Acting(t) PROVE Loads'
  BY Zenon, <1>1, <1>4, ActingMoves DEF Moves
<1>5. ASSUME NEW p \in Paths, BeginSave(p) \/ EndSave(p) PROVE Loads'
  BY Zenon, <1>2, <1>5, SavesMoveNothing
<1>6. CASE UNCHANGED vars
  BY Zenon, <1>2, <1>6 DEF vars
<1> QED
  BY Zenon, <1>3, <1>4, <1>5, <1>6, Kinds

-----------------------------------------------------------------------------
(* The in-flight count and the gate. *)

\* What is used of finite sets; CountingHolds proves it.
Counting ==
  /\ \A S : IsFiniteSet(S) => Cardinality(S) \in Nat /\ (Cardinality(S) = 0 <=> S = {})
  /\ \A S, x : IsFiniteSet(S) /\ x \notin S =>
       IsFiniteSet(S \cup {x}) /\ Cardinality(S \cup {x}) = Cardinality(S) + 1
  /\ IsFiniteSet(Background)
  /\ \A S \in SUBSET Background : IsFiniteSet(S) /\ Cardinality(S) <= Cardinality(Background)

\* A thread comes into the gate, leaves it, or neither.
LEMMA GateFrame ==
  ASSUME Counting, Gate, NEW t \in Threads, Alone(t),
         \/ inFlight' = inFlight /\ (t \in Background => (pc'[t] \in Outside <=> pc[t] \in Outside))
         \/ inFlight' = inFlight + 1 /\ t \in Background /\ pc[t] \in Outside /\ pc'[t] \notin Outside
         \/ inFlight' = inFlight - 1 /\ t \in Background /\ pc[t] \notin Outside /\ pc'[t] \in Outside
  PROVE  Gate'
<1>1. \A b \in Background : b # t => (b \in InFlight' <=> b \in InFlight)
  BY Zenon, Apart DEF Alone, InFlight
<1>2. InFlight \in SUBSET Background /\ InFlight' \in SUBSET Background
  BY Zenon DEF InFlight
<1>3. IsFiniteSet(InFlight) /\ IsFiniteSet(InFlight')
  BY Zenon, <1>2 DEF Counting
<1>4. Cardinality(InFlight) \in Nat /\ Cardinality(InFlight') \in Nat
  BY Zenon, <1>3 DEF Counting
<1>5. CASE inFlight' = inFlight /\ (t \in Background => (pc'[t] \in Outside <=> pc[t] \in Outside))
  <2>1. InFlight' = InFlight
    BY Zenon, <1>1, <1>2, <1>5 DEF InFlight
  <2> QED
    BY Zenon, <1>5, <2>1 DEF Gate
<1>6. CASE inFlight' = inFlight + 1 /\ t \in Background /\ pc[t] \in Outside /\ pc'[t] \notin Outside
  <2>1. t \notin InFlight /\ t \in InFlight'
    BY Zenon, <1>6 DEF InFlight
  <2>2. InFlight' = InFlight \cup {t}
    BY Zenon, <1>1, <1>2, <2>1
  <2>3. Cardinality(InFlight') = Cardinality(InFlight) + 1
    BY Zenon, <1>3, <2>1, <2>2 DEF Counting
  <2> QED
    BY SMT, <1>6, <2>3 DEF Gate
<1>7. CASE inFlight' = inFlight - 1 /\ t \in Background /\ pc[t] \notin Outside /\ pc'[t] \in Outside
  <2>1. t \in InFlight /\ t \notin InFlight'
    BY Zenon, <1>7 DEF InFlight
  <2>2. InFlight = InFlight' \cup {t}
    BY Zenon, <1>1, <1>2, <2>1
  <2>3. Cardinality(InFlight) = Cardinality(InFlight') + 1
    BY Zenon, <1>3, <2>1, <2>2 DEF Counting
  <2> QED
    BY SMT, <1>4, <1>7, <2>3 DEF Gate
<1> QED
  BY Zenon, <1>5, <1>6, <1>7

\* The count is exact.
LEMMA GateStep ==
  ASSUME Counting, Types, Loads, Gate, [Next]_vars
  PROVE  Gate'
<1>2. CASE UNCHANGED <<inFlight, pc>>
  BY Zenon, <1>2 DEF Gate, InFlight
<1>3. ASSUME NEW b \in Background, Guarding(b) \/ Watching(b) \/ Flagging(b) PROVE Gate'
  <2>1. Alone(b) /\ GateMove(b) /\ b \in Threads
    BY Zenon, <1>3, BackgroundMoves, Apart
  <2>2. \/ inFlight' = inFlight /\ (pc'[b] \in Outside <=> pc[b] \in Outside)
        \/ inFlight' = inFlight + 1 /\ pc[b] \in Outside /\ pc'[b] \notin Outside
        \/ inFlight' = inFlight - 1 /\ pc[b] \notin Outside /\ pc'[b] \in Outside
    BY Zenon, <2>1, Places DEF GateMove
  <2> QED
    BY Zenon, <2>1, <2>2, GateFrame
<1>4. ASSUME NEW t \in Threads, Acting(t) PROVE Gate'
  <2>1. Alone(t) /\ inFlight' = inFlight /\ Inside(t)
    BY Zenon, <1>4, ActingMoves DEF Moves
  <2>2. t \in Background => (pc'[t] \in Outside <=> pc[t] \in Outside)
    BY Zenon, <2>1 DEF Inside, Held
  <2> QED
    BY Zenon, <2>1, <2>2, GateFrame
<1>5. ASSUME NEW p \in Paths, BeginSave(p) \/ EndSave(p) PROVE Gate'
  BY Zenon, <1>2, <1>5, SavesMoveNothing
<1>6. CASE UNCHANGED vars
  BY Zenon, <1>2, <1>6 DEF vars, shared
<1> QED
  BY Zenon, <1>3, <1>4, <1>5, <1>6, Kinds

\* Only a load() opens the gate again, and only an unload that counted nobody closes the
\* books.
LEMMA QuietFields ==
  ASSUME Types, NEW t \in Threads, Acting(t)
  PROVE  \/ past'.quiet = past.quiet /\ (latch' = latch \/ latch' = TRUE)
         \/ ~ past'.quiet
         \/ past'.quiet = (inFlight = 0 /\ latch) /\ UnloadReturns(t) /\ latch' = latch
<1>1. PastTypes
  BY Zenon DEF Types
<1>2. CASE past' = past /\ (latch' = latch \/ latch' = TRUE)
  BY Zenon, <1>2
<1>3. CASE latch' = latch /\ \E x : \E y : past' \in {[past EXCEPT !.owed = x], [past EXCEPT !.off = x], [past EXCEPT !.fresh = x],
                                                [past EXCEPT !.fresh = x, !.owed = y]}
  <2>1. PICK x, y : past' \in {[past EXCEPT !.owed = x], [past EXCEPT !.off = x], [past EXCEPT !.fresh = x],
                              [past EXCEPT !.fresh = x, !.owed = y]}
    BY Zenon, <1>3
  <2>2. /\ [past EXCEPT !.owed = x].quiet = past.quiet /\ [past EXCEPT !.off = x].quiet = past.quiet
        /\ [past EXCEPT !.fresh = x].quiet = past.quiet
        /\ [past EXCEPT !.fresh = x, !.owed = y].quiet = past.quiet
    BY Zenon, <1>1 DEF PastTypes, Past
  <2>3. past'.quiet = past.quiet
    BY Zenon, <2>1, <2>2
  <2> QED
    BY Zenon, <1>3, <2>3
<1>4. CASE Reloading(t)
  BY Zenon, <1>2, <1>3, <1>4 DEF Reloading, ReloadNothing, ReloadUnchanged, ReloadParseFails, ReloadCapture
<1>5. CASE Setting(t)
  BY Zenon, <1>2, <1>3, <1>5 DEF Setting, NextSetter, RunSetter, BindDefault, shared
<1>6. CASE Ending(t)
  BY Zenon, <1>2, <1>3, <1>6 DEF Ending, Commit, LoadCapture
<1>7. CASE LoadRepoint(t) \/ Join(t) \/ RepointPath(t) \/ LoadRestart(t)
  BY Zenon, <1>2, <1>7 DEF LoadRepoint, Join, RepointPath, LoadRestart, shared
<1>8. CASE \E cb \in BOOLEAN : EnableStart(t, cb)
  BY Zenon, <1>2, <1>3, <1>8 DEF EnableStart
<1>9. CASE ClearRegistry(t) \/ ClearServicer(t)
  BY Zenon, <1>2, <1>3, <1>9 DEF ClearRegistry, ClearServicer
<1>10. CASE UnloadDisables(t) \/ Disable(t)
  BY Zenon, <1>2, <1>3, <1>10 DEF UnloadDisables, Disable, DisableAutoReload
<1>11. CASE UnloadReturns(t)
  <2>1. past' = [past EXCEPT !.quiet = (inFlight = 0 /\ latch)] /\ latch' = latch
    BY Zenon, <1>11 DEF UnloadReturns, shared
  <2>2. past'.quiet = (inFlight = 0 /\ latch)
    BY Zenon, <1>1, <2>1 DEF PastTypes, Past
  <2> QED
    BY Zenon, <1>11, <2>1, <2>2
<1>12. ASSUME NEW p \in Paths, LoadBegins(t, p) PROVE ~ past'.quiet
  <2>1. past' = [past EXCEPT !.quiet = FALSE]
    BY Zenon, <1>12 DEF LoadBegins
  <2> QED
    BY Zenon, <1>1, <2>1 DEF PastTypes, Past
<1>13. CASE Reload(t) \/ EnablePath(t) \/ ReloadHotkey(t)
  BY Zenon, <1>2, <1>13 DEF Reload, EnablePath, ReloadHotkey, shared
<1>14. CASE \E i \in Item : Bind(t, i)
  BY Zenon, <1>2, <1>3, <1>14 DEF Bind
<1>15. CASE \E l, n \in BOOLEAN : UnloadBegins(t, l, n)
  BY Zenon, <1>2, <1>15 DEF UnloadBegins
<1> QED
  BY Zenon, <1>4, <1>5, <1>6, <1>7, <1>8, <1>9, <1>10, <1>11, <1>12, <1>13, <1>14, <1>15
     DEF Acting, Repointing, Clearing, Calling

\* After an unload that found nothing in flight every background thread is held back.
LEMMA QuietStep ==
  ASSUME Counting, Types, Loads, Gate, Quiet, [Next]_vars
  PROVE  Quiet'
<1>1. CASE UNCHANGED <<past, latch, pc>>
  BY Zenon, <1>1 DEF Quiet
<1>2. ASSUME NEW b \in Background, Guarding(b) \/ Watching(b) \/ Flagging(b) PROVE Quiet'
  <2>1. Alone(b) /\ GateMove(b) /\ UNCHANGED <<latch, past>>
    BY Zenon, <1>2, BackgroundMoves
  <2>2. SUFFICES ASSUME past.quiet PROVE latch /\ \A c \in Background : pc'[c] \in Held
    BY Zenon, <2>1 DEF Quiet
  <2>3. latch /\ \A c \in Background : pc[c] \in Held
    BY Zenon, <2>2 DEF Quiet
  <2>4. pc'[b] \in Held
    BY Zenon, <2>1, <2>3, Places DEF GateMove
  <2> QED
    BY Zenon, <2>1, <2>3, <2>4, Apart DEF Alone
<1>3. ASSUME NEW t \in Threads, Acting(t) PROVE Quiet'
  <2>1. Alone(t) /\ inFlight' = inFlight /\ Inside(t)
    BY Zenon, <1>3, ActingMoves DEF Moves
  <2>2. CASE past'.quiet = past.quiet /\ (latch' = latch \/ latch' = TRUE)
    <3>1. SUFFICES ASSUME past.quiet PROVE latch' /\ \A c \in Background : pc'[c] \in Held
      BY Zenon, <2>2 DEF Quiet
    <3>2. latch /\ \A c \in Background : pc[c] \in Held
      BY Zenon, <3>1 DEF Quiet
    <3>3. t \notin Background
      BY Zenon, <2>1, <3>2 DEF Inside
    <3> QED
      BY Zenon, <2>1, <2>2, <3>2, <3>3, Apart DEF Alone
  <2>3. CASE past'.quiet = (inFlight = 0 /\ latch) /\ latch' = latch
    <3>1. SUFFICES ASSUME inFlight = 0, latch PROVE \A c \in Background : pc'[c] \in Held
      BY Zenon, <2>3 DEF Quiet
    <3>2. InFlight \in SUBSET Background
      BY Zenon DEF InFlight
    <3>3. IsFiniteSet(InFlight)
      BY Zenon, <3>2 DEF Counting
    <3>4. InFlight = {}
      BY Zenon, <3>1, <3>3 DEF Counting, Gate
    <3>5. \A c \in Background : pc[c] \in Outside
      BY Zenon, <3>4 DEF InFlight
    <3>6. t \notin Background
      BY Zenon, <2>1, <3>5 DEF Inside, Held
    <3> QED
      BY Zenon, <2>1, <3>5, <3>6, Apart DEF Alone, Held
  <2>4. CASE ~ past'.quiet
    BY Zenon, <2>4 DEF Quiet
  <2> QED
    BY Zenon, <1>3, <2>2, <2>3, <2>4, QuietFields
<1>4. ASSUME NEW p \in Paths, BeginSave(p) \/ EndSave(p) PROVE Quiet'
  BY Zenon, <1>1, <1>4, SavesMoveNothing
<1>5. CASE UNCHANGED vars
  BY Zenon, <1>1, <1>5 DEF vars, shared
<1> QED
  BY Zenon, <1>2, <1>3, <1>4, <1>5, Kinds

-----------------------------------------------------------------------------
(* The disable generation. *)

Joins == {"join", "snapshot", "restart"}

\* clear(), the unload and disable_auto_reload() are not part of a load().
LEMMA ClearNotLoading ==
  ASSUME Types, Loads, NEW t \in Threads, Clearing(t)
  PROVE  ~ local'[t].loading
<1>1. local \in [Threads -> Local] /\ local[t] \in Local
  BY Zenon DEF Types, ControlTypes
<1>2. \/ \E op \in {"load", "reload", "enable", "disable", "hotkey", "bind", "clear", "unload"} : Called(t, op)
      \/ pc[t] \in {"clear", "clear_servicer", "unload", "await"}
  BY Zenon DEF Clearing, ClearRegistry, ClearServicer, UnloadDisables, UnloadReturns, Disable, At
<1>3. ~ local[t].loading
  BY Zenon, <1>2, CallPlace
<1>4. CASE local' = local
  BY Zenon, <1>3, <1>4
<1>5. CASE local' = [local EXCEPT ![t] = Blank]
  BY Zenon, <1>1, <1>5, LocalMoves, BlankType
<1>6. CASE \E b : local' = [local EXCEPT ![t].thread = b]
  <2>1. PICK b : local' = [local EXCEPT ![t] = [local[t] EXCEPT !.thread = b]]
    BY Zenon, <1>6
  <2>2. local'[t] = [local[t] EXCEPT !.thread = b]
    BY Zenon, <1>1, <2>1, LocalMoves
  <2>3. [local[t] EXCEPT !.thread = b].loading = local[t].loading
    BY Zenon, <1>1 DEF Local
  <2> QED
    BY Zenon, <1>3, <2>2, <2>3
<1>7. ASSUME NEW next, DisableAutoReload(t, next) PROVE ~ local'[t].loading
  BY Zenon, <1>4, <1>5, <1>6, <1>7 DEF DisableAutoReload, Return
<1>8. CASE ClearRegistry(t) \/ ClearServicer(t)
  BY Zenon, <1>4, <1>5, <1>6, <1>8 DEF ClearRegistry, ClearServicer, Return
<1>9. CASE UnloadDisables(t) \/ Disable(t)
  BY Zenon, <1>7, <1>9 DEF UnloadDisables, Disable
<1>10. CASE UnloadReturns(t)
  BY Zenon, <1>5, <1>10 DEF UnloadReturns, Return
<1> QED
  BY Zenon, <1>8, <1>9, <1>10 DEF Clearing

\* Only the steps of load() lead into the window in which a disable could be lost.
LEMMA JoiningMoves ==
  ASSUME Types, Loads, NEW t \in Threads, Acting(t), Joining(t)'
  PROVE  LoadRepoint(t) \/ (Joining(t) /\ local'[t].generation = local[t].generation)
<1>1. /\ local \in [Threads -> Local] /\ local[t] \in Local /\ ControlTypes /\ DOMAIN pc = Threads
      /\ local'[t].loading /\ pc'[t] \in Joins /\ Loaded(t)
  BY Zenon DEF Types, ControlTypes, Joining, Loads, Joins
<1>2. ASSUME NEW to, pc' = [pc EXCEPT ![t] = to] PROVE to \in Joins
  BY Zenon, <1>1, <1>2, PcMoves
<1>3. ~ Return(t) /\ ~ EndReload(t)
  BY Zenon, <1>1, ReturnMoves, EndMoves DEF Joins
<1>4. CASE Reloading(t)
  <2>1. PICK p, d, c, q : Capture(t, p, d, c, q)
    BY Zenon, <1>3, <1>4 DEF Reloading, ReloadNothing, ReloadUnchanged, ReloadParseFails, ReloadCapture
  <2>2. "setters" \in Joins
    BY Zenon, <1>2, <2>1 DEF Capture, Goto
  <2> QED
    BY Zenon, <2>2 DEF Joins
<1>5. CASE Setting(t)
  <2>1. NextSetter(t) \/ RunSetter(t)
    BY Zenon, <1>3, <1>5 DEF Setting, BindDefault
  <2>2. pc'[t] = pc[t] \/ "setter" \in Joins \/ "setters" \in Joins
    BY Zenon, <1>2, <2>1 DEF NextSetter, RunSetter, Goto
  <2>3. pc[t] \notin Joins
    BY Zenon, <2>1 DEF NextSetter, RunSetter, At, Joins
  <2> QED
    BY Zenon, <1>1, <2>2, <2>3 DEF Joins
<1>6. CASE Ending(t)
  <2>1. "setters" \in Joins \/ "repoint" \in Joins
    BY Zenon, <1>2, <1>3, <1>6 DEF Ending, Commit, LoadCapture, Capture, Goto
  <2> QED
    BY Zenon, <2>1 DEF Joins
<1>7. CASE Join(t)
  <2>1. pc[t] = "join"
    BY Zenon, <1>7 DEF Join, At
  <2>2. local' = [local EXCEPT ![t] = [local[t] EXCEPT !.thread = None]]
    BY Zenon, <1>3, <1>7 DEF Join
  <2>3. local'[t] = [local[t] EXCEPT !.thread = None]
    BY Zenon, <1>1, <2>2, LocalMoves
  <2>4. local'[t].generation = local[t].generation /\ local'[t].loading = local[t].loading
    BY Zenon, <1>1, <2>3 DEF Local
  <2> QED
    BY Zenon, <1>1, <2>1, <2>4 DEF Joining
<1>8. CASE RepointPath(t)
  <2>1. pc[t] = "snapshot" /\ local' = [local EXCEPT ![t] = [local[t] EXCEPT !.path = registry.path]]
    BY Zenon, <1>8 DEF RepointPath, At
  <2>2. local'[t] = [local[t] EXCEPT !.path = registry.path]
    BY Zenon, <1>1, <2>1, LocalMoves
  <2>3. local'[t].generation = local[t].generation /\ local'[t].loading = local[t].loading
    BY Zenon, <1>1, <2>2 DEF Local
  <2> QED
    BY Zenon, <1>1, <2>1, <2>3 DEF Joining
<1>9. CASE LoadRestart(t) \/ \E cb \in BOOLEAN : EnableStart(t, cb)
  BY Zenon, <1>3, <1>9 DEF LoadRestart, EnableStart
<1>10. CASE Clearing(t)
  BY Zenon, <1>1, <1>10, ClearNotLoading
<1>11. CASE Calling(t)
  <2>1. \E op \in {"load", "reload", "enable", "disable", "hotkey", "bind", "clear", "unload"} : Called(t, op)
    BY Zenon, <1>11 DEF Calling, LoadBegins, Reload, EnablePath, ReloadHotkey, Bind, UnloadBegins
  <2>2. pc[t] \notin Joins
    BY Zenon, <2>1, CalledFrom DEF Joins
  <2>3. \E to \in {"load", "pass", "enable", "bind", "unload", pc[t]} : pc' = [pc EXCEPT ![t] = to]
    BY Zenon, <1>3, <1>11 DEF Calling, LoadBegins, Reload, EnablePath, ReloadHotkey, Bind, UnloadBegins, Goto
  <2>4. \E to \in {"load", "pass", "enable", "bind", "unload", pc[t]} : to \in Joins
    BY Zenon, <1>2, <2>3
  <2> QED
    BY Zenon, <2>2, <2>4 DEF Joins
<1> QED
  BY Zenon, <1>4, <1>5, <1>6, <1>7, <1>8, <1>9, <1>10, <1>11 DEF Acting, Repointing

\* A load() that joins or restarts without the slot or the generation having changed.
LEMMA OffFrame ==
  ASSUME Off, NEW t \in Threads, Alone(t), Private(t), auto'.generation = auto.generation,
         past'.off => past.off, past'.off => auto'.watcher = None,
         Joining(t)' => /\ local'[t].generation <= auto.generation
                        /\ past.off => local'[t].generation < auto.generation
  PROVE  Off'
<1>1. ASSUME NEW u \in Threads, Joining(u)'
      PROVE  /\ local'[u].generation <= auto'.generation
             /\ past'.off => local'[u].generation < auto'.generation
  <2>1. CASE u = t
    BY Zenon, <1>1, <2>1
  <2>2. CASE u # t
    <3>1. local'[u] = local[u] /\ pc'[u] = pc[u]
      BY Zenon, <2>2 DEF Alone, Private
    <3>2. Joining(u)
      BY Zenon, <1>1, <3>1 DEF Joining
    <3>3. local[u].generation <= auto.generation /\ (past.off => local[u].generation < auto.generation)
      BY Zenon, <3>2 DEF Off
    <3> QED
      BY Zenon, <3>1, <3>3
  <2> QED
    BY Zenon, <2>1, <2>2
<1> QED
  BY Zenon, <1>1 DEF Off

\* start_watcher_locked leaves the generation alone.
LEMMA StartKeepsGeneration ==
  ASSUME AutoTypes, NEW p, NEW cb, StartWatcher(p, cb)
  PROVE  auto'.generation = auto.generation
<1>1. PICK x, y : auto' \in {[auto EXCEPT !.watcher = x, !.callback = y], [auto EXCEPT !.callback = y]}
  BY Zenon DEF StartWatcher
<1> QED
  BY Zenon, <1>1 DEF AutoTypes, Slot

\* The slot and the flag of the last disable, for all steps but a disable.
SlotMove(t) ==
  /\ auto'.generation = auto.generation /\ (past'.off => past.off)
  /\ past'.off => auto'.watcher = None
  /\ LoadRepoint(t) /\ Joining(t)' => ~ past.off /\ local'[t].generation = auto.generation

\* Notes in the history that are not about the watcher.
Noted ==
  \E x : \E y : past' \in {past, [past EXCEPT !.owed = x], [past EXCEPT !.quiet = x],
                          [past EXCEPT !.fresh = x], [past EXCEPT !.fresh = x, !.owed = y]}

\* A load() that re-points takes the watcher out of a slot that was on; one that restarts it
\* does so only when no disable came since.
LEMMA SlotMoves ==
  ASSUME Types, Loads, Off, NEW t \in Threads, Acting(t), ~ UnloadDisables(t), ~ Disable(t)
  PROVE  SlotMove(t)
<1>1. PastTypes /\ auto \in Slot /\ local \in [Threads -> Local] /\ local[t] \in Local /\ Loaded(t) /\ AutoTypes
  BY Zenon DEF Types, AutoTypes, ControlTypes, Loads
<1>2. CASE auto' = auto /\ past'.off = past.off /\ ~ LoadRepoint(t)
  BY Zenon, <1>2 DEF Off, SlotMove
<1>3. ASSUME Noted PROVE past'.off = past.off
  <2>1. PICK x, y : past' \in {past, [past EXCEPT !.owed = x], [past EXCEPT !.quiet = x],
                              [past EXCEPT !.fresh = x], [past EXCEPT !.fresh = x, !.owed = y]}
    BY Zenon, <1>3 DEF Noted
  <2> QED
    BY Zenon, <1>1, <2>1 DEF PastTypes, Past
<1>4. CASE LoadRepoint(t)
  <2>1. past' = past /\ pc[t] = "repoint"
    BY Zenon, <1>4 DEF LoadRepoint, At
  <2>2. CASE auto.watcher # None /\ auto.watcher # t /\ bg[auto.watcher].path # local[t].path
    <3>1. /\ auto' = [auto EXCEPT !.watcher = None]
          /\ local' = [local EXCEPT ![t] = [local[t] EXCEPT !.thread = auto.watcher, !.generation = auto.generation]]
      BY Zenon, <1>4, <2>2 DEF LoadRepoint
    <3>2. ~ past.off
      BY Zenon, <2>2 DEF Off
    <3>3. auto'.generation = auto.generation
      BY Zenon, <1>1, <3>1 DEF Slot
    <3>4. local'[t] = [local[t] EXCEPT !.thread = auto.watcher, !.generation = auto.generation]
      BY Zenon, <1>1, <3>1, LocalMoves
    <3>5. local'[t].generation = auto.generation
      BY Zenon, <1>1, <3>4 DEF Local
    <3> QED
      BY Zenon, <2>1, <3>2, <3>3, <3>5 DEF SlotMove
  <2>3. CASE Return(t) /\ UNCHANGED auto
    <3>1. pc'[t] \in {"idle", "leave"}
      BY Zenon, <2>3, ReturnMoves DEF Types
    <3>2. ~ Joining(t)'
      BY Zenon, <3>1 DEF Joining
    <3> QED
      BY Zenon, <2>1, <2>3, <3>2 DEF Off, SlotMove
  <2> QED
    BY Zenon, <1>4, <2>2, <2>3 DEF LoadRepoint
<1>5. CASE LoadRestart(t)
  <2>1. past' = past /\ pc[t] = "restart"
    BY Zenon, <1>5 DEF LoadRestart, At
  <2>2. ~ LoadRepoint(t)
    BY Zenon, <2>1 DEF LoadRepoint, At
  <2>3. CASE StartWatcher(local[t].path, auto.callback) /\ auto.generation = local[t].generation
    <3>1. Joining(t)
      BY Zenon, <1>1, <2>1 DEF Joining, Loaded, Repointed
    <3>2. local[t].generation \in Nat
      BY Zenon, <1>1, LocalFields
    <3>3. past.off => local[t].generation < local[t].generation
      BY Zenon, <2>3, <3>1 DEF Off
    <3>4. ~ past.off
      BY SMT, <3>2, <3>3
    <3>5. auto'.generation = auto.generation
      BY Zenon, <1>1, <2>3, StartKeepsGeneration
    <3> QED
      BY Zenon, <2>1, <2>2, <3>4, <3>5 DEF SlotMove
  <2>4. CASE UNCHANGED auto
    BY Zenon, <1>2, <2>1, <2>2, <2>4
  <2> QED
    BY Zenon, <1>5, <2>3, <2>4 DEF LoadRestart
<1>6. ASSUME NEW cb \in BOOLEAN, EnableStart(t, cb)
      PROVE  SlotMove(t)
  <2>1. ~ LoadRepoint(t)
    BY Zenon, <1>6 DEF EnableStart, LoadRepoint, At
  <2>2. CASE StartWatcher(local[t].path, cb) /\ past' = [past EXCEPT !.off = FALSE]
    <3>1. ~ past'.off
      BY Zenon, <1>1, <2>2 DEF PastTypes, Past
    <3> QED
      BY Zenon, <1>1, <2>1, <2>2, <3>1, StartKeepsGeneration DEF SlotMove
  <2>3. CASE UNCHANGED <<auto, past>>
    BY Zenon, <2>1, <2>3 DEF Off, SlotMove
  <2> QED
    BY Zenon, <1>6, <2>2, <2>3 DEF EnableStart
<1>7. CASE Reloading(t) \/ Setting(t) \/ Ending(t) \/ Join(t) \/ RepointPath(t)
           \/ ClearRegistry(t) \/ ClearServicer(t) \/ UnloadReturns(t) \/ Calling(t)
  <2>0. ASSUME auto' = auto, Noted PROVE SlotMove(t)
    <3>1. past'.off = past.off
      BY Zenon, <1>3, <2>0 DEF Noted
    <3> QED
      BY Zenon, <1>2, <1>4, <2>0, <3>1
  <2>1. CASE Reloading(t)
    <3>1. auto' = auto /\ Noted
      BY Zenon, <2>1 DEF Reloading, ReloadNothing, ReloadUnchanged, ReloadParseFails, ReloadCapture, Noted
    <3> QED
      BY Zenon, <2>0, <3>1
  <2>2. CASE Setting(t)
    <3>1. auto' = auto /\ Noted
      BY Zenon, <2>2 DEF Setting, NextSetter, RunSetter, BindDefault, shared, Noted
    <3> QED
      BY Zenon, <2>0, <3>1
  <2>3. CASE Ending(t) \/ ClearRegistry(t) \/ ClearServicer(t)
    <3>1. auto' = auto /\ Noted
      BY Zenon, <2>3 DEF Ending, Commit, LoadCapture, ClearRegistry, ClearServicer, Noted
    <3> QED
      BY Zenon, <2>0, <3>1
  <2>4. CASE Join(t) \/ RepointPath(t) \/ UnloadReturns(t)
    <3>1. auto' = auto /\ Noted
      BY Zenon, <2>4 DEF Join, RepointPath, UnloadReturns, shared, Noted
    <3> QED
      BY Zenon, <2>0, <3>1
  <2>5. CASE Calling(t)
    <3>1. auto' = auto /\ Noted
      BY Zenon, <2>5 DEF Calling, LoadBegins, Reload, EnablePath, ReloadHotkey, Bind, UnloadBegins, shared, Noted
    <3> QED
      BY Zenon, <2>0, <3>1
  <2> QED
    BY Zenon, <1>7, <2>1, <2>2, <2>3, <2>4, <2>5
<1> QED
  BY Zenon, <1>4, <1>5, <1>6, <1>7 DEF Acting, Repointing, Clearing

\* A disable that takes effect outdates every load() that is re-pointing.
LEMMA DisableOff ==
  ASSUME Types, Loads, Off, NEW t \in Threads, UnloadDisables(t) \/ Disable(t)
  PROVE  Off'
<1>1. Alone(t) /\ Private(t) /\ ~ local'[t].loading
  BY Zenon, ActingMoves, ClearNotLoading DEF Acting, Clearing, Moves
<1>2. ~ Joining(t)'
  BY Zenon, <1>1 DEF Joining
<1>3. PICK next : DisableAutoReload(t, next)
  BY Zenon DEF UnloadDisables, Disable
<1>4. CASE UNCHANGED <<auto, past>>
  BY Zenon, <1>1, <1>2, <1>4, OffFrame DEF Off
<1>5. CASE /\ auto' = [watcher |-> None, callback |-> FALSE, generation |-> auto.generation + 1]
           /\ past' = [past EXCEPT !.off = TRUE]
  <2>1. auto'.watcher = None /\ auto'.generation = auto.generation + 1 /\ auto.generation \in Nat
    BY SMT, <1>5, SlotFields DEF Types
  <2>2. ASSUME NEW u \in Threads, Joining(u)' PROVE local'[u].generation < auto'.generation
    <3>1. u # t
      BY Zenon, <1>2, <2>2
    <3>2. local'[u] = local[u] /\ pc'[u] = pc[u]
      BY Zenon, <1>1, <3>1 DEF Alone, Private
    <3>3. Joining(u)
      BY Zenon, <2>2, <3>2 DEF Joining
    <3>4. local[u].generation <= auto.generation
      BY Zenon, <3>3 DEF Off
    <3>5. local[u].generation \in Nat
      BY Zenon, LocalFields DEF Types, ControlTypes
    <3> QED
      BY SMT, <2>1, <3>2, <3>4, <3>5
  <2>3. ASSUME NEW u \in Threads, Joining(u)' PROVE local'[u].generation <= auto'.generation
    <3>1. local'[u].generation < auto'.generation
      BY Zenon, <2>2, <2>3
    <3>2. u # t
      BY Zenon, <1>2, <2>3
    <3>3. local'[u].generation \in Nat
      BY Zenon, <1>1, <3>2, LocalFields DEF Types, ControlTypes, Private
    <3> QED
      BY SMT, <2>1, <3>1, <3>3
  <2> QED
    BY Zenon, <2>1, <2>2, <2>3 DEF Off
<1> QED
  BY Zenon, <1>3, <1>4, <1>5 DEF DisableAutoReload

\* A disabled auto-reload stays off.
LEMMA OffStep ==
  ASSUME Types, Loads, Off, [Next]_vars
  PROVE  Off'
<1>1. CASE UNCHANGED <<past, auto, local, pc>>
  BY Zenon, <1>1 DEF Off, Joining
<1>2. ASSUME NEW b \in Background, Guarding(b) \/ Watching(b) \/ Flagging(b) PROVE Off'
  <2>1. Alone(b) /\ GateMove(b) /\ UNCHANGED <<auto, local, past>> /\ b \in Threads
    BY Zenon, <1>2, BackgroundMoves, Apart
  <2>2. pc'[b] \in {"join", "snapshot", "restart"} => pc'[b] = pc[b]
    BY Zenon, <2>1 DEF GateMove
  <2>3. \A u \in Threads : Joining(u)' => Joining(u)
    BY Zenon, <2>1, <2>2 DEF Joining, Alone
  <2> QED
    BY Zenon, <2>1, <2>3 DEF Off
<1>3. ASSUME NEW t \in Threads, Acting(t) PROVE Off'
  <2>1. CASE UnloadDisables(t) \/ Disable(t)
    BY Zenon, <2>1, DisableOff
  <2>2. CASE ~ UnloadDisables(t) /\ ~ Disable(t)
    <3>1. Alone(t) /\ Private(t) /\ SlotMove(t)
      BY Zenon, <1>3, <2>2, ActingMoves, SlotMoves DEF Moves
    <3>2. ASSUME Joining(t)'
          PROVE  /\ local'[t].generation <= auto.generation
                 /\ past.off => local'[t].generation < auto.generation
      <4>1. CASE LoadRepoint(t)
        <5>1. ~ past.off /\ local'[t].generation = auto.generation
          BY Zenon, <3>1, <3>2, <4>1 DEF SlotMove
        <5>2. auto.generation <= auto.generation
          BY SMT, SlotFields DEF Types
        <5> QED
          BY Zenon, <5>1, <5>2
      <4>2. CASE Joining(t) /\ local'[t].generation = local[t].generation
        BY Zenon, <4>2 DEF Off
      <4> QED
        BY Zenon, <1>3, <3>2, <4>1, <4>2, JoiningMoves
    <3> QED
      BY Zenon, <3>1, <3>2, OffFrame DEF SlotMove
  <2> QED
    BY Zenon, <2>1, <2>2
<1>4. ASSUME NEW p \in Paths, BeginSave(p) \/ EndSave(p) PROVE Off'
  BY Zenon, <1>1, <1>4, SavesMoveNothing
<1>5. CASE UNCHANGED vars
  BY Zenon, <1>1, <1>5 DEF vars, shared
<1> QED
  BY Zenon, <1>2, <1>3, <1>4, <1>5, Kinds

-----------------------------------------------------------------------------
(* What the hash says of the values. *)

\* The elements of a sequence to which one is added.
LEMMA NamesAppend ==
  ASSUME NEW s \in Seq(Item), NEW i \in Item
  PROVE  Names(Append(s, i)) = Names(s) \cup {i} /\ Len(Append(s, i)) = Len(s) + 1
<1>1. /\ DOMAIN s = 1 .. Len(s) /\ DOMAIN Append(s, i) = 1 .. (Len(s) + 1) /\ Len(s) \in Nat
      /\ \A k \in 1 .. Len(s) : Append(s, i)[k] = s[k]
      /\ Append(s, i)[Len(s) + 1] = i /\ Len(Append(s, i)) = Len(s) + 1
  BY SMT
<1>2. /\ \A k \in 1 .. (Len(s) + 1) : k \in 1 .. Len(s) \/ k = Len(s) + 1
      /\ \A k \in 1 .. Len(s) : k \in 1 .. (Len(s) + 1)
      /\ Len(s) + 1 \in 1 .. (Len(s) + 1)
  BY SMT, <1>1
<1>3. ASSUME NEW x \in Names(Append(s, i)) PROVE x \in Names(s) \cup {i}
  BY Zenon, <1>1, <1>2, <1>3 DEF Names
<1>4. ASSUME NEW x \in Names(s) PROVE x \in Names(Append(s, i))
  BY Zenon, <1>1, <1>2, <1>4 DEF Names
<1>5. i \in Names(Append(s, i))
  BY Zenon, <1>1, <1>2 DEF Names
<1> QED
  BY Zenon, <1>1, <1>3, <1>4, <1>5

\* A step outside the setters that keeps the hash: an item that it gives another value, or
\* registers, is a fresh one.
LEMMA DataFrame ==
  ASSUME Whole, Partial, NEW t \in Threads, Alone(t), Private(t),
         registry'.hash = registry.hash, past'.owed = past.owed, past.fresh \subseteq past'.fresh,
         \A i \in Names(registry'.items) :
           i \in past'.fresh \/ (i \in Names(registry.items) /\ value'[i] = value[i]),
         pc'[t] \in Working <=> pc[t] \in Working, pc[t] \in Working => local'[t] = local[t]
  PROVE  Whole' /\ Partial'
<1>1. \A u \in Threads : pc'[u] \in Working <=> pc[u] \in Working
  BY Zenon DEF Alone
<1>2. \A u \in Threads : pc[u] \in Working => local'[u] = local[u]
  BY Zenon DEF Private
<1>3. Whole'
  <2>1. SUFFICES ASSUME \A u \in Threads : pc[u] \notin Working, registry.hash # None, ~ past.owed,
                        NEW i \in Names(registry'.items)
                 PROVE  i \in past'.fresh \/ value'[i] = registry.hash
    BY Zenon, <1>1 DEF Whole, Vouched
  <2>2. i \in Names(registry.items) => i \in past.fresh \/ value[i] = registry.hash
    BY Zenon, <2>1 DEF Whole, Vouched
  <2> QED
    BY Zenon, <2>2
<1>4. Partial'
  <2>1. SUFFICES ASSUME NEW u \in Threads, pc[u] \in Working
                 PROVE  /\ local[u].commit \in {None, local[u].data}
                        /\ \A i \in Names(registry'.items) :
                             \/ i \in past'.fresh \/ i \in Names(local[u].todo)
                             \/ value'[i] = local[u].data \/ ~ local[u].ok
    BY Zenon, <1>1, <1>2 DEF Partial, Given
  <2>2. local[u].commit \in {None, local[u].data} /\ \A i \in Names(registry.items) : Given(u, i)
    BY Zenon, <2>1 DEF Partial
  <2>3. ASSUME NEW i \in Names(registry'.items)
        PROVE  \/ i \in past'.fresh \/ i \in Names(local[u].todo)
               \/ value'[i] = local[u].data \/ ~ local[u].ok
    <3>1. CASE i \in Names(registry.items) /\ value'[i] = value[i]
      <4>1. Given(u, i)
        BY Zenon, <2>2, <3>1
      <4> QED
        BY Zenon, <3>1, <4>1 DEF Given
    <3> QED
      BY Zenon, <2>3, <3>1
  <2> QED
    BY Zenon, <2>2, <2>3
<1> QED
  BY Zenon, <1>3, <1>4

\* A thread in a pass is the only one.
LEMMA OnePass ==
  ASSUME Lock, NEW t \in Threads, pc[t] \in Working \/ apply = None, Alone(t)
  PROVE  \A u \in Threads : u # t => pc[u] \notin Working /\ pc'[u] \notin Working
<1>1. \A u \in Threads : pc[u] \in Working => apply = u
  BY Zenon DEF Lock, Working, Passing
<1> QED
  BY Zenon, <1>1, Apart DEF Alone

\* The hash that a pass commits is that of its values, if any.
Commits(c, d) == c \in {None, d}

\* The pass of a reload() or a load() begins with everything to do.
LEMMA CaptureWhole ==
  ASSUME Types, Lock, NEW t \in Threads, apply = None, NEW p, NEW d, NEW c, NEW q,
         Captured(p, d, c, q), Capture(t, p, d, c, q), Commits(c, d),
         registry'.items = registry.items
  PROVE  Whole' /\ Partial'
<1>2. /\ pc' = [pc EXCEPT ![t] = "setters"]
      /\ local'[t].todo = registry.items /\ local'[t].data = d /\ local'[t].commit = c
  <2>1. ControlTypes /\ Todo /\ RegistryTypes
    BY Zenon DEF Types
  <2> QED
    BY Zenon, <2>1, CaptureTypes
<1>3. pc'[t] = "setters" /\ Alone(t)
  BY Zenon, <1>2, PcMoves DEF Types, ControlTypes
<1>4. \A u \in Threads : u # t => pc'[u] \notin Working
  BY Zenon, <1>3, OnePass
<1>5. pc'[t] \in Working
  BY Zenon, <1>3 DEF Working
<1>6. Whole'
  BY Zenon, <1>5 DEF Whole
<1>7. ASSUME NEW u \in Threads, pc'[u] \in Working
      PROVE  local'[u].commit \in {None, local'[u].data} /\ \A i \in Names(registry'.items) : Given(u, i)'
  <2>1. u = t
    BY Zenon, <1>4, <1>7
  <2> QED
    BY Zenon, <1>2, <2>1 DEF Given, Commits
<1>8. Partial'
  BY Zenon, <1>7 DEF Partial
<1> QED
  BY Zenon, <1>6, <1>8

\* Nobody in a pass, and nothing that the hash would have to say.
LEMMA NothingSaid ==
  ASSUME Lock, NEW t \in Threads, Alone(t), pc[t] \in Working \/ apply = None, pc'[t] \notin Working,
         registry'.hash = None \/ past'.owed
  PROVE  Whole' /\ Partial'
<1>1. \A u \in Threads : pc'[u] \notin Working
  BY Zenon, OnePass
<1> QED
  BY Zenon, <1>1 DEF Whole, Partial

\* The fields of the history that a step notes.
LEMMA OwedFields ==
  ASSUME PastTypes, NEW x, NEW y
  PROVE  /\ [past EXCEPT !.owed = x].owed = x /\ [past EXCEPT !.owed = x].fresh = past.fresh
         /\ [past EXCEPT !.off = x].owed = past.owed /\ [past EXCEPT !.off = x].fresh = past.fresh
         /\ [past EXCEPT !.quiet = x].owed = past.owed /\ [past EXCEPT !.quiet = x].fresh = past.fresh
         /\ [past EXCEPT !.fresh = x].owed = past.owed /\ [past EXCEPT !.fresh = x].fresh = x
<1>1. /\ [past EXCEPT !.owed = x].owed = x /\ [past EXCEPT !.owed = x].fresh = past.fresh
      /\ [past EXCEPT !.off = x].owed = past.owed /\ [past EXCEPT !.off = x].fresh = past.fresh
  BY Zenon DEF PastTypes, Past
<1>2. /\ [past EXCEPT !.quiet = x].owed = past.owed /\ [past EXCEPT !.quiet = x].fresh = past.fresh
      /\ [past EXCEPT !.fresh = x].owed = past.owed /\ [past EXCEPT !.fresh = x].fresh = x
  BY Zenon DEF PastTypes, Past
<1> QED
  BY Zenon, <1>1, <1>2

\* reload() up to its setters.
LEMMA ReloadWhole ==
  ASSUME Types, Loads, Lock, Whole, Partial, NEW t \in Threads, Reloading(t)
  PROVE  Whole' /\ Partial'
<1>1. registry \in Registry /\ PastTypes /\ registry.path \in Paths \cup {None} /\ ControlTypes
  BY Zenon, RegistryFields DEF Types, RegistryTypes
<1>2. pc[t] = "pass" /\ apply = None /\ value' = value
  BY Zenon DEF Reloading, ReloadNothing, ReloadUnchanged, ReloadParseFails, ReloadCapture, At
<1>3. Alone(t) /\ Private(t)
  BY Zenon, ReloadMoves DEF Moves
<1>4. ASSUME EndReload(t) PROVE pc'[t] \notin Working /\ pc[t] \notin Working
  BY Zenon, <1>1, <1>2, <1>4, EndMoves DEF Working
<1>5. ASSUME EndReload(t), UNCHANGED <<registry, past>> PROVE Whole' /\ Partial'
  BY Zenon, <1>2, <1>3, <1>4, <1>5, DataFrame
<1>6. CASE ReloadNothing(t)
  <2>1. CASE registry.path = None
    BY Zenon, <1>5, <1>6, <2>1 DEF ReloadNothing
  <2>2. CASE registry.path # None
    <3>1. registry' = [registry EXCEPT !.hash = None] /\ EndReload(t)
      BY Zenon, <1>6, <2>2 DEF ReloadNothing
    <3>2. registry'.hash = None
      BY Zenon, <1>1, <3>1 DEF Registry
    <3> QED
      BY Zenon, <1>2, <1>3, <1>4, <3>1, <3>2, NothingSaid
  <2> QED
    BY Zenon, <2>1, <2>2
<1>7. CASE ReloadUnchanged(t)
  BY Zenon, <1>5, <1>7 DEF ReloadUnchanged
<1>8. CASE ReloadParseFails(t)
  <2>1. past' = [past EXCEPT !.owed = TRUE] /\ EndReload(t)
    BY Zenon, <1>8 DEF ReloadParseFails
  <2>2. past'.owed
    BY Zenon, <1>1, <2>1, OwedFields
  <2> QED
    BY Zenon, <1>2, <1>3, <1>4, <2>1, <2>2, NothingSaid
<1>9. CASE ReloadCapture(t)
  <2>1. Capture(t, registry.path, Current, Current, FALSE) /\ Readable(registry.path) /\ registry' = registry
    BY Zenon, <1>9 DEF ReloadCapture
  <2>2. Current \in Nat
    BY Zenon, <1>1, <2>1, ReadableData DEF Current, Types
  <2> QED
    BY Zenon, <1>1, <1>2, <2>1, <2>2, CaptureWhole DEF Commits, Captured
<1> QED
  BY Zenon, <1>6, <1>7, <1>8, <1>9 DEF Reloading

\* The setters of a pass, and the setter a bind_* calls.
LEMMA SetterWhole ==
  ASSUME Types, Loads, Lock, Whole, Partial, NEW t \in Threads, Setting(t)
  PROVE  Whole' /\ Partial'
<1>1. /\ local \in [Threads -> Local] /\ local[t] \in Local /\ local[t].todo \in Seq(Item) /\ DOMAIN pc = Threads
      /\ value \in [Item -> Nat] /\ PastTypes /\ ControlTypes
  BY Zenon, LocalFields DEF Types, ControlTypes, SharedTypes
<1>0. Names(registry.items) \subseteq Item
  <2>1. registry.items \in Seq(Item)
    BY Zenon, RegistryFields DEF Types, RegistryTypes
  <2> QED
    BY SMT, <2>1 DEF Names
<1>2. Alone(t) /\ Private(t)
  BY Zenon, SetterMoves DEF Moves
<1>3. ASSUME pc[t] \in Working, pc'[t] \in Working, registry' = registry, past' = past,
             local'[t].commit = local[t].commit, local'[t].data = local[t].data,
             \A i \in Names(registry.items) : Given(t, i) => Given(t, i)'
      PROVE  Whole' /\ Partial'
  <2>1. \A u \in Threads : u # t => pc'[u] \notin Working
    BY Zenon, <1>2, <1>3, OnePass
  <2>2. Whole'
    BY Zenon, <1>3 DEF Whole
  <2>3. local[t].commit \in {None, local[t].data} /\ \A i \in Names(registry.items) : Given(t, i)
    BY Zenon, <1>3 DEF Partial
  <2>4. Partial'
    BY Zenon, <1>3, <2>1, <2>3 DEF Partial
  <2> QED
    BY Zenon, <2>2, <2>4
<1>4. CASE NextSetter(t)
  <2>1. pc[t] \in Working /\ registry' = registry /\ past' = past /\ value' = value
    BY Zenon, <1>4 DEF NextSetter, At, Working, shared
  <2>2. CASE latch /\ ~ local[t].loading
    <3>1. local' = [local EXCEPT ![t] = [local[t] EXCEPT !.todo = <<>>, !.ok = FALSE]] /\ pc' = pc
      BY Zenon, <1>4, <2>2 DEF NextSetter
    <3>2. local'[t] = [local[t] EXCEPT !.todo = <<>>, !.ok = FALSE]
      BY Zenon, <1>1, <3>1, LocalMoves
    <3>3. local'[t].commit = local[t].commit /\ local'[t].data = local[t].data /\ ~ local'[t].ok
      BY Zenon, <1>1, <3>2 DEF Local
    <3> QED
      BY Zenon, <1>3, <2>1, <3>1, <3>3 DEF Given
  <2>3. CASE ~ (latch /\ ~ local[t].loading)
    <3>1. pc' = [pc EXCEPT ![t] = "setter"] /\ local' = local
      BY Zenon, <1>4, <2>3 DEF NextSetter, Goto
    <3>2. pc'[t] \in Working
      BY Zenon, <1>1, <3>1, PcMoves DEF Working
    <3> QED
      BY Zenon, <1>3, <2>1, <3>1, <3>2 DEF Given
  <2> QED
    BY Zenon, <2>2, <2>3
<1>5. CASE RunSetter(t)
  <2>1. pc[t] = "setter" /\ registry' = registry /\ past' = past /\ pc' = [pc EXCEPT ![t] = "setters"]
    BY Zenon, <1>5 DEF RunSetter, At, Goto
  <2>2. pc[t] \in Working /\ pc'[t] \in Working
    BY Zenon, <1>1, <2>1, PcMoves DEF Working
  <2>3. local[t].todo # <<>>
    BY Zenon, <2>1 DEF Types, Todo
  <2>4. /\ Head(local[t].todo) \in Item
        /\ Names(local[t].todo) = {Head(local[t].todo)} \cup Names(Tail(local[t].todo))
    BY Zenon, <1>1, <2>3, HeadTail
  <2>5. CASE /\ value' = [value EXCEPT ![Head(local[t].todo)] = local[t].data]
             /\ local' = [local EXCEPT ![t] = [local[t] EXCEPT !.todo = Tail(local[t].todo)]]
    <3>2. local'[t] = [local[t] EXCEPT !.todo = Tail(local[t].todo)]
      BY Zenon, <1>1, <2>5, LocalMoves
    <3>3. /\ local'[t].commit = local[t].commit /\ local'[t].data = local[t].data
          /\ local'[t].ok = local[t].ok /\ local'[t].todo = Tail(local[t].todo)
      BY Zenon, <1>1, <3>2 DEF Local
    <3>4. /\ value'[Head(local[t].todo)] = local[t].data
          /\ \A i : i # Head(local[t].todo) /\ i \in Item => value'[i] = value[i]
      BY Zenon, <1>1, <2>4, <2>5
    <3>6. ASSUME NEW i \in Names(registry.items), Given(t, i) PROVE Given(t, i)'
      <4>1. CASE i = Head(local[t].todo)
        BY Zenon, <3>3, <3>4, <4>1 DEF Given
      <4>2. CASE i # Head(local[t].todo)
        <5>1. value'[i] = value[i] /\ (i \in Names(local[t].todo) => i \in Names(local'[t].todo))
          BY Zenon, <1>0, <2>4, <3>3, <3>4, <3>6, <4>2
        <5> QED
          BY Zenon, <2>1, <3>3, <3>6, <5>1 DEF Given
      <4> QED
        BY Zenon, <4>1, <4>2
    <3> QED
      BY Zenon, <1>3, <2>1, <2>2, <3>3, <3>6
  <2>6. CASE local' = [local EXCEPT ![t] = [local[t] EXCEPT !.todo = Tail(local[t].todo), !.ok = FALSE]]
    <3>2. local'[t] = [local[t] EXCEPT !.todo = Tail(local[t].todo), !.ok = FALSE]
      BY Zenon, <1>1, <2>6, LocalMoves
    <3>3. local'[t].commit = local[t].commit /\ local'[t].data = local[t].data /\ ~ local'[t].ok
      BY Zenon, <1>1, <3>2 DEF Local
    <3> QED
      BY Zenon, <1>3, <2>1, <2>2, <3>3 DEF Given
  <2>7. \/ /\ value' = [value EXCEPT ![Head(local[t].todo)] = local[t].data]
           /\ local' = [local EXCEPT ![t] = [local[t] EXCEPT !.todo = Tail(local[t].todo)]]
        \/ local' = [local EXCEPT ![t] = [local[t] EXCEPT !.todo = Tail(local[t].todo), !.ok = FALSE]]
    BY Zenon, <1>5 DEF RunSetter
  <2> QED
    BY Zenon, <2>5, <2>6, <2>7
<1>6. CASE BindDefault(t)
  <2>1. /\ value' = [value EXCEPT ![Head(local[t].todo)] = Default]
        /\ past' = [past EXCEPT !.fresh = past.fresh \cup {Head(local[t].todo)}]
        /\ Return(t) /\ pc[t] = "bind" /\ registry' = registry
    BY Zenon, <1>6 DEF BindDefault, At
  <2>2. past'.owed = past.owed /\ past'.fresh = past.fresh \cup {Head(local[t].todo)}
    BY Zenon, <1>1, <2>1, OwedFields
  <2>3. pc'[t] \notin Working /\ pc[t] \notin Working
    BY Zenon, <1>1, <2>1, ReturnMoves DEF Working
  <2>4. ASSUME NEW i \in Names(registry.items) PROVE i \in past'.fresh \/ value'[i] = value[i]
    <3>1. CASE i # Head(local[t].todo)
      BY Zenon, <1>0, <1>1, <2>1, <2>4, <3>1
    <3> QED
      BY Zenon, <2>2, <3>1
  <2> QED
    BY Zenon, <1>2, <2>1, <2>2, <2>3, <2>4, DataFrame
<1> QED
  BY Zenon, <1>4, <1>5, <1>6 DEF Setting

\* The end of a pass, and load() up to its setters.
LEMMA EndingWhole ==
  ASSUME Types, Loads, Lock, Whole, Partial, NEW t \in Threads, Ending(t)
  PROVE  Whole' /\ Partial'
<1>1. /\ registry \in Registry /\ PastTypes /\ ControlTypes /\ DOMAIN pc = Threads
      /\ local[t].path \in Paths \cup {None} /\ local[t].commit \in Nat \cup {None}
  BY Zenon, LocalFields DEF Types, RegistryTypes, ControlTypes
<1>2. Alone(t) /\ Private(t)
  BY Zenon, EndingMoves DEF Moves
<1>3. CASE Commit(t)
  <2>1. pc[t] = "setters" /\ local[t].todo = <<>> /\ value' = value
    BY Zenon, <1>3 DEF Commit, At
  <2>2. pc[t] \in Working
    BY Zenon, <2>1 DEF Working
  <2>3. pc'[t] \notin Working
    <3>1. CASE Goto(t, "repoint")
      BY Zenon, <1>1, <3>1, PcMoves DEF Goto, Working
    <3>2. CASE EndReload(t)
      BY Zenon, <1>1, <3>2, EndMoves DEF Working
    <3> QED
      BY Zenon, <1>3, <3>1, <3>2 DEF Commit
  <2>4. CASE local[t].ok /\ local[t].commit # None
    <3>1. registry' = [registry EXCEPT !.hash = local[t].commit] /\ past' = [past EXCEPT !.owed = FALSE]
      BY Zenon, <1>3, <2>4 DEF Commit
    <3>2. registry'.hash = local[t].commit /\ registry'.items = registry.items
      BY Zenon, <1>1, <3>1 DEF Registry
    <3>3. past'.fresh = past.fresh
      BY Zenon, <1>1, <3>1, OwedFields
    <3>4. local[t].commit = local[t].data /\ \A i \in Names(registry.items) : Given(t, i)
      BY Zenon, <2>2, <2>4 DEF Partial
    <3>5. Names(local[t].todo) = {}
      <4>1. DOMAIN local[t].todo = {}
        BY SMT, <2>1
      <4> QED
        BY Zenon, <4>1 DEF Names
    <3>6. \A i \in Names(registry.items) : i \in past.fresh \/ value[i] = local[t].commit
      BY Zenon, <2>4, <3>4, <3>5 DEF Given
    <3>7. Whole'
      BY Zenon, <2>1, <3>2, <3>3, <3>6 DEF Whole, Vouched
    <3>8. \A u \in Threads : pc'[u] \notin Working
      BY Zenon, <1>2, <2>2, <2>3, OnePass
    <3> QED
      BY Zenon, <3>7, <3>8 DEF Partial
  <2>5. CASE ~ (local[t].ok /\ local[t].commit # None)
    <3>1. past' = [past EXCEPT !.owed = TRUE]
      BY Zenon, <1>3, <2>5 DEF Commit
    <3>2. past'.owed
      BY Zenon, <1>1, <3>1, OwedFields
    <3> QED
      BY Zenon, <1>2, <2>2, <2>3, <3>2, NothingSaid
  <2> QED
    BY Zenon, <2>4, <2>5
<1>4. CASE LoadCapture(t)
  <2>1. apply = None /\ registry' = [registry EXCEPT !.hash = None, !.path = local[t].path]
    BY Zenon, <1>4 DEF LoadCapture
  <2>2. registry'.items = registry.items
    BY Zenon, <1>1, <2>1 DEF Registry
  <2>3. CASE /\ Readable(local[t].path)
             /\ Capture(t, local[t].path, file[local[t].path].data, file[local[t].path].data, TRUE)
    <3>1. file[local[t].path].data \in Nat
      BY Zenon, <1>1, <2>3, ReadableData DEF Types
    <3>2. Captured(local[t].path, file[local[t].path].data, file[local[t].path].data, TRUE)
      BY Zenon, <1>1, <3>1 DEF Captured
    <3>3. Commits(file[local[t].path].data, file[local[t].path].data)
      BY Zenon DEF Commits
    <3> QED
      BY Zenon, <2>1, <2>2, <2>3, <3>2, <3>3, CaptureWhole
  <2>4. CASE Capture(t, local[t].path, Default, None, TRUE)
    <3>1. Default \in Nat
      BY SMT DEF Default
    <3>2. Captured(local[t].path, Default, None, TRUE) /\ Commits(None, Default)
      BY Zenon, <1>1, <3>1 DEF Captured, Commits
    <3> QED
      BY Zenon, <2>1, <2>2, <2>4, <3>2, CaptureWhole
  <2> QED
    BY Zenon, <1>4, <2>3, <2>4 DEF LoadCapture
<1> QED
  BY Zenon, <1>3, <1>4 DEF Ending

\* A step that leaves the pass lock alone and is not of a pass is not of one afterwards.
LEMMA StaysOut ==
  ASSUME NEW t \in Threads, Locks(t), apply' = apply, pc[t] \notin Passing
  PROVE  pc[t] \notin Working /\ pc'[t] \notin Working
<1>1. pc'[t] \notin Passing
  BY Zenon, Apart DEF Locks
<1> QED
  BY Zenon, <1>1 DEF Passing, Working

\* load() after its pass, enable_auto_reload(), disable_auto_reload() and the unload.
LEMMA RepointWhole ==
  ASSUME Types, Loads, Lock, Whole, Partial, NEW t \in Threads,
         Repointing(t) \/ ClearServicer(t) \/ UnloadDisables(t) \/ UnloadReturns(t) \/ Disable(t)
  PROVE  Whole' /\ Partial'
<1>1. PastTypes /\ ControlTypes /\ DOMAIN pc = Threads
  BY Zenon DEF Types, ControlTypes
<1>2. Moves(t)
  BY Zenon, RepointMoves, ClearMoves DEF Clearing
<1>3. registry' = registry /\ value' = value
  BY Zenon DEF Repointing, LoadRepoint, Join, RepointPath, LoadRestart, EnableStart, ClearServicer,
               UnloadDisables, UnloadReturns, Disable, shared
<1>4. past'.owed = past.owed /\ past'.fresh = past.fresh
  <2>1. PICK x : past' \in {past, [past EXCEPT !.off = x], [past EXCEPT !.quiet = x]}
    <3>1. CASE Repointing(t)
      BY Zenon, <3>1 DEF Repointing, LoadRepoint, Join, RepointPath, LoadRestart, EnableStart
    <3>2. CASE ClearServicer(t) \/ UnloadReturns(t)
      BY Zenon, <3>2 DEF ClearServicer, UnloadReturns
    <3>3. CASE UnloadDisables(t) \/ Disable(t)
      BY Zenon, <3>3 DEF UnloadDisables, Disable, DisableAutoReload
    <3> QED
      BY Zenon, <3>1, <3>2, <3>3
  <2>2. /\ [past EXCEPT !.off = x].owed = past.owed /\ [past EXCEPT !.off = x].fresh = past.fresh
        /\ [past EXCEPT !.quiet = x].owed = past.owed /\ [past EXCEPT !.quiet = x].fresh = past.fresh
    BY Zenon, <1>1, OwedFields
  <2> QED
    BY Zenon, <2>1, <2>2
<1>5. pc[t] \notin Working /\ pc'[t] \notin Working
  <2>1. CASE LoadRepoint(t)
    <3>1. pc[t] = "repoint"
      BY Zenon, <2>1 DEF LoadRepoint, At
    <3>2. CASE Return(t)
      BY Zenon, <1>1, <3>1, <3>2, ReturnMoves DEF Working
    <3>3. CASE Goto(t, "join")
      BY Zenon, <1>1, <3>1, <3>3, PcMoves DEF Goto, Working
    <3> QED
      BY Zenon, <2>1, <3>2, <3>3 DEF LoadRepoint
  <2>2. CASE ~ LoadRepoint(t)
    <3>1. apply' = apply
      BY Zenon, <2>2 DEF Repointing, Join, RepointPath, LoadRestart, EnableStart, ClearServicer,
                         UnloadDisables, UnloadReturns, Disable, shared
    <3>2. pc[t] \in {"join", "snapshot", "restart", "enable", "clear_servicer", "unload", "await"}
          \/ Called(t, "disable")
      BY Zenon, <2>2 DEF Repointing, Join, RepointPath, LoadRestart, EnableStart, ClearServicer,
                         UnloadDisables, UnloadReturns, Disable, At
    <3>3. pc[t] \notin Passing
      BY Zenon, <3>2, CalledFrom DEF Passing
    <3> QED
      BY Zenon, <1>2, <3>1, <3>3, StaysOut DEF Moves
  <2> QED
    BY Zenon, <2>1, <2>2
<1> QED
  BY Zenon, <1>2, <1>3, <1>4, <1>5, DataFrame DEF Moves

\* The consumer's calls and clear().
LEMMA CallWhole ==
  ASSUME Types, Loads, Lock, Whole, Partial, NEW t \in Threads, Calling(t) \/ ClearRegistry(t)
  PROVE  Whole' /\ Partial'
<1>1. PastTypes /\ registry \in Registry /\ registry.items \in Seq(Item)
  BY Zenon, RegistryFields DEF Types, RegistryTypes
<1>2. Moves(t)
  BY Zenon, CallMoves, ClearMoves DEF Clearing
<1>3. value' = value /\ apply' = apply
  BY Zenon DEF Calling, LoadBegins, Reload, EnablePath, ReloadHotkey, Bind, UnloadBegins, ClearRegistry, shared
<1>4. pc[t] = "clear" \/
      \E op \in {"load", "reload", "enable", "hotkey", "bind", "clear", "unload"} : Called(t, op)
  BY Zenon DEF Calling, LoadBegins, Reload, EnablePath, ReloadHotkey, Bind, UnloadBegins, ClearRegistry, At
<1>5. pc[t] \notin Passing
  BY Zenon, <1>4, CalledFrom DEF Passing
<1>6. pc[t] \notin Working /\ pc'[t] \notin Working /\ Alone(t) /\ Private(t)
  BY Zenon, <1>2, <1>3, <1>5, StaysOut DEF Moves
<1>7. ASSUME registry' = registry, past'.owed = past.owed, past'.fresh = past.fresh PROVE Whole' /\ Partial'
  BY Zenon, <1>3, <1>6, <1>7, DataFrame
<1>8. ASSUME NEW p \in Paths, LoadBegins(t, p) PROVE Whole' /\ Partial'
  <2>1. past' = [past EXCEPT !.quiet = FALSE] /\ registry' = registry
    BY Zenon, <1>8 DEF LoadBegins
  <2>2. past'.owed = past.owed /\ past'.fresh = past.fresh
    BY Zenon, <1>1, <2>1, OwedFields
  <2> QED
    BY Zenon, <1>7, <2>1, <2>2
<1>9. CASE Reload(t) \/ EnablePath(t) \/ ReloadHotkey(t) \/ \E l, n \in BOOLEAN : UnloadBegins(t, l, n)
  <2>1. past' = past /\ registry' = registry
    BY Zenon, <1>9 DEF Reload, EnablePath, ReloadHotkey, UnloadBegins, shared
  <2> QED
    BY Zenon, <1>7, <2>1
<1>10. ASSUME NEW i \in Item, Bind(t, i) PROVE Whole' /\ Partial'
  <2>1. /\ \/ registry' = [registry EXCEPT !.items = registry.items]
           \/ registry' = [registry EXCEPT !.items = Append(registry.items, i)]
        /\ past' = [past EXCEPT !.fresh = past.fresh \cup {i}]
    BY Zenon, <1>10 DEF Bind
  <2>2. past'.owed = past.owed /\ past'.fresh = past.fresh \cup {i}
    BY Zenon, <1>1, <2>1, OwedFields
  <2>3. /\ registry'.hash = registry.hash
        /\ registry'.items = registry.items \/ registry'.items = Append(registry.items, i)
    BY Zenon, <1>1, <2>1 DEF Registry
  <2>4. \A j \in Names(registry'.items) : j \in past'.fresh \/ (j \in Names(registry.items) /\ value'[j] = value[j])
    <3>1. Names(Append(registry.items, i)) = Names(registry.items) \cup {i}
      BY Zenon, <1>1, NamesAppend
    <3> QED
      BY Zenon, <1>3, <2>2, <2>3, <3>1
  <2> QED
    BY Zenon, <1>6, <2>2, <2>3, <2>4, DataFrame
<1>11. CASE ClearRegistry(t)
  <2>1. registry' = [items |-> <<>>, path |-> None, hash |-> None]
    BY Zenon, <1>11 DEF ClearRegistry
  <2>2. registry'.hash = None /\ registry'.items = <<>>
    BY Zenon, <2>1
  <2>3. Names(registry'.items) = {}
    BY SMT, <2>2 DEF Names
  <2>4. \A u \in Threads : pc'[u] \in Working => pc[u] \in Working /\ local'[u] = local[u]
    BY Zenon, <1>6 DEF Alone, Private
  <2>5. Partial'
    BY Zenon, <2>3, <2>4 DEF Partial
  <2> QED
    BY Zenon, <2>2, <2>5 DEF Whole
<1> QED
  BY Zenon, <1>8, <1>9, <1>10, <1>11 DEF Calling

\* Every step.
LEMMA WholeStep ==
  ASSUME Types, Loads, Lock, Whole, Partial, [Next]_vars
  PROVE  Whole' /\ Partial'
<1>1. CASE UNCHANGED <<registry, value, pc, local, past>>
  BY Zenon, <1>1 DEF Whole, Partial, Given, Vouched
<1>2. ASSUME NEW b \in Background, Guarding(b) \/ Watching(b) \/ Flagging(b) PROVE Whole' /\ Partial'
  <2>1. Alone(b) /\ GateMove(b) /\ UNCHANGED <<registry, value, local, past>> /\ b \in Threads
    BY Zenon, <1>2, BackgroundMoves, Apart
  <2>2. pc'[b] \in Working <=> pc[b] \in Working
    BY Zenon, <2>1 DEF GateMove, Working
  <2>3. Private(b)
    BY Zenon, <2>1 DEF Private
  <2> QED
    BY Zenon, <2>1, <2>2, <2>3, DataFrame
<1>3. ASSUME NEW t \in Threads, Acting(t) PROVE Whole' /\ Partial'
  BY Zenon, <1>3, ReloadWhole, SetterWhole, EndingWhole, RepointWhole, CallWhole DEF Acting, Clearing
<1>4. ASSUME NEW p \in Paths, BeginSave(p) \/ EndSave(p) PROVE Whole' /\ Partial'
  BY Zenon, <1>1, <1>4, SavesMoveNothing
<1>5. CASE UNCHANGED vars
  BY Zenon, <1>1, <1>5 DEF vars, shared
<1> QED
  BY Zenon, <1>2, <1>3, <1>4, <1>5, Kinds

-----------------------------------------------------------------------------
(* No item is registered twice. *)

LEMMA RegisteredStep ==
  ASSUME Counting, Types, Registered, [Next]_vars
  PROVE  Registered'
<1>1. registry \in Registry /\ registry.items \in Seq(Item)
  BY Zenon, RegistryFields DEF Types, RegistryTypes
<1>2. ASSUME registry'.items = registry.items PROVE Registered'
  BY Zenon, <1>2 DEF Registered
<1>3. CASE registry' = registry
  BY Zenon, <1>2, <1>3
<1>4. \A h, p : /\ [registry EXCEPT !.hash = h].items = registry.items
                /\ [registry EXCEPT !.hash = h, !.path = p].items = registry.items
  BY Zenon, <1>1 DEF Registry
<1>5. ASSUME NEW b \in Background, Guarding(b) \/ Watching(b) \/ Flagging(b) PROVE Registered'
  BY Zenon, <1>3, <1>5, BackgroundMoves
<1>6. ASSUME NEW p \in Paths, BeginSave(p) \/ EndSave(p) PROVE Registered'
  BY Zenon, <1>3, <1>6, SavesMoveNothing
<1>7. CASE UNCHANGED vars
  BY Zenon, <1>3, <1>7 DEF vars, shared
<1>8. ASSUME NEW t \in Threads, Reloading(t) \/ Setting(t) \/ Ending(t) PROVE Registered'
  <2>1. \/ registry' = registry
        \/ \E h : registry' = [registry EXCEPT !.hash = h]
        \/ \E h, p : registry' = [registry EXCEPT !.hash = h, !.path = p]
    BY Zenon, <1>8 DEF Reloading, Setting, Ending, ReloadNothing, ReloadUnchanged, ReloadParseFails,
                       ReloadCapture, NextSetter, RunSetter, BindDefault, Commit, LoadCapture, shared
  <2>2. registry'.items = registry.items
    <3>1. ASSUME NEW h, registry' = [registry EXCEPT !.hash = h] PROVE registry'.items = registry.items
      BY Zenon, <1>4, <3>1
    <3>2. ASSUME NEW h, NEW p, registry' = [registry EXCEPT !.hash = h, !.path = p]
          PROVE  registry'.items = registry.items
      BY Zenon, <1>4, <3>2
    <3> QED
      BY Zenon, <2>1, <3>1, <3>2
  <2> QED
    BY Zenon, <1>2, <2>2
<1>9. ASSUME NEW t \in Threads, Repointing(t) PROVE Registered'
  <2>1. registry' = registry
    BY Zenon, <1>9 DEF Repointing, LoadRepoint, Join, RepointPath, LoadRestart, EnableStart, shared
  <2> QED
    BY Zenon, <1>3, <2>1
<1>10. ASSUME NEW t \in Threads, Clearing(t) PROVE Registered'
  <2>1. CASE ClearRegistry(t)
    <3>1. registry'.items = <<>>
      BY Zenon, <2>1 DEF ClearRegistry
    <3>2. Names(registry'.items) = {} /\ Len(registry'.items) = 0
      BY SMT, <3>1 DEF Names
    <3>3. IsFiniteSet({}) /\ Cardinality({}) = 0
      BY Zenon DEF Counting
    <3> QED
      BY Zenon, <3>2, <3>3 DEF Registered
  <2>2. CASE ~ ClearRegistry(t)
    <3>1. registry' = registry
      BY Zenon, <1>10, <2>2 DEF Clearing, ClearServicer, UnloadDisables, UnloadReturns, Disable, shared
    <3> QED
      BY Zenon, <1>3, <3>1
  <2> QED
    BY Zenon, <2>1, <2>2
<1>11. ASSUME NEW t \in Threads, Calling(t) PROVE Registered'
  <2>1. CASE registry' = registry
    BY Zenon, <1>3, <2>1
  <2>2. ASSUME NEW i \in Item, Bind(t, i) PROVE Registered'
    <3>1. registry' = [registry EXCEPT !.items = IF \E k \in DOMAIN registry.items : registry.items[k] = i
                                                 THEN registry.items ELSE Append(registry.items, i)]
      BY Zenon, <2>2 DEF Bind
    <3>2. registry'.items = IF \E k \in DOMAIN registry.items : registry.items[k] = i
                            THEN registry.items ELSE Append(registry.items, i)
      BY Zenon, <1>1, <3>1 DEF Registry
    <3>3. CASE \E k \in DOMAIN registry.items : registry.items[k] = i
      BY Zenon, <1>2, <3>2, <3>3
    <3>4. CASE ~ \E k \in DOMAIN registry.items : registry.items[k] = i
      <4>1. registry'.items = Append(registry.items, i) /\ i \notin Names(registry.items)
        BY Zenon, <3>2, <3>4 DEF Names
      <4>2. /\ Names(registry'.items) = Names(registry.items) \cup {i}
            /\ Len(registry'.items) = Len(registry.items) + 1
        BY Zenon, <1>1, <4>1, NamesAppend
      <4>3. /\ IsFiniteSet(Names(registry'.items))
            /\ Cardinality(Names(registry'.items)) = Cardinality(Names(registry.items)) + 1
        BY Zenon, <4>1, <4>2 DEF Counting, Registered
      <4> QED
        BY Zenon, <4>2, <4>3 DEF Registered
    <3> QED
      BY Zenon, <3>3, <3>4
  <2> QED
    BY Zenon, <1>11, <2>1, <2>2 DEF Calling, LoadBegins, Reload, EnablePath, ReloadHotkey, UnloadBegins, shared
<1> QED
  BY Zenon, <1>5, <1>6, <1>7, <1>8, <1>9, <1>10, <1>11, Kinds DEF Acting

-----------------------------------------------------------------------------
(* The invariant holds and says what is claimed. *)

LEMMA InvStep ==
  ASSUME Counting, CInv, [Next]_vars
  PROVE  CInv'
<1>1. Types' /\ Registered' /\ Lock' /\ Loads'
  BY Zenon, TypesStep, RegisteredStep, LockStep, LoadsStep DEF CInv
<1>2. Gate' /\ Quiet' /\ Off'
  BY Zenon, GateStep, QuietStep, OffStep DEF CInv
<1>3. Whole' /\ Partial'
  BY Zenon, WholeStep DEF CInv
<1> QED
  BY Zenon, <1>1, <1>2, <1>3 DEF CInv

\* The program starts with nothing loaded, or with one file loaded and watched.
LEMMA InvInit ==
  ASSUME Counting, IsFiniteSet(Item), Init
  PROVE  CInv
<1> DEFINE q == CHOOSE f \in Paths : TRUE
<1>1. q \in Paths
  BY Zenon, ConfigAssumption
<1> PICK started \in BOOLEAN :
    /\ file = [f \in Paths |-> [data |-> 1, locked |-> FALSE]]
    /\ latch = FALSE /\ inFlight = 0 /\ apply = None
    /\ registry = [items |-> Items, path |-> IF started THEN q ELSE None,
                   hash |-> IF started THEN 1 ELSE None]
    /\ value = [i \in Item |-> IF started THEN 1 ELSE Default]
    /\ auto = [watcher |-> IF started THEN 1 ELSE None, callback |-> started, generation |-> 0]
    /\ hotkey = [slot |-> started, ref |-> started, enabled |-> started]
    /\ bg = [b \in Background |->
              [life |-> IF started /\ b \in {1, Servicer} THEN "runs" ELSE "none",
               stop |-> FALSE, pending |-> FALSE,
               path |-> IF started /\ b = 1 THEN q ELSE None, cb |-> started /\ b = 1]]
    /\ pc = [t \in Threads |-> "idle"]
    /\ local = [t \in Threads |-> Blank]
    /\ past = [fresh |-> IF started THEN {} ELSE Item, owed |-> FALSE, off |-> ~ started,
               quiet |-> FALSE]
  BY Zenon DEF Init
<1> HIDE DEF q
<1>2. 0 \in Nat /\ 1 \in Nat /\ 1 \in Watchers /\ Default \in Nat /\ Default = 0
  BY SMT, ConfigAssumption DEF Watchers, Default
<1>3. \A t \in Threads : pc[t] = "idle" /\ local[t] = Blank
  BY Zenon
<1>4. SharedTypes
  <2>1. file \in [Paths -> [data : Nat, locked : BOOLEAN]] /\ latch \in BOOLEAN /\ apply \in Threads \cup {None}
    BY Zenon, <1>2
  <2>2. value \in [Item -> Nat]
    BY Zenon, <1>2
  <2>3. hotkey \in Hotkey
    BY Zenon DEF Hotkey
  <2> QED
    BY Zenon, <2>1, <2>2, <2>3 DEF SharedTypes
<1>5. RegistryTypes
  BY Zenon, <1>1, <1>2, ConfigAssumption DEF RegistryTypes, Registry
<1>6. AutoTypes
  <2>1. auto \in Slot
    BY Zenon, <1>2 DEF Slot
  <2>2. ASSUME NEW b \in Background
        PROVE  [life |-> IF started /\ b \in {1, Servicer} THEN "runs" ELSE "none",
                stop |-> FALSE, pending |-> FALSE,
                path |-> IF started /\ b = 1 THEN q ELSE None, cb |-> started /\ b = 1] \in Bg
    <3>1. (IF started /\ b \in {1, Servicer} THEN "runs" ELSE "none") \in Life
      BY Zenon DEF Life
    <3>2. (IF started /\ b = 1 THEN q ELSE None) \in Paths \cup {None}
      BY Zenon, <1>1
    <3>3. (started /\ b = 1) \in BOOLEAN
      BY Zenon
    <3> QED
      BY Zenon, <3>1, <3>2, <3>3 DEF Bg
  <2>3. bg \in [Background -> Bg]
    BY Zenon, <2>2
  <2> QED
    BY Zenon, <2>1, <2>3 DEF AutoTypes
<1>7. ControlTypes /\ Todo
  BY Zenon, <1>3, BlankType DEF ControlTypes, Todo
<1>8. PastTypes
  BY Zenon DEF PastTypes, Past
<1>9. Names(registry.items) = Item /\ Len(registry.items) = Len(Items) /\ registry.hash = IF started THEN 1 ELSE None
  <2>1. DOMAIN Items = 1 .. Len(Items)
    BY SMT, ConfigAssumption
  <2>2. registry.items = Items /\ registry.hash = IF started THEN 1 ELSE None
    BY Zenon
  <2> QED
    BY Zenon, <2>1, <2>2 DEF Names, Item
<1>10. Registered
  BY Zenon, <1>9, ConfigAssumption DEF Registered
<1>11. Lock
  BY Zenon, <1>3, Apart DEF Lock, Passing
<1>12. Gate
  <2>1. InFlight = {}
    BY Zenon, <1>3, Apart DEF InFlight, Outside
  <2>2. Cardinality({}) = 0
    BY Zenon DEF Counting
  <2> QED
    BY Zenon, <2>1, <2>2 DEF Gate
<1>13. ~ past.quiet /\ past.off = (~ started) /\ past.fresh = (IF started THEN {} ELSE Item)
  BY Zenon
<1>14. Quiet
  BY Zenon, <1>13 DEF Quiet
<1>15. \A t \in Threads : ~ local[t].loading
  BY Zenon, <1>3 DEF Blank
<1>16. Loads
  BY Zenon, <1>3, <1>15 DEF Loads, Loaded, Repointed
<1>17. Off
  <2>1. past.off => auto.watcher = None
    BY Zenon, <1>13
  <2> QED
    BY Zenon, <1>15, <2>1 DEF Off, Joining
<1>18. Whole
  <2>1. ASSUME started, NEW i \in Item PROVE value[i] = registry.hash
    BY Zenon, <1>9, <2>1
  <2> QED
    BY Zenon, <1>9, <1>13, <2>1 DEF Whole, Vouched
<1>19. Partial
  BY Zenon, <1>3 DEF Partial, Working
<1> QED
  BY Zenon, <1>4, <1>5, <1>6, <1>7, <1>8, <1>10, <1>11, <1>12, <1>14, <1>16, <1>17, <1>18, <1>19 DEF CInv, Types

\* Outside a pass no thread runs its setters.
LEMMA InvMeansWhole ==
  ASSUME CInv
  PROVE  PassesAreWhole
<1>1. SUFFICES ASSUME apply = None, registry.hash # None, ~ past.owed, NEW k \in DOMAIN registry.items
               PROVE  Vouched(registry.items[k])
  BY Zenon DEF PassesAreWhole
<1>2. \A t \in Threads : pc[t] \notin Working
  BY Zenon, <1>1, Apart DEF CInv, Lock, Working, Passing
<1>3. registry.items[k] \in Names(registry.items)
  BY Zenon, <1>1 DEF Names
<1> QED
  BY Zenon, <1>1, <1>2, <1>3 DEF CInv, Whole

\* The types, the slot and the gate.
LEMMA InvMeansOff ==
  ASSUME Counting, CInv
  PROVE  OffIsOff
<1>1. Cardinality(InFlight) \in Nat /\ Cardinality(Background) \in Nat /\ Cardinality(InFlight) <= Cardinality(Background)
  <2>1. InFlight \in SUBSET Background
    BY Zenon DEF InFlight
  <2> QED
    BY Zenon, <2>1 DEF Counting
<1>2. inFlight \in 0 .. Cardinality(Background)
  BY SMT, <1>1 DEF CInv, Gate
<1>3. registry.items \in Seq(Item) /\ registry.path \in Paths \cup {None} /\ registry.hash \in Nat \cup {None}
  BY Zenon, RegistryFields DEF CInv, Types, RegistryTypes
<1>4. Cardinality({registry.items[i] : i \in DOMAIN registry.items}) = Len(registry.items)
  BY Zenon DEF CInv, Registered, Names
<1>5. TypeOK
  BY Zenon, <1>2, <1>3, <1>4 DEF TypeOK, CInv, Types, SharedTypes, AutoTypes, Slot, Bg, Life, Hotkey
<1>6. DisabledStaysOff
  BY Zenon DEF CInv, Off, DisabledStaysOff
<1>7. QuietAfterUnload
  BY Zenon DEF CInv, Quiet, Held, Outside, QuietAfterUnload
<1> QED
  BY Zenon, <1>5, <1>6, <1>7 DEF OffIsOff

-----------------------------------------------------------------------------

INSTANCE FiniteSetTheorems

\* Background threads are finitely many, and finite sets have the sizes one expects.
LEMMA CountingHolds == Counting
<1>1. \A S : IsFiniteSet(S) => Cardinality(S) \in Nat /\ (Cardinality(S) = 0 <=> S = {})
  BY Zenon, FS_CardinalityType, FS_EmptySet
<1>2. \A S, x : IsFiniteSet(S) /\ x \notin S =>
        IsFiniteSet(S \cup {x}) /\ Cardinality(S \cup {x}) = Cardinality(S) + 1
  BY Zenon, FS_AddElement
<1>3. IsFiniteSet(Watchers)
  BY SMT, ConfigAssumption, FS_Interval DEF Watchers
<1>4. IsFiniteSet(Background)
  BY Zenon, <1>3, FS_AddElement DEF Background
<1>5. \A S \in SUBSET Background : IsFiniteSet(S) /\ Cardinality(S) <= Cardinality(Background)
  BY Zenon, <1>4, FS_Subset
<1> QED
  BY Zenon, <1>1, <1>2, <1>4, <1>5 DEF Counting

\* Finitely many items are bound at start.
LEMMA ItemsAreFinite == IsFiniteSet(Item)
<1>1. Len(Items) \in Nat /\ DOMAIN Items = 1 .. Len(Items) /\ Items \in [1 .. Len(Items) -> Item]
  BY SMT, ConfigAssumption
<1>2. IsFiniteSet(1 .. Len(Items))
  BY SMT, <1>1, FS_Interval
<1>3. \A i \in Item : \E k \in 1 .. Len(Items) : Items[k] = i
  BY Zenon DEF Item
<1>4. Items \in Surjection(1 .. Len(Items), Item)
  BY Zenon, <1>1, <1>3 DEF Surjection
<1> QED
  BY Zenon, <1>2, <1>4, FS_Surjection

\* config.cpp, the passes of load() and reload(), the auto-reload slot and the reload gate:
\* the inductive invariant behind the results below.
THEOREM ConfigInvariantHolds == Spec => []CInv
<1>1. Init => CInv
  BY Zenon, InvInit, CountingHolds, ItemsAreFinite
<1>2. CInv /\ [Next]_vars => CInv'
  BY Zenon, InvStep, CountingHolds
<1> QED
  BY <1>1, <1>2, PTL DEF Spec

\* config.cpp, load() and reload() under get_reload_apply_mutex: passes do not interleave;
\* outside a pass the remembered hash is that of the bytes every item was last given, unless
\* the item was registered since or the pass that read other bytes was cut short.
THEOREM PassesStayWhole == Spec => []PassesAreWhole
<1>1. CInv => PassesAreWhole
  BY Zenon, InvMeansWhole
<1> QED
  BY <1>1, ConfigInvariantHolds, PTL

\* config.cpp, disable_auto_reload() and its generation, config_reload_gate.hpp and
\* on_logic_dll_unload: the types hold, a disabled auto-reload is not brought back by a load()
\* that was re-pointing the watcher, and after an unload that found nothing in flight no
\* background thread runs a setter or the callback until the next load().
THEOREM OffStaysOff == Spec => []OffIsOff
<1>1. CInv => OffIsOff
  BY Zenon, InvMeansOff, CountingHolds
<1> QED
  BY <1>1, ConfigInvariantHolds, PTL
=============================================================================
