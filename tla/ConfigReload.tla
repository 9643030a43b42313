---------------------------- MODULE ConfigReload ----------------------------
(***************************************************************************)
(* The configuration registry under hot reload (config.cpp): load() and    *)
(* reload() passes that read a file, decide by its content hash and run    *)
(* the bound setters; the auto-reload watcher slot that load() re-points,  *)
(* enable_auto_reload() fills and disable_auto_reload() empties; the       *)
(* servicer that reloads for the hotkey; and the gate that keeps both      *)
(* background threads out of a Logic DLL that is being unloaded            *)
(* (config_reload_gate.hpp, on_logic_dll_unload in session.cpp).           *)
(*                                                                         *)
(* A section under the config mutex or the watcher mutex is one step.  The *)
(* pass lock (get_reload_apply_mutex) is explicit: setters run under it.   *)
(* File contents are numbers and hash to themselves; a setter called with  *)
(* the values of content c leaves c in its item.  The watcher is seen from *)
(* here as a thread that is told of every finished save (ConfigWatcher     *)
(* models how).  Setters do not call back into the functions config.hpp    *)
(* forbids them; the user callback may.                                    *)
(***************************************************************************)
EXTENDS Naturals, Sequences, FiniteSets

CONSTANTS Apps,        \* the consumer's own threads
          MaxWatchers, \* bound on the watcher threads alive at once
          Servicer,    \* the reload servicer thread
          Paths,       \* INI files
          Items,       \* the items bound at start, in registration order
          Contents,    \* what is written to them, numbers from 1
          None,
          Scenarios    \* what the environment may do: [ops, calls, events, kinds, faults]

\* Of a scenario, ops is the set of calls the consumer makes, [op, from] with from a thread of
\* Apps or "callback"; the rest are bounds: on these calls, on the saves and presses of the
\* hotkey, and on the faults: of kinds "setter" (it throws), "parse" and "start" (they fail).

Watchers   == 1 .. MaxWatchers
Background == Watchers \cup {Servicer}
Threads    == Apps \cup Background
Item       == {Items[i] : i \in 1 .. Len(Items)}
Default    == 0   \* the registered defaults of all items; contents are 1, 2, ...

ASSUME ConfigAssumption ==
  /\ MaxWatchers \in Nat \ {0}
  /\ Apps \cap Watchers = {} /\ Servicer \notin Apps \cup Watchers
  /\ Paths # {} /\ None \notin Threads \cup Paths \cup Nat
  /\ Items \in Seq(Item) /\ Cardinality(Item) = Len(Items)
  /\ Contents \subseteq Nat

VARIABLES file,      \* path -> [data, locked]; locked: cannot be opened, mid-save
          latch,     \* reload_disabled_latch
          inFlight,  \* reload_in_flight_count
          apply,     \* the holder of the pass lock
          registry,  \* the registered items, last loaded path and last loaded hash
          value,     \* item -> what its setter was last called with
          auto,      \* the watcher slot, its user callback, the disable generation
          hotkey,    \* references to the servicer: our slot, the binding's capture;
                     \* enabled: the binding's guard is held
          bg,        \* background thread -> [life, stop, pending, path, cb]
          pc, local, \* thread -> where it is, its local variables
          env,       \* what is left of the scenario
          past       \* history: see Init

shared == <<file, latch, inFlight, apply, registry, value, auto, hotkey, bg>>
vars   == <<shared, pc, local, env, past>>

Blank == [path |-> None, todo |-> <<>>, data |-> Default, commit |-> None, ok |-> TRUE,
          loading |-> FALSE, thread |-> None, generation |-> 0,
          unloading |-> FALSE, loaderLock |-> FALSE]

TypeOK ==
  /\ file \in [Paths -> [data : Nat, locked : BOOLEAN]]
  /\ latch \in BOOLEAN /\ inFlight \in 0 .. Cardinality(Background)
  /\ apply \in Threads \cup {None}
  /\ registry.path \in Paths \cup {None} /\ registry.hash \in Nat \cup {None}
  /\ registry.items \in Seq(Item) /\ Cardinality({registry.items[i] : i \in DOMAIN registry.items})
                                     = Len(registry.items)
  /\ value \in [Item -> Nat]
  /\ auto \in [watcher : Watchers \cup {None}, callback : BOOLEAN, generation : Nat]
  /\ hotkey \in [slot : BOOLEAN, ref : BOOLEAN, enabled : BOOLEAN]
  /\ bg \in [Background -> [life : {"none", "runs", "done"}, stop : BOOLEAN, pending : BOOLEAN,
                            path : Paths \cup {None}, cb : BOOLEAN]]

\* past.fresh: items whose default was applied after the values of the last pass were read.
\* past.owed: the last bytes that differed from the hash were not given to every item.
\* past.off: auto-reload was last switched off.  past.quiet: an unload found the background threads quiesced, and
\* no load() came since.
Init ==
  LET p == CHOOSE f \in Paths : TRUE
  IN \E started \in BOOLEAN :  \* p is loaded and watched, the hotkey is registered
    /\ file = [f \in Paths |-> [data |-> 1, locked |-> FALSE]]
    /\ latch = FALSE /\ inFlight = 0 /\ apply = None
    /\ registry = [items |-> Items, path |-> IF started THEN p ELSE None,
                   hash |-> IF started THEN 1 ELSE None]
    /\ value = [i \in Item |-> IF started THEN 1 ELSE Default]
    /\ auto = [watcher |-> IF started THEN 1 ELSE None, callback |-> started, generation |-> 0]
    /\ hotkey = [slot |-> started, ref |-> started, enabled |-> started]
    /\ bg = [b \in Background |->
              [life |-> IF started /\ b \in {1, Servicer} THEN "runs" ELSE "none",
               stop |-> FALSE, pending |-> FALSE,
               path |-> IF started /\ b = 1 THEN p ELSE None, cb |-> started /\ b = 1]]
    /\ pc = [t \in Threads |-> "idle"]
    /\ local = [t \in Threads |-> Blank]
    /\ env \in Scenarios
    /\ past = [fresh |-> IF started THEN {} ELSE Item, owed |-> FALSE, off |-> ~ started,
               quiet |-> FALSE]

-----------------------------------------------------------------------------
(* Control. *)

At(t, where)   == pc[t] = where
Goto(t, where) == pc' = [pc EXCEPT ![t] = where]

\* A consumer call returns to the consumer's thread, or to the watcher's lambda if the user
\* callback made it.
Return(t) ==
  /\ Goto(t, IF t \in Apps THEN "idle" ELSE "leave")
  /\ local' = [local EXCEPT ![t] = Blank]

Fault(kind) == kind \in env.kinds /\ env.faults > 0 /\ env' = [env EXCEPT !.faults = @ - 1]
NoFault     == env' = env
Event       == env.events > 0 /\ env' = [env EXCEPT !.events = @ - 1]

\* The consumer calls op from a thread of its own, or from its on_reload callback.
Called(t, op) ==
  /\ [op |-> op, from |-> IF t \in Apps THEN t ELSE "callback"] \in env.ops
  /\ At(t, IF t \in Apps THEN "idle" ELSE "callback")
  /\ env.calls > 0
  /\ env' = [env EXCEPT !.calls = @ - 1]

-----------------------------------------------------------------------------
(* BackgroundReloadGuard: check, increment, check again. *)

GuardCheck(b) ==
  /\ At(b, "check")
  /\ Goto(b, IF latch THEN "idle" ELSE "enter")
  /\ UNCHANGED <<shared, local, env, past>>

GuardEnter(b) ==
  /\ At(b, "enter")
  /\ inFlight' = inFlight + 1
  /\ Goto(b, "recheck")
  /\ UNCHANGED <<file, latch, apply, registry, value, auto, hotkey, bg, local, env, past>>

GuardRecheck(b) ==
  /\ At(b, "recheck")
  /\ inFlight' = IF latch THEN inFlight - 1 ELSE inFlight
  /\ Goto(b, IF latch THEN "idle" ELSE "pass")
  /\ UNCHANGED <<file, latch, apply, registry, value, auto, hotkey, bg, local, env, past>>

\* The servicer looks for another press before it waits again.
GuardLeave(b) ==
  /\ At(b, "leave")
  /\ inFlight' = inFlight - 1
  /\ Goto(b, IF b = Servicer THEN "drain" ELSE "idle")
  /\ UNCHANGED <<file, latch, apply, registry, value, auto, hotkey, bg, local, env, past>>

-----------------------------------------------------------------------------
(* A pass: reload_impl, and the part of load() that applies values. *)

\* The values are read under the config mutex; the setters run after it is released.
Capture(t, p, data, commit, loading) ==
  /\ local' = [local EXCEPT ![t] =
                 [@ EXCEPT !.path = p, !.todo = registry.items, !.data = data,
                           !.commit = commit, !.ok = TRUE, !.loading = loading]]
  /\ apply' = t
  /\ Goto(t, "setters")

EndReload(t) ==
  /\ apply' = None
  /\ Goto(t, CASE t \in Apps -> "idle" [] t \in Watchers -> "report" [] OTHER -> "leave")
  /\ local' = [local EXCEPT ![t] = Blank]

Readable(p) == p # None /\ ~ file[p].locked
Current == file[registry.path].data

\* Without an earlier load(), or with a file that cannot be opened, nothing is applied.
ReloadNothing(t) ==
  /\ At(t, "pass") /\ apply = None /\ ~ Readable(registry.path)
  /\ IF registry.path = None THEN UNCHANGED <<registry, past>>
     ELSE /\ registry' = [registry EXCEPT !.hash = None]
          /\ past' = [past EXCEPT !.owed = FALSE]
  /\ EndReload(t)
  /\ UNCHANGED <<file, latch, inFlight, value, auto, hotkey, bg, env>>

\* The bytes of last time: the setters are skipped.
ReloadUnchanged(t) ==
  /\ At(t, "pass") /\ apply = None /\ Readable(registry.path)
  /\ registry.hash = Current
  /\ EndReload(t)
  /\ UNCHANGED <<file, latch, inFlight, registry, value, auto, hotkey, bg, env, past>>

\* SimpleIni ran out of memory: the values are kept, the hash of the bytes is remembered.
ReloadParseFails(t) ==
  /\ At(t, "pass") /\ apply = None /\ Readable(registry.path)
  /\ registry.hash # Current
  /\ Fault("parse")
  /\ registry' = [registry EXCEPT !.hash = Current]
  /\ past' = [past EXCEPT !.owed = TRUE]
  /\ EndReload(t)
  /\ UNCHANGED <<file, latch, inFlight, value, auto, hotkey, bg>>

ReloadUnserialized(t) ==
  /\ At(t, "pass") /\ Readable(registry.path)
  /\ registry.hash # Current
  /\ Capture(t, registry.path, Current, Current, FALSE)
  /\ past' = [past EXCEPT !.fresh = {}]
  /\ UNCHANGED <<file, latch, inFlight, registry, value, auto, hotkey, bg, env>>

ReloadCapture(t) ==
  /\ At(t, "pass") /\ apply = None /\ Readable(registry.path)
  /\ registry.hash # Current
  /\ Capture(t, registry.path, Current, Current, FALSE)
  /\ past' = [past EXCEPT !.fresh = {}]
  /\ UNCHANGED <<file, latch, inFlight, registry, value, auto, hotkey, bg, env>>

\* Before each setter reload() looks at the unload latch, and gives up the remaining ones.
\* load() does not look.
NextSetter(t) ==
  /\ At(t, "setters") /\ local[t].todo # <<>>
  /\ IF latch /\ ~ local[t].loading
     THEN /\ local' = [local EXCEPT ![t].todo = <<>>, ![t].ok = FALSE]
          /\ UNCHANGED pc
     ELSE Goto(t, "setter") /\ UNCHANGED local
  /\ UNCHANGED <<shared, env, past>>

\* A throwing setter does not keep the others from running.
RunSetter(t) ==
  /\ At(t, "setter")
  /\ Goto(t, "setters")
  /\ \/ /\ value' = [value EXCEPT ![Head(local[t].todo)] = local[t].data]
        /\ local' = [local EXCEPT ![t].todo = Tail(@)]
        /\ NoFault
     \/ /\ Fault("setter")
        /\ local' = [local EXCEPT ![t].todo = Tail(@), ![t].ok = FALSE]
        /\ UNCHANGED value
  /\ UNCHANGED <<file, latch, inFlight, apply, registry, auto, hotkey, bg, past>>

\* The hash is remembered only if every setter took its value.
Commit(t) ==
  /\ At(t, "setters") /\ local[t].todo = <<>>
  /\ IF local[t].ok /\ local[t].commit # None
     THEN /\ registry' = [registry EXCEPT !.hash = local[t].commit]
          /\ past' = [past EXCEPT !.owed = FALSE]
     ELSE UNCHANGED registry /\ past' = [past EXCEPT !.owed = TRUE]
  /\ IF local[t].loading THEN Goto(t, "repoint") /\ UNCHANGED <<apply, local>> ELSE EndReload(t)
  /\ UNCHANGED <<file, latch, inFlight, value, auto, hotkey, bg, env>>

\* config::reload() on a thread of the consumer.
Reload(t) ==
  /\ Called(t, "reload")
  /\ Goto(t, "pass")
  /\ UNCHANGED <<shared, local, past>>

-----------------------------------------------------------------------------
(* The watcher's lambda after the pass, and its thread. *)

\* The latch is looked at again before the user callback.
Report(w) ==
  /\ At(w, "report")
  /\ Goto(w, IF bg[w].cb /\ ~ latch THEN "callback" ELSE "leave")
  /\ UNCHANGED <<shared, local, env, past>>

CallbackReturns(w) ==
  /\ w \in Watchers /\ At(w, "callback")
  /\ Goto(w, "leave")
  /\ UNCHANGED <<shared, local, env, past>>

\* The debounce window of a change passed, or the thread stops with a change pending.
WatcherFires(w) ==
  /\ At(w, "idle") /\ bg[w].life = "runs" /\ bg[w].pending
  /\ bg' = [bg EXCEPT ![w].pending = FALSE]
  /\ Goto(w, "check")
  /\ UNCHANGED <<file, latch, inFlight, apply, registry, value, auto, hotkey, local, env, past>>

BgExits(b) ==
  /\ At(b, "idle") /\ bg[b].life = "runs" /\ bg[b].stop
  /\ b \in Watchers => ~ bg[b].pending
  /\ bg' = [bg EXCEPT ![b].life = "done"]
  /\ UNCHANGED <<file, latch, inFlight, apply, registry, value, auto, hotkey, pc, local, env,
                 past>>

-----------------------------------------------------------------------------
(* ReloadServicer. *)

Press ==
  /\ hotkey.enabled /\ hotkey.ref /\ Event
  /\ bg' = [bg EXCEPT ![Servicer].pending = TRUE]
  /\ UNCHANGED <<file, latch, inFlight, apply, registry, value, auto, hotkey, pc, local, past>>

\* service_loop wakes with a request and no stop.
ServicerWakes ==
  /\ At(Servicer, "idle") /\ bg[Servicer].life = "runs"
  /\ bg[Servicer].pending /\ ~ bg[Servicer].stop
  /\ Goto(Servicer, "drain")
  /\ UNCHANGED <<shared, local, env, past>>

\* Requests made during a pass are taken together, without looking at the stop again.
ServicerDrains ==
  /\ At(Servicer, "drain")
  /\ bg' = [bg EXCEPT ![Servicer].pending = FALSE]
  /\ Goto(Servicer, IF bg[Servicer].pending THEN "check" ELSE "idle")
  /\ UNCHANGED <<file, latch, inFlight, apply, registry, value, auto, hotkey, local, env, past>>

Joined(b) == \E t \in Threads : local[t].thread = b

\* reload_hotkey: the first one starts the servicer.
ReloadHotkey(t) ==
  /\ hotkey.slot \/ (bg[Servicer].life # "runs" /\ ~ Joined(Servicer))
  /\ Called(t, "hotkey")
  /\ hotkey' = [slot |-> TRUE, ref |-> TRUE, enabled |-> TRUE]
  /\ bg' = IF hotkey.slot THEN bg
           ELSE [bg EXCEPT ![Servicer] = [@ EXCEPT !.life = "runs", !.stop = FALSE,
                                                   !.pending = FALSE]]
  /\ Goto(t, pc[t])
  /\ UNCHANGED <<file, latch, inFlight, apply, registry, value, auto, local, past>>

-----------------------------------------------------------------------------
(* load(). *)

LoadBegins(t, p) ==
  /\ Called(t, "load")
  /\ latch' = FALSE
  /\ past' = [past EXCEPT !.quiet = FALSE]
  /\ local' = [local EXCEPT ![t].path = p]
  /\ Goto(t, "load")
  /\ UNCHANGED <<file, inFlight, apply, registry, value, auto, hotkey, bg>>

\* The hash is forgotten on every outcome and the path remembered; a file that cannot be
\* read or parsed gives every item its default.
LoadCapture(t) ==
  /\ At(t, "load") /\ apply = None
  /\ registry' = [registry EXCEPT !.hash = None, !.path = local[t].path]
  /\ past' = [past EXCEPT !.fresh = {}, !.owed = FALSE]
  /\ LET p == local[t].path
     IN \/ /\ Readable(p) /\ NoFault
           /\ Capture(t, p, file[p].data, file[p].data, TRUE)
        \/ /\ IF Readable(p) THEN Fault("parse") ELSE NoFault
           /\ Capture(t, p, Default, None, TRUE)
  /\ UNCHANGED <<file, latch, inFlight, value, auto, hotkey, bg>>

RepointUnderLock(t) ==
  /\ At(t, "repoint")
  /\ LET w == auto.watcher
     IN IF w # None /\ w # t /\ bg[w].path # local[t].path
        THEN /\ auto' = [auto EXCEPT !.watcher = None]
             /\ bg' = [bg EXCEPT ![w].stop = TRUE]
             /\ local' = [local EXCEPT ![t].thread = w, ![t].generation = auto.generation]
             /\ Goto(t, "join") /\ apply' = apply
        ELSE Return(t) /\ apply' = None /\ UNCHANGED <<auto, bg>>
  /\ UNCHANGED <<file, latch, inFlight, registry, value, hotkey, env, past>>

\* A watcher on another file is moved out of its slot, unless this is its own thread, and
\* told to stop; the pass lock is released before it is joined.
LoadRepoint(t) ==
  /\ At(t, "repoint")
  /\ apply' = None
  /\ LET w == auto.watcher
     IN IF w # None /\ w # t /\ bg[w].path # local[t].path
        THEN /\ auto' = [auto EXCEPT !.watcher = None]
             /\ bg' = [bg EXCEPT ![w].stop = TRUE]
             /\ local' = [local EXCEPT ![t].thread = w, ![t].generation = auto.generation]
             /\ Goto(t, "join")
        ELSE Return(t) /\ UNCHANGED <<auto, bg>>
  /\ UNCHANGED <<file, latch, inFlight, registry, value, hotkey, env, past>>

\* The latest remembered path, read before the watcher mutex is taken.
RepointPath(t) ==
  /\ At(t, "snapshot")
  /\ local' = [local EXCEPT ![t].path = registry.path]
  /\ Goto(t, "restart")
  /\ UNCHANGED <<shared, env, past>>

FreeWatchers == {w \in Watchers : bg[w].life # "runs" /\ ~ Joined(w)}

\* start_watcher_locked, for a slot that is empty.  A watcher that fails to start takes
\* the callback with it.
StartWatcher(p, cb) ==
  \/ /\ NoFault
     /\ \E w \in FreeWatchers :
          /\ \A v \in FreeWatchers : w <= v
          /\ auto' = [auto EXCEPT !.watcher = w, !.callback = cb]
          /\ bg' = [bg EXCEPT ![w] = [life |-> "runs", stop |-> FALSE, pending |-> FALSE,
                                      path |-> p, cb |-> cb]]
  \/ /\ Fault("start")
     /\ auto' = [auto EXCEPT !.callback = FALSE]
     /\ UNCHANGED bg

RestartAnyway(t) ==
  /\ At(t, "restart") /\ FreeWatchers # {}
  /\ IF local[t].path # None /\ auto.watcher = None
     THEN StartWatcher(local[t].path, auto.callback)
     ELSE NoFault /\ UNCHANGED <<auto, bg>>
  /\ Return(t)
  /\ UNCHANGED <<file, latch, inFlight, apply, registry, value, hotkey, past>>

\* The watcher is started again unless auto-reload was disabled during the join.
LoadRestart(t) ==
  /\ At(t, "restart") /\ FreeWatchers # {}
  /\ IF local[t].path # None /\ auto.generation = local[t].generation /\ auto.watcher = None
     THEN StartWatcher(local[t].path, auto.callback)
     ELSE NoFault /\ UNCHANGED <<auto, bg>>
  /\ Return(t)
  /\ UNCHANGED <<file, latch, inFlight, apply, registry, value, hotkey, past>>

-----------------------------------------------------------------------------
(* enable_auto_reload() and disable_auto_reload(). *)

EnablePath(t) ==
  /\ Called(t, "enable")
  /\ IF registry.path = None THEN Return(t)
     ELSE local' = [local EXCEPT ![t].path = registry.path] /\ Goto(t, "enable")
  /\ UNCHANGED <<shared, past>>

\* The callback of a running watcher is kept.
EnableStart(t, cb) ==
  /\ At(t, "enable") /\ FreeWatchers # {}
  /\ IF auto.watcher # None THEN NoFault /\ UNCHANGED <<auto, bg, past>>
     ELSE StartWatcher(local[t].path, cb) /\ past' = [past EXCEPT !.off = FALSE]
  /\ Return(t)
  /\ UNCHANGED <<file, latch, inFlight, apply, registry, value, hotkey>>

\* Moves the watcher out and joins it, or detaches it under the loader lock.  A call on the
\* watcher's or the servicer's own thread is ignored.
DisableAutoReload(t, next) ==
  IF t \in {auto.watcher, Servicer}
  THEN /\ IF next = "idle" THEN Return(t) ELSE Goto(t, next) /\ UNCHANGED local
       /\ UNCHANGED <<auto, bg, past>>
  ELSE /\ auto' = [watcher |-> None, callback |-> FALSE, generation |-> auto.generation + 1]
       /\ past' = [past EXCEPT !.off = TRUE]
       /\ IF auto.watcher = None THEN UNCHANGED bg
          ELSE bg' = [bg EXCEPT ![auto.watcher].stop = TRUE]
       /\ IF auto.watcher = None \/ local[t].loaderLock
          THEN IF next = "idle" THEN Return(t) ELSE Goto(t, next) /\ UNCHANGED local
          ELSE Goto(t, "join") /\ local' = [local EXCEPT ![t].thread = auto.watcher]

Disable(t) ==
  /\ Called(t, "disable")
  /\ DisableAutoReload(t, "idle")
  /\ UNCHANGED <<file, latch, inFlight, apply, registry, value, hotkey>>

\* The destructor of a watcher or of the servicer waits for its thread.
Join(t) ==
  /\ At(t, "join") /\ bg[local[t].thread].life = "done"
  /\ IF local[t].loading
     THEN Goto(t, "snapshot") /\ local' = [local EXCEPT ![t].thread = None]
     ELSE IF local[t].unloading
     THEN /\ Goto(t, IF local[t].thread = Servicer THEN "await" ELSE "clear")
          /\ local' = [local EXCEPT ![t].thread = None]
     ELSE Return(t)
  /\ UNCHANGED <<shared, env, past>>

-----------------------------------------------------------------------------
(* Registration, clear() and the unload of a Logic DLL. *)

\* bind_*: the item is registered, then its setter is called with the default.
Bind(t, i) ==
  /\ Called(t, "bind")
  /\ registry' = [registry EXCEPT !.items =
                    IF \E k \in DOMAIN @ : @[k] = i THEN @ ELSE Append(@, i)]
  /\ past' = [past EXCEPT !.fresh = @ \cup {i}]
  /\ local' = [local EXCEPT ![t].todo = <<i>>]
  /\ Goto(t, "bind")
  /\ UNCHANGED <<file, latch, inFlight, apply, value, auto, hotkey, bg>>

BindDefault(t) ==
  /\ At(t, "bind")
  /\ value' = [value EXCEPT ![Head(local[t].todo)] = Default]
  /\ past' = [past EXCEPT !.fresh = @ \cup {Head(local[t].todo)}]
  /\ Return(t)
  /\ UNCHANGED <<file, latch, inFlight, apply, registry, auto, hotkey, bg, env>>

\* clear(): the registry, then the hotkey guards and our reference to the servicer.  With the
\* last reference ~ReloadServicer stops the thread, and joins it unless the loader lock is
\* held.
ClearRegistry(t) ==
  /\ \/ Called(t, "clear")
     \/ At(t, "clear") /\ UNCHANGED env
  /\ registry' = [items |-> <<>>, path |-> None, hash |-> None]
  /\ past' = [past EXCEPT !.owed = FALSE]
  /\ Goto(t, "clear_servicer")
  /\ UNCHANGED <<file, latch, inFlight, apply, value, auto, hotkey, bg, local>>

ClearServicer(t) ==
  /\ At(t, "clear_servicer")
  /\ hotkey' = [hotkey EXCEPT !.slot = FALSE, !.enabled = FALSE]
  /\ LET last == hotkey.slot /\ ~ hotkey.ref
     IN /\ bg' = IF last THEN [bg EXCEPT ![Servicer].stop = TRUE] ELSE bg
        /\ IF last /\ ~ local[t].loaderLock
           THEN Goto(t, "join") /\ local' = [local EXCEPT ![t].thread = Servicer]
           ELSE IF local[t].unloading THEN Goto(t, "await") /\ UNCHANGED local
           ELSE Return(t)
  /\ UNCHANGED <<file, latch, inFlight, apply, registry, value, auto, env, past>>

\* on_logic_dll_unload and on_logic_dll_unload_all: the bindings named are removed, which
\* may include the hotkey's (modelled while our own reference to the servicer is held), then
\* the latch is set.
UnloadBegins(t, loaderLock, named) ==
  /\ Called(t, "unload")
  /\ hotkey' = IF named THEN [hotkey EXCEPT !.ref = FALSE, !.enabled = FALSE] ELSE hotkey
  /\ hotkey.slot \/ ~ named
  /\ latch' = TRUE
  /\ local' = [local EXCEPT ![t].unloading = TRUE, ![t].loaderLock = loaderLock]
  /\ Goto(t, "unload")
  /\ UNCHANGED <<file, inFlight, apply, registry, value, auto, bg, past>>

UnloadDisables(t) ==
  /\ At(t, "unload")
  /\ DisableAutoReload(t, "clear")
  /\ UNCHANGED <<file, latch, inFlight, apply, registry, value, hotkey, env>>

\* await_reloads_quiesced: until no pass runs consumer code, or the time is over.
UnloadReturns(t) ==
  /\ At(t, "await")
  /\ past' = [past EXCEPT !.quiet = (inFlight = 0 /\ latch)]
  /\ Return(t)
  /\ UNCHANGED <<shared, env>>

-----------------------------------------------------------------------------
(* The INI files. *)

BeginSave(p) ==
  /\ ~ file[p].locked /\ Event
  /\ file' = [file EXCEPT ![p].locked = TRUE]
  /\ UNCHANGED <<latch, inFlight, apply, registry, value, auto, hotkey, bg, pc, local, past>>

EndSave(p) ==
  /\ file[p].locked
  /\ \E c \in Contents : file' = [file EXCEPT ![p] = [data |-> c, locked |-> FALSE]]
  /\ bg' = [b \in Background |->
              IF bg[b].path = p /\ bg[b].life = "runs" /\ ~ bg[b].stop
              THEN [bg[b] EXCEPT !.pending = TRUE] ELSE bg[b]]
  /\ UNCHANGED <<latch, inFlight, apply, registry, value, auto, hotkey, pc, local, env, past>>

-----------------------------------------------------------------------------
\* What a thread does once a call or a background pass has begun.
Step(t) ==
  \/ ReloadNothing(t) \/ ReloadUnchanged(t) \/ ReloadParseFails(t) \/ ReloadCapture(t)
  \/ NextSetter(t) \/ RunSetter(t) \/ Commit(t)
  \/ LoadCapture(t) \/ LoadRepoint(t) \/ Join(t) \/ RepointPath(t) \/ LoadRestart(t)
  \/ \E cb \in BOOLEAN : EnableStart(t, cb)
  \/ BindDefault(t) \/ (At(t, "clear") /\ ClearRegistry(t)) \/ ClearServicer(t)
  \/ UnloadDisables(t) \/ UnloadReturns(t)

BgStep(b) ==
  \/ GuardCheck(b) \/ GuardEnter(b) \/ GuardRecheck(b) \/ GuardLeave(b)
  \/ b \in Watchers /\ (Report(b) \/ CallbackReturns(b) \/ WatcherFires(b))
  \/ b = Servicer /\ (ServicerWakes \/ ServicerDrains)
  \/ BgExits(b)

Consumer(t) ==
  \/ \E p \in Paths : LoadBegins(t, p)
  \/ Reload(t) \/ EnablePath(t) \/ Disable(t) \/ ReloadHotkey(t)
  \/ \E i \in Item : Bind(t, i)
  \/ (~ At(t, "clear") /\ ClearRegistry(t))
  \/ \E l, n \in BOOLEAN : UnloadBegins(t, l, n)

Progress == (\E t \in Threads : Step(t)) \/ (\E b \in Background : BgStep(b))

Next ==
  \/ Progress
  \/ \E t \in Apps \cup Watchers : Consumer(t)
  \/ \E p \in Paths : BeginSave(p) \/ EndSave(p)
  \/ Press

\* Threads that can go on do, and setters and callbacks return.
Spec == Init /\ [][Next]_vars /\ WF_vars(Progress)

-----------------------------------------------------------------------------
(* Properties. *)

Vouched(i) == i \in past.fresh \/ value[i] = registry.hash

\* Passes do not interleave: outside a pass the hash is that of the bytes every item was
\* last given, unless the item was registered since or the last pass with new bytes was cut
\* short by a throwing setter, the unload latch or a failed parse.
PassesAreWhole ==
  apply = None /\ registry.hash # None /\ ~ past.owed =>
    \A k \in DOMAIN registry.items : Vouched(registry.items[k])

\* The comments at the hash: it is "of the bytes last successfully loaded", and a setter
\* failure must not leave "partially applied state behind the unchanged-content fast path".
\* Outside a pass, bytes that reload() skips as unchanged are the bytes every item was given.
UnchangedMeansApplied ==
  apply = None /\ Readable(registry.path) /\ registry.hash = Current =>
    \A k \in DOMAIN registry.items : Vouched(registry.items[k])

\* A disabled auto-reload stays off until it is enabled again: a load() that was
\* re-pointing the watcher meanwhile does not bring it back.
DisabledStaysOff == past.off => auto.watcher = None

\* Once an unload has found the background threads quiesced, none of them is in a setter
\* or in the user callback until the next load(), although a watcher that was detached
\* may still flush a pending change and the hotkey may still be pressed.
QuietAfterUnload ==
  past.quiet => \A b \in Background : pc[b] \notin {"setter", "callback"}

\* Nothing waits forever: when the consumer's calls, presses and saves come to an end, every
\* call has returned, although joined threads need the pass lock to finish, and every change
\* and press was taken up.
Settles ==
  <>[](/\ \A t \in Threads : At(t, "idle")
       /\ \A b \in Background : bg[b].pending => bg[b].life = "done")

\* The comment at load()'s re-point: a later load() lets the re-point "pick up the latest
\* path" or "re-points it normally".  At rest, a running watcher watches the loaded file.
WatcherFollows ==
  /\ \A t \in Threads : At(t, "idle")
  /\ auto.watcher # None /\ registry.path # None
  => bg[auto.watcher].path = registry.path

\* config.cpp, disable_auto_reload and the unload latch: what was switched off stays off, and after
\* an unload the background threads are quiet.
OffIsOff == TypeOK /\ DisabledStaysOff /\ QuietAfterUnload
=============================================================================
