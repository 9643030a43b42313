--------------------------- MODULE ConfigWatcher ---------------------------
(***************************************************************************)
(* The watcher of one configuration file (internal/config_watcher.cpp) on  *)
(* its StoppableWorker (worker.cpp): start with its handshake, stop, the   *)
(* destructor, and the worker that pumps directory notifications, debounces*)
(* them and calls the reload callback.                                     *)
(*                                                                         *)
(* The callback does not stop the watcher (config.cpp sees to that), stop  *)
(* is not called under the loader lock and the destructor runs alone.      *)
(* What the kernel does is external: it keeps the changes for which no     *)
(* read is pending, may report that it lost some, and may never complete   *)
(* the read of a directory that was removed.  The logger's warning, error  *)
(* and debug may throw (fault "log"), which unwinds the worker's body.     *)
(***************************************************************************)
EXTENDS Integers, Sequences, FiniteSets

CONSTANTS Controllers, \* threads that call the watcher
          MaxWorkers,  \* bound on the worker threads there ever are
          Debounce,    \* ticks of quiet before the callback
          None,
          Scenarios    \* [script: controller -> calls] and the bounds [edits, churn, faults]

Workers == 1 .. MaxWorkers

VARIABLES impl,      \* m_impl: "live", "leaked" (the watcher is a husk) or "freed"
          lock,      \* start_mutex
          worker,    \* Impl::worker
          slot,      \* Impl::worker_thread_id
          thread,    \* worker -> its StoppableWorker, its body's locals and its I/O bundle
          removed,   \* the directory is gone
          pc, local, env,
          unread     \* history: a change of the file that is not reported yet: "no", "kernel"
                     \* (only the kernel knows of it) or "worker" (the worker saw it)

vars == <<impl, lock, worker, slot, thread, removed, pc, local, env, unread>>

NoThread == [at |-> "none", stop |-> FALSE, joined |-> FALSE, ref |-> FALSE, promise |-> "unset",
             pending |-> FALSE, quiet |-> 0, irp |-> "none", events |-> {}, batch |-> {}, io |-> "none",
             threw |-> FALSE]   \* history: a log call unwound the body

Init ==
  \E s \in Scenarios :
    /\ impl = "live" /\ lock = None /\ worker = None /\ slot = None
    /\ thread = [w \in Workers |-> NoThread]
    /\ removed = FALSE
    /\ pc = [c \in Controllers |-> "idle"]
    /\ local = [c \in Controllers |-> [mine |-> None, result |-> None]]
    /\ env = s /\ unread = "no"

-----------------------------------------------------------------------------
At(c, where)   == pc[c] = where
Goto(c, where) == pc' = [pc EXCEPT ![c] = where]
Fault(kind) == kind \in env.faults /\ env' = [env EXCEPT !.faults = @ \ {kind}]

Return(c, result) ==
  /\ Goto(c, "idle")
  /\ local' = [local EXCEPT ![c] = [mine |-> None, result |-> result]]

\* The next call of a controller.  The destructor is the last one.
Call(c) ==
  /\ At(c, "idle") /\ env.script[c] # <<>> /\ impl # "freed"
  /\ LET op == Head(env.script[c])
     IN /\ op \in {"destroy", "destroy_loader"} =>
             \A d \in Controllers \ {c} : At(d, "idle") /\ env.script[d] = <<>>
        /\ local' = [local EXCEPT ![c].result = None]
        /\ Goto(c, op)
  /\ env' = [env EXCEPT !.script[c] = Tail(@)]
  /\ UNCHANGED <<impl, lock, worker, slot, thread, removed, unread>>

\* start looks whether there is an Impl before it takes the mutex inside it ...
Start(c) ==
  /\ At(c, "start")
  /\ IF impl = "leaked" THEN Return(c, FALSE) ELSE Goto(c, "make") /\ UNCHANGED local
  /\ UNCHANGED <<impl, lock, worker, slot, thread, removed, env, unread>>

\* ... and uses m_impl again under it: null by then, if the start before this one timed out.
\* The worker is made under the mutex, after the reference to the module.
Make(c) ==
  /\ At(c, "make")
  /\ \/ /\ impl = "leaked" /\ lock = None
        /\ Goto(c, "null") /\ UNCHANGED <<local, lock, worker, thread, env>>
     \/ /\ impl = "live" /\ lock = None /\ worker # None
        /\ Return(c, TRUE) /\ UNCHANGED <<lock, worker, thread, env>>
     \/ /\ impl = "live" /\ lock = None /\ worker = None
        /\ \/ \E w \in Workers :
                /\ thread[w].at = "none" /\ \A v \in Workers : v < w => thread[v].at # "none"
                /\ thread' = [thread EXCEPT ![w] = [NoThread EXCEPT !.at = "publish", !.ref = TRUE]]
                /\ worker' = w /\ lock' = c
                /\ Goto(c, "handshake") /\ UNCHANGED <<local, env>>
           \/ Fault("thread") /\ Return(c, FALSE) /\ UNCHANGED <<lock, worker, thread>>
  /\ UNCHANGED <<impl, slot, removed, unread>>

\* It waits five seconds for the answer of the worker.  The promise is shared by start itself,
\* so that a worker that throws leaves it unset.  When the warning of the timeout throws, the
\* timeout is not recorded and the worker is joined after all.
Handshake(c) ==
  /\ At(c, "handshake")
  /\ LET p == thread[worker].promise
     IN \/ /\ p = "ok"
           /\ lock' = None /\ Return(c, TRUE) /\ UNCHANGED <<impl, thread, env>>
        \/ /\ p = "failed"
           /\ Goto(c, "drop") /\ UNCHANGED <<impl, lock, local, thread, env>>
        \/ /\ p = "unset"
           /\ thread[worker].at = "done" \/ "hang" \in env.faults
           /\ thread' = [thread EXCEPT ![worker].stop = TRUE]
           /\ \/ /\ env' = [env EXCEPT !.faults = @ \ {"hang"}]
                 /\ impl' = "leaked" /\ lock' = None /\ Return(c, FALSE)
              \/ /\ "log" \in env.faults /\ env' = [env EXCEPT !.faults = @ \ {"hang", "log"}]
                 /\ Goto(c, "drop") /\ UNCHANGED <<impl, lock, local>>
  /\ UNCHANGED <<worker, slot, removed, unread>>

\* The worker that failed is joined; the watcher can be started again.
DropFailed(c) ==
  /\ At(c, "drop") /\ thread[worker].at = "done"
  /\ thread' = [thread EXCEPT ![worker].joined = TRUE, ![worker].ref = FALSE]
  /\ worker' = None /\ lock' = None
  /\ Return(c, FALSE)
  /\ UNCHANGED <<impl, slot, removed, env, unread>>

\* stop, with the same two looks at m_impl.
Stop(c) ==
  /\ pc[c] \in {"stop", "destroy"}
  /\ \/ /\ impl = "leaked"
        /\ IF At(c, "destroy") THEN Goto(c, "free") /\ UNCHANGED local ELSE Return(c, None)
     \/ /\ impl = "live"
        /\ local' = [local EXCEPT ![c].result = pc[c]] /\ Goto(c, "take")
  /\ UNCHANGED <<impl, lock, worker, slot, thread, removed, env, unread>>

\* The worker is taken out under the mutex and shut down outside it.
Take(c) ==
  /\ At(c, "take") /\ lock = None
  /\ IF impl = "leaked" THEN Goto(c, "null") /\ UNCHANGED <<worker, local>>
     ELSE /\ worker' = None
          /\ local' = [local EXCEPT ![c].mine = worker]
          /\ Goto(c, "shutdown")
  /\ UNCHANGED <<impl, lock, slot, thread, removed, env, unread>>

\* StoppableWorker::shutdown: once, with a join.
Shutdown(c) ==
  /\ At(c, "shutdown")
  /\ LET w == local[c].mine
         next == IF local[c].result = "destroy" THEN "free" ELSE "idle"
     IN \/ /\ w # None => thread[w].joined
           /\ Goto(c, next) /\ UNCHANGED thread
        \/ /\ w # None /\ ~ thread[w].joined
           /\ thread' = [thread EXCEPT ![w].joined = TRUE, ![w].stop = TRUE]
           /\ Goto(c, "join")
  /\ UNCHANGED <<impl, lock, worker, slot, removed, local, env, unread>>

Join(c) ==
  /\ At(c, "join")
  /\ LET w == local[c].mine
     IN /\ thread[w].at = "done"
        /\ thread' = [thread EXCEPT ![w].ref = FALSE]
  /\ Goto(c, IF local[c].result = "destroy" THEN "free" ELSE "idle")
  /\ UNCHANGED <<impl, lock, worker, slot, removed, local, env, unread>>

FreeImpl(c) ==
  /\ At(c, "free")
  /\ impl' = IF impl = "live" THEN "freed" ELSE impl
  /\ Return(c, None)
  /\ UNCHANGED <<lock, worker, slot, thread, removed, env, unread>>

\* The destructor under the loader lock: stop is asked for, the thread is detached with its
\* reference to the module, and the Impl is left behind.
DestroyUnderLoader(c) ==
  /\ At(c, "destroy_loader")
  /\ thread' = IF impl # "live" \/ worker = None THEN thread
               ELSE [thread EXCEPT ![worker].joined = TRUE, ![worker].stop = TRUE]
  /\ impl' = "leaked"
  /\ Return(c, None)
  /\ UNCHANGED <<lock, worker, slot, removed, env, unread>>

-----------------------------------------------------------------------------
(* The worker. *)

Is(w, where) == thread[w].at = where
To(w, where) == thread' = [thread EXCEPT ![w].at = where]

Publish(w) ==
  /\ Is(w, "publish")
  /\ slot' = w
  /\ To(w, "open")
  /\ UNCHANGED <<impl, lock, worker, removed, pc, local, env, unread>>

\* The directory and the event are opened and the first read is issued; memory may run out, and
\* so may the log call of a failure throw ("throw").
Open(w) ==
  /\ Is(w, "open")
  /\ \/ /\ thread' = [thread EXCEPT ![w].at = "top", ![w].io = "held", ![w].irp = "pending", ![w].promise = "ok"]
        /\ UNCHANGED env
     \/ /\ Fault("open")
        /\ thread' = [thread EXCEPT ![w].at = "clear", ![w].promise = "failed"]
     \/ /\ Fault("throw")
        /\ To(w, "clear")
  /\ unread' = "no"
  /\ UNCHANGED <<impl, lock, worker, slot, removed, pc, local>>

TopWithoutDeadline(w) ==
  /\ Is(w, "top")
  /\ To(w, IF thread[w].stop THEN "cancel" ELSE "wait")
  /\ UNCHANGED <<impl, lock, worker, slot, removed, pc, local, env, unread>>

\* Every turn looks at the stop token and then at the debounce deadline.
Top(w) ==
  /\ Is(w, "top")
  /\ LET due == thread[w].pending /\ thread[w].quiet >= Debounce
     IN IF thread[w].stop THEN To(w, "cancel") /\ UNCHANGED unread
        ELSE IF due THEN /\ thread' = [thread EXCEPT ![w].at = "wait", ![w].pending = FALSE]
                         /\ unread' = "no"
        ELSE To(w, "wait") /\ UNCHANGED unread
  /\ UNCHANGED <<impl, lock, worker, slot, removed, pc, local, env>>

\* The walk over the notification entries: did one of them name the file?  A batch that was
\* lost counts as a match.
Matched(batch) == batch \cap {"target", "lost"} # {}

\* One wait of at most 100 ms.  The read may have completed, timed out, been aborted with the
\* directory, or failed; a completed one is issued again.
Wait(w) ==
  /\ Is(w, "wait")
  /\ LET hit == Matched(thread[w].batch)
         seen(irp, at) == [thread EXCEPT ![w].pending = @ \/ hit, ![w].quiet = IF hit THEN 0 ELSE @,
                                         ![w].batch = {}, ![w].irp = irp, ![w].at = at]
     IN \/ /\ thread[w].irp = "done"
           /\ \/ thread' = seen("pending", "top") /\ UNCHANGED env
              \/ Fault("read") /\ thread' = seen("none", "cancel")
        \/ /\ thread[w].irp = "pending" /\ To(w, "top") /\ UNCHANGED env
        \/ /\ thread[w].irp = "pending"
           /\ (removed /\ UNCHANGED env) \/ Fault("read")
           /\ thread' = [thread EXCEPT ![w].irp = "none", ![w].at = "cancel"]
  /\ unread' = IF thread[w].irp = "done" /\ unread = "kernel" /\ Matched(thread[w].batch)
               THEN "worker" ELSE unread
  /\ UNCHANGED <<impl, lock, worker, slot, removed, pc, local>>

\* A log call throws: the locals of the body are destroyed, the bundle among them, and neither
\* the drain nor the last callback is reached.
Unwound(t) == [t EXCEPT !.at = "clear", !.io = "freed", !.pending = FALSE, !.batch = {}, !.threw = TRUE]

\* In the pump these are the lines for lost notifications, a removed directory and a read that
\* failed; no read is pending at any of them.
WaitThrows(w) ==
  /\ Is(w, "wait") /\ Fault("log")
  /\ \/ thread[w].irp = "done" /\ ("lost" \in thread[w].batch \/ "read" \in env.faults)
     \/ thread[w].irp = "pending" /\ (removed \/ "read" \in env.faults)
  /\ thread' = [thread EXCEPT ![w] = Unwound([@ EXCEPT !.irp = "none"])]
  /\ UNCHANGED <<impl, lock, worker, slot, removed, pc, local, unread>>

CancelAndFree(w) ==
  /\ Is(w, "cancel")
  /\ \/ thread' = [thread EXCEPT ![w].irp = "none", ![w].at = "flush"]
     \/ removed /\ To(w, "flush")
  /\ UNCHANGED <<impl, lock, worker, slot, removed, pc, local, env, unread>>

\* The read is cancelled; one of a removed directory may not complete within the bound.
Cancel(w) ==
  /\ Is(w, "cancel")
  /\ \/ thread' = [thread EXCEPT ![w].irp = "none", ![w].at = "flush"]
     \/ removed /\ thread[w].irp = "pending" /\ To(w, "close")
  /\ UNCHANGED <<impl, lock, worker, slot, removed, pc, local, env, unread>>

\* Closing the directory should complete it; if it does not, the bundle is left behind, after
\* a warning.  When the warning throws, the bundle is destroyed with the read still pending.
CloseDirectory(w) ==
  /\ Is(w, "close")
  /\ \/ thread' = [thread EXCEPT ![w].irp = "none", ![w].at = "flush"] /\ UNCHANGED env
     \/ thread' = [thread EXCEPT ![w].io = "leaked", ![w].at = "flush"] /\ UNCHANGED env
     \/ thread' = [thread EXCEPT ![w] = Unwound(@)] /\ Fault("log")
  /\ UNCHANGED <<impl, lock, worker, slot, removed, pc, local, unread>>

\* A pending change is reported on the way out; then the bundle is freed.
Flush(w) ==
  /\ Is(w, "flush")
  /\ unread' = IF thread[w].pending THEN "no" ELSE unread
  /\ thread' = [thread EXCEPT ![w].pending = FALSE, ![w].at = "clear",
                              ![w].io = IF @ = "held" THEN "freed" ELSE @]
  /\ UNCHANGED <<impl, lock, worker, slot, removed, pc, local, env>>

\* WorkerThreadIdGuard: the last thing the body does.
ClearSlot(w) ==
  /\ Is(w, "clear")
  /\ slot' = None
  /\ To(w, "done")
  /\ UNCHANGED <<impl, lock, worker, removed, pc, local, env, unread>>

-----------------------------------------------------------------------------
(* The world outside. *)

\* The file or a neighbour of it is written; every open directory handle learns of it.
Change(what) ==
  /\ ~ removed
  /\ LET pumps == {w \in Workers : thread[w].at \in {"top", "wait"}}
     IN /\ pumps # {}
        /\ thread' = [w \in Workers |-> IF w \in pumps THEN [thread[w] EXCEPT !.events = @ \cup {what}]
                                        ELSE thread[w]]
  /\ IF what = "target"
     THEN env.edits > 0 /\ env' = [env EXCEPT !.edits = @ - 1] /\ unread' = "kernel"
     ELSE env.churn /\ UNCHANGED <<env, unread>>
  /\ UNCHANGED <<impl, lock, worker, slot, removed, pc, local>>

\* "storm": notifications are lost any number of times.
Complete(w) ==
  /\ thread[w].irp = "pending" /\ thread[w].events # {} /\ ~ removed
  /\ \E lost \in BOOLEAN :
       /\ thread' = [thread EXCEPT ![w].irp = "done", ![w].events = {},
                                   ![w].batch = IF lost THEN {"lost"} ELSE thread[w].events]
       /\ IF lost /\ "storm" \notin env.faults THEN Fault("lost") ELSE UNCHANGED env
  /\ UNCHANGED <<impl, lock, worker, slot, removed, pc, local, unread>>

Remove ==
  /\ Fault("remove")
  /\ removed' = TRUE
  /\ UNCHANGED <<impl, lock, worker, slot, thread, pc, local, unread>>

Tick(w) ==
  /\ thread[w].pending /\ thread[w].quiet < Debounce
  /\ thread' = [thread EXCEPT ![w].quiet = @ + 1]
  /\ UNCHANGED <<impl, lock, worker, slot, removed, pc, local, env, unread>>

-----------------------------------------------------------------------------
Control(c) ==
  \/ Call(c) \/ Start(c) \/ Make(c) \/ Handshake(c) \/ DropFailed(c)
  \/ Stop(c) \/ Take(c) \/ Shutdown(c) \/ Join(c) \/ FreeImpl(c) \/ DestroyUnderLoader(c)
Body(w) ==
  \/ Publish(w) \/ Open(w) \/ Top(w) \/ Wait(w) \/ WaitThrows(w) \/ Cancel(w) \/ CloseDirectory(w) \/ Flush(w) \/ ClearSlot(w)

Next ==
  \/ \E c \in Controllers : Control(c)
  \/ \E w \in Workers : Body(w) \/ Complete(w) \/ Tick(w)
  \/ \E what \in {"target", "foreign"} : Change(what)
  \/ Remove

\* Threads run, reads complete and time passes; nobody has to write files.
Fairness == \A w \in Workers : WF_vars(Body(w)) /\ WF_vars(Complete(w)) /\ WF_vars(Tick(w))
Spec == Init /\ [][Next]_vars /\ Fairness

-----------------------------------------------------------------------------
Running(w) == thread[w].at \notin {"none", "done"}

\* The kernel and the worker's thread never touch what is freed: the notification buffer
\* while a read is pending, the Impl that holds the thread id, the module with the code.  One
\* case is excepted, because the code does not exclude it (NothingLateIsFreed): a log call
\* that throws unwinds the body, and the last one is made before the buffer is left behind.
StorageOutlivesUse ==
  \A w \in Workers : /\ thread[w].irp # "none" /\ thread[w].io = "freed" => thread[w].threw
                     /\ Running(w) => impl # "freed" /\ thread[w].ref

\* config_watcher.cpp, maybe_fire_debounced and the flush at the end: a change of the file is
\* followed by a callback, although other files of the directory may change all the time and
\* notifications may be lost; only one the worker has not seen when it stops or when the
\* directory is removed is dropped, and one it was still debouncing when a log call threw.
Reported ==
  \/ unread = "no"
  \/ unread = "worker" /\ \E w \in Workers : thread[w].threw
  \/ unread = "kernel" /\ (removed \/ \A w \in Workers : thread[w].at \notin {"top", "wait"})
ChangesAreReported == []<>Reported

\* config_watcher.cpp, the same place: "A non-matching change never advances last_event (only a
\* filename match does, in the walk below)".
OnlyTheFileDelays == [][\A w \in Workers : thread[w].quiet' < thread[w].quiet => thread[w].batch \cap {"target"} # {}]_vars

\* config_watcher.cpp, at the drain: the bundle is left behind "so a late completion can never
\* write into freed memory".
NothingLateIsFreed == \A w \in Workers : thread[w].irp # "none" => thread[w].io # "freed"

\* config_watcher.cpp, leak-on-timeout: a husked watcher is inert, "stop()/start() null-guard
\* against it".
HuskIsInert == \A c \in Controllers : pc[c] # "null"

\* config_watcher.hpp, is_running: "Returns true while the watcher thread is still alive."
RunningIsSeen == \A w \in Workers : thread[w].at \in {"top", "wait"} /\ ~ thread[w].stop => slot # None

\* config_watcher.cpp: a worker that "threw before the handshake" is dropped "the normal way
\* ... so this ConfigWatcher is reusable for a retry rather than husked".
ThrowIsRetried == impl = "leaked" => \A w \in Workers : thread[w].at = "done" => thread[w].promise # "unset"
=============================================================================
