---------------------------- MODULE MCLifecycle ----------------------------
(* Objects that end while other threads are inside them, one at a time: the call gate of a     *)
(* hook, the file watcher and its worker thread, the session with its bootstrap worker.  A     *)
(* behaviour chooses a component and is a behaviour of that component.                         *)
EXTENDS HookGate, Sequences, TLC

CONSTANTS None, u1, u2

VARIABLES component,
          impl, lock, worker, slot, thread, removed, unread,
          active, holder, mutexes, event, handle, workerThread, detachCalled, refs, loader, alive,
          pc, local, env   \* of the watcher and of the session, of which one runs

watcher == <<impl, lock, worker, slot, thread, removed, unread>>
session == <<active, holder, mutexes, event, handle, workerThread, detachCalled, refs, loader, alive>>
all == <<component, vars, watcher, session, pc, local, env>>

TwoThreads == {u1, u2}
Scripts(as, bs) == (u1 :> as @@ u2 :> bs)

Watching(as, bs, edits, churn, f) ==
  [script |-> Scripts(as, bs), edits |-> edits, churn |-> churn, faults |-> f]

\* Two threads start, stop and destroy a watcher, and one thing goes wrong, with a log call that
\* throws or not; or other files of the directory change all the time.
WatcherCases ==
  {Watching(<<"start", "stop">>, <<"start", d>>, 1, FALSE, f) : d \in {"destroy", "destroy_loader"},
     f \in {{}, {"lost", "log"}, {"remove", "log"}, {"open"}, {"read", "log"}, {"hang", "log"}, {"throw", "log"},
            {"thread"}}}
  \cup {Watching(<<"start", "stop">>, <<"start", "destroy">>, 1, TRUE, {"remove"}),
        Watching(<<"start">>, <<"destroy">>, 1, TRUE, {"lost"}),
        Watching(<<"start">>, <<>>, 2, TRUE, {"lost"})}

Watcher == INSTANCE ConfigWatcher WITH
  Controllers <- TwoThreads, MaxWorkers <- 2, Debounce <- 1, Scenarios <- WatcherCases

\* A bootstrap is shut down, detached or repeated beside requests and sessions of another thread.
SessionCases ==
  {[script |-> Scripts(as, bs), guarded |-> g, faults |-> f] : g \in BOOLEAN,
     f \in {{}, {"terminate"}, {"process"}, {"mutex"}, {"logger"}, {"event"}, {"reference"}, {"thread"}},
     as \in {<<"bootstrap", "request_shutdown", "free">>,
             <<"bootstrap", "detach_unlocked", "bootstrap", "detach_unlocked", "free">>},
     bs \in {<<"request_shutdown">>, <<"start", "drop">>, <<"start", "abandon", "start">>}}

TheSession == INSTANCE Session WITH Threads <- TwoThreads, MaxEvents <- 3, Scenarios <- SessionCases

-----------------------------------------------------------------------------
(* The chosen component runs; the others do not start. *)

NoWatcher ==
  /\ impl = None /\ lock = None /\ worker = None /\ slot = None /\ thread = None /\ removed = None
  /\ unread = None
NoSession ==
  /\ active = None /\ holder = None /\ mutexes = None /\ event = None /\ handle = None /\ workerThread = None
  /\ detachCalled = None /\ refs = None /\ loader = None /\ alive = None

MCInit ==
  /\ Init
  /\ \/ component = "gate" /\ NoWatcher /\ NoSession /\ pc = None /\ local = None /\ env = None
     \/ component = "watcher" /\ Watcher!Init /\ NoSession
     \/ component = "session" /\ TheSession!Init /\ NoWatcher

InGate(A) == component = "gate" /\ A /\ UNCHANGED <<component, watcher, session, pc, local, env>>
InWatcher(A) == component = "watcher" /\ A /\ UNCHANGED <<component, vars, session>>
InSession(A) == component = "session" /\ A /\ UNCHANGED <<component, vars, watcher>>

MCNext == InGate(Next) \/ InWatcher(Watcher!Next) \/ InSession(TheSession!Next)

\* The fairness of HookGate, ConfigWatcher and Session.
MCSpec ==
  /\ MCInit /\ [][MCNext]_all
  /\ \A th \in Threads : WF_all(InGate(Continue(th)))
  /\ \A w \in Watcher!Workers : /\ WF_all(InWatcher(Watcher!Body(w)))
                               /\ WF_all(InWatcher(Watcher!Complete(w)))
                               /\ WF_all(InWatcher(Watcher!Tick(w)))
  /\ WF_all(InSession(TheSession!Progress))

-----------------------------------------------------------------------------
\* config_watcher.cpp: the kernel and the worker's thread never touch what is freed, whoever
\* stops or destroys the watcher, under the loader lock or not; excepted is what a log call that
\* throws unwinds (see ConfigWatcher).
StorageOutlivesUse == component = "watcher" => Watcher!StorageOutlivesUse

\* session.cpp: there is one Session at a time; request_shutdown never signals a closed handle,
\* nor does the worker wait for one or run in an unmapped module.
HandlesAreValid == component = "session" => TheSession!OneSession /\ TheSession!HandlesAreValid

\* config_watcher.cpp, maybe_fire_debounced: a change of the file is followed by a callback,
\* although other files change all the time and notifications are lost (see Reported). session.cpp: a worker
\* whose event is signaled ends, and so does everybody who waits for it.
WorkersReport ==
  /\ []<>(component = "watcher" => Watcher!Reported)
  /\ <>[](component = "session" => TheSession!Ended)
=============================================================================
