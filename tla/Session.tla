------------------------------ MODULE Session ------------------------------
(***************************************************************************)
(* The life of a Session (session.cpp): Session::start and the ordered     *)
(* teardown of ~Session, and the bootstrap path, where DllMain stages a    *)
(* Session for a worker thread, request_shutdown signals the worker and    *)
(* bootstrap_detach ends it in one of three ways.                          *)
(*                                                                         *)
(* The five subsystem shutdowns are a step each; what they do is in the    *)
(* modules of the subsystems.  The module of the mod is mapped while       *)
(* somebody holds a reference to it; the loader lock serializes attach,    *)
(* detach and the drop of a reference.                                     *)
(***************************************************************************)
EXTENDS Integers, Sequences, FiniteSets

CONSTANTS Threads,    \* threads of the host
          MaxEvents,  \* bound on the shutdown events ever created
          None,
          Scenarios   \* [script: thread -> calls, guarded (there is an instance mutex), faults]

Worker == "worker"
All == Threads \cup {Worker}
Events == 1 .. MaxEvents
Leaves == <<"reload", "input", "memory", "registry", "logger">>

VARIABLES active,      \* s_session_active
          holder,      \* who holds a live Session: a thread, "pending" (staged) or None each
          mutexes,     \* open handles of the named instance mutex
          event,       \* s_shutdown_event
          handle,      \* event -> [signaled, closed]
          workerThread,\* s_worker_thread holds a handle
          detachCalled,
          refs,        \* who keeps the module mapped
          loader,      \* holder of the loader lock
          alive,       \* FALSE once the process terminates
          pc, local, env

vars == <<active, holder, mutexes, event, handle, workerThread, detachCalled, refs, loader, alive,
          pc, local, env>>
boot == <<event, handle, workerThread, detachCalled>>

Blank == [then |-> None, leaf |-> 0, mutex |-> FALSE, seen |-> None]

Init ==
  \E s \in Scenarios :
    /\ active = FALSE /\ holder = {} /\ mutexes = 0
    /\ event = None /\ handle = [e \in Events |-> [signaled |-> FALSE, closed |-> TRUE]]
    /\ workerThread = FALSE /\ detachCalled = FALSE
    /\ refs = {"consumer"} /\ loader = None /\ alive = TRUE
    /\ pc = [t \in All |-> "idle"] /\ local = [t \in All |-> Blank]
    /\ env = s

-----------------------------------------------------------------------------
At(t, where)   == pc[t] = where
Goto(t, where) == pc' = [pc EXCEPT ![t] = where]
Then(t, where, then) == Goto(t, where) /\ local' = [local EXCEPT ![t].then = then]
Fault(kind) == kind \in env.faults /\ env' = [env EXCEPT !.faults = @ \ {kind}]
Running == alive /\ refs # {}

\* The next call of a host thread.  attach and detach come from the loader.
Call(t) ==
  /\ Running /\ At(t, "idle") /\ env.script[t] # <<>>
  /\ LET op == Head(env.script[t])
     IN /\ op \in {"bootstrap", "free"} => loader = None
        /\ loader' = IF op \in {"bootstrap", "free"} THEN t ELSE loader
        /\ op \in {"drop", "abandon"} => t \in holder
        /\ Goto(t, op)
  /\ env' = [env EXCEPT !.script[t] = Tail(@)]
  /\ UNCHANGED <<active, holder, mutexes, boot, refs, alive, local>>

Return(t) ==
  /\ Goto(t, "idle") /\ local' = [local EXCEPT ![t] = Blank]
  /\ loader' = IF loader = t THEN None ELSE loader

\* Session::start claims the flag first.
Start(t) ==
  /\ At(t, "start") \/ At(t, "boot_start")
  /\ IF active THEN Return(t) /\ UNCHANGED active
     ELSE /\ active' = TRUE /\ UNCHANGED loader
          /\ Then(t, "set_up", IF At(t, "start") THEN "hold" ELSE "stage")
  /\ UNCHANGED <<holder, mutexes, boot, refs, alive, env>>

\* The process may be another than the game; without a name for it any process will do.
OtherProcess == Fault("process")
\* The mutex of the instance is held already or cannot be created.
NoMutex == (mutexes > 0 /\ UNCHANGED env) \/ Fault("mutex")

\* The process gate, the instance mutex and the logger; each failure gives back what the
\* earlier steps took.
SetUp(t) ==
  /\ At(t, "set_up")
  /\ \/ /\ OtherProcess \/ NoMutex \/ Fault("logger")
        /\ active' = FALSE /\ Return(t) /\ UNCHANGED <<holder, mutexes>>
     \/ /\ mutexes = 0
        /\ mutexes' = IF env.guarded THEN 1 ELSE 0
        /\ holder' = holder \cup {IF local[t].then = "hold" THEN t ELSE "pending"}
        /\ IF local[t].then = "hold" THEN Return(t)
           ELSE Goto(t, "stage") /\ UNCHANGED <<local, loader>>
        /\ UNCHANGED <<active, env>>
  /\ UNCHANGED <<boot, refs, alive>>

-----------------------------------------------------------------------------
(* Session::release, of the Session that t holds (or the staged one). *)

Mine(t) == IF local[t].then = "unwound" THEN "pending" ELSE t

Drop(t) ==
  /\ At(t, "drop")
  /\ Then(t, "release", "dropped")
  /\ UNCHANGED <<active, holder, mutexes, boot, refs, loader, alive, env>>

LetGoFirst(t) ==
  /\ At(t, "release")
  /\ active' = FALSE
  /\ IF local[t].leaf < Len(Leaves) + 1
     THEN local' = [local EXCEPT ![t].leaf = @ + 1] /\ UNCHANGED pc
     ELSE Goto(t, "let_go") /\ UNCHANGED local
  /\ UNCHANGED <<holder, mutexes, boot, refs, loader, alive, env>>

\* First the session's own bindings, then the subsystems with the logger at the end.
Release(t) ==
  /\ At(t, "release")
  /\ IF local[t].leaf < Len(Leaves) + 1
     THEN local' = [local EXCEPT ![t].leaf = @ + 1] /\ UNCHANGED pc
     ELSE Goto(t, "let_go") /\ UNCHANGED local
  /\ UNCHANGED <<active, holder, mutexes, boot, refs, loader, alive, env>>

\* Then the mutex and, last of all, the flag.
LetGo(t) ==
  /\ At(t, "let_go")
  /\ mutexes' = 0 /\ holder' = holder \ {Mine(t)} /\ active' = FALSE
  /\ IF t = Worker THEN Goto(t, "exit") /\ UNCHANGED <<local, loader>> ELSE Return(t)
  /\ UNCHANGED <<boot, refs, alive, env>>

\* Session::abandon, for process death: nothing is torn down and the mutex stays.
Abandon(t) ==
  /\ At(t, "abandon")
  /\ holder' = holder \ {t} /\ active' = FALSE
  /\ Return(t)
  /\ UNCHANGED <<mutexes, boot, refs, alive, env>>

-----------------------------------------------------------------------------
(* bootstrap, under the loader lock. *)

Bootstrap(t) ==
  /\ At(t, "bootstrap")
  /\ IF workerThread \/ event # None THEN Return(t)
     ELSE Goto(t, "boot_start") /\ UNCHANGED <<local, loader>>
  /\ UNCHANGED <<active, holder, mutexes, boot, refs, alive, env>>

\* The shutdown event is published before the worker exists.
Stage(t) ==
  /\ At(t, "stage")
  /\ \/ \E e \in Events :
          /\ handle[e].closed /\ \A d \in Events : d < e => ~ handle[d].closed
          /\ event' = e
          /\ handle' = [handle EXCEPT ![e] = [signaled |-> FALSE, closed |-> FALSE]]
          /\ Goto(t, "reference") /\ UNCHANGED <<local, env>>
     \/ Fault("event") /\ Then(t, "unwind", None) /\ UNCHANGED <<event, handle>>
  /\ UNCHANGED <<active, holder, mutexes, workerThread, detachCalled, refs, loader, alive>>

\* The worker's reference to the module is taken before the worker is created.  Success arms
\* bootstrap_detach again.
CreateWorker(t) ==
  /\ At(t, "reference")
  /\ \/ /\ refs' = refs \cup {Worker}
        /\ workerThread' = TRUE /\ detachCalled' = FALSE
        /\ pc' = [pc EXCEPT ![t] = "idle", ![Worker] = "adopt"]
        /\ local' = [local EXCEPT ![t] = Blank] /\ loader' = None
        /\ UNCHANGED env
     \/ /\ Fault("reference") \/ Fault("thread")
        /\ Then(t, "unwind", None)
        /\ UNCHANGED <<refs, workerThread, detachCalled, loader>>
  /\ UNCHANGED <<active, holder, mutexes, event, handle, alive>>

\* unwind_bootstrap: the event is retired but not closed; the staged Session ends.
Unwind(t) ==
  /\ At(t, "unwind")
  /\ event' = None
  /\ Then(t, "release", "unwound")
  /\ UNCHANGED <<active, holder, mutexes, handle, workerThread, detachCalled, refs, loader, alive, env>>

-----------------------------------------------------------------------------
(* lifecycle_thread. *)

Adopt ==
  /\ alive /\ At(Worker, "adopt")
  /\ holder' = (holder \ {"pending"}) \cup {Worker}
  /\ Goto(Worker, "on_ready")
  /\ UNCHANGED <<active, mutexes, boot, refs, loader, alive, local, env>>

\* on_ready may succeed, fail or throw; the worker then loads the event.
OnReady ==
  /\ alive /\ At(Worker, "on_ready")
  /\ local' = [local EXCEPT ![Worker].seen = event]
  /\ Goto(Worker, IF event = None THEN "release" ELSE "wait")
  /\ UNCHANGED <<active, holder, mutexes, boot, refs, loader, alive, env>>

AwaitEvent ==
  /\ alive /\ At(Worker, "wait") /\ handle[local[Worker].seen].signaled
  /\ Goto(Worker, "release")
  /\ UNCHANGED <<active, holder, mutexes, boot, refs, loader, alive, local, env>>

\* FreeLibraryAndExitThread: the last reference takes the module away, through detach.
WorkerExits ==
  /\ alive /\ At(Worker, "exit") /\ loader = None
  /\ refs' = refs \ {Worker}
  /\ IF refs' = {} THEN loader' = Worker /\ Goto(Worker, "detach") /\ UNCHANGED local
     ELSE Goto(Worker, "idle") /\ local' = [local EXCEPT ![Worker] = Blank] /\ UNCHANGED loader
  /\ UNCHANGED <<active, holder, mutexes, boot, alive, env>>

-----------------------------------------------------------------------------
(* request_shutdown and bootstrap_detach. *)

\* request_shutdown loads the handle and signals it later.
LoadEvent(t) ==
  /\ At(t, "request_shutdown")
  /\ IF event = None THEN Return(t)
     ELSE Goto(t, "signal") /\ local' = [local EXCEPT ![t].seen = event] /\ UNCHANGED loader
  /\ UNCHANGED <<active, holder, mutexes, boot, refs, alive, env>>

SetEvent(t) ==
  /\ At(t, "signal")
  /\ handle' = [handle EXCEPT ![local[t].seen].signaled = TRUE]
  /\ IF local[t].then = "join" THEN Goto(t, "join") /\ UNCHANGED <<local, loader>> ELSE Return(t)
  /\ UNCHANGED <<active, holder, mutexes, event, workerThread, detachCalled, refs, alive, env>>

\* The consumer's FreeLibrary.
FreeLibrary(t) ==
  /\ At(t, "free")
  /\ refs' = refs \ {"consumer"}
  /\ IF refs' = {} THEN Goto(t, "detach") /\ UNCHANGED <<local, loader>> ELSE Return(t)
  /\ UNCHANGED <<active, holder, mutexes, boot, alive, env>>

\* bootstrap_detach under the loader lock signals the event and leaves the handles.
DetachUnderLoader(t) ==
  /\ At(t, "detach")
  /\ detachCalled' = TRUE
  /\ handle' = IF detachCalled \/ event = None THEN handle ELSE [handle EXCEPT ![event].signaled = TRUE]
  /\ Return(t)
  /\ UNCHANGED <<active, holder, mutexes, event, workerThread, refs, alive, env>>

\* Off the loader lock it signals, joins the worker and leaves clean statics.
Detach(t) ==
  /\ At(t, "detach_unlocked")
  /\ detachCalled' = TRUE
  /\ IF detachCalled THEN Return(t)
     ELSE IF event = None THEN Then(t, "join", "join") /\ UNCHANGED loader
     ELSE /\ Goto(t, "signal") /\ UNCHANGED loader
          /\ local' = [local EXCEPT ![t].seen = event, ![t].then = "join"]
  /\ UNCHANGED <<active, holder, mutexes, event, handle, workerThread, refs, alive, env>>

JoinWorker(t) ==
  /\ At(t, "join") /\ (workerThread => At(Worker, "idle"))
  /\ workerThread' = FALSE /\ event' = None
  /\ Return(t)
  /\ UNCHANGED <<active, holder, mutexes, handle, detachCalled, refs, alive, env>>

\* The process terminates: the other threads are gone before DllMain hears of it, so that the
\* event can be closed; a Session nobody adopted is abandoned.
Terminate ==
  /\ Running /\ loader = None /\ "terminate" \in env.faults
  /\ alive' = FALSE
  /\ detachCalled' = TRUE
  /\ IF detachCalled THEN UNCHANGED <<holder, active, event, handle, workerThread>>
     ELSE /\ holder' = holder \ {"pending"}
          /\ active' = IF "pending" \in holder THEN FALSE ELSE active
          /\ workerThread' = FALSE /\ event' = None
          /\ handle' = IF event = None THEN handle ELSE [handle EXCEPT ![event].closed = TRUE]
  /\ UNCHANGED <<mutexes, refs, loader, pc, local, env>>

-----------------------------------------------------------------------------
HostStep(t) ==
  /\ alive
  /\ \/ Start(t) \/ SetUp(t) \/ Drop(t) \/ Abandon(t)
     \/ Bootstrap(t) \/ Stage(t) \/ CreateWorker(t) \/ Unwind(t)
     \/ LoadEvent(t) \/ FreeLibrary(t) \/ Detach(t) \/ JoinWorker(t)
AnyStep(t) == alive /\ (Release(t) \/ LetGo(t) \/ SetEvent(t) \/ DetachUnderLoader(t))

Progress ==
  \/ \E t \in Threads : Call(t) \/ HostStep(t)
  \/ \E t \in All : AnyStep(t)
  \/ Adopt \/ OnReady \/ AwaitEvent \/ WorkerExits
Next == Progress \/ Terminate

Spec == Init /\ [][Next]_vars /\ WF_vars(Progress)

-----------------------------------------------------------------------------
Ending(t) == pc[t] \in {"release", "let_go"}

\* There is one Session at a time, from its claim to the last step of its teardown: while a
\* start sets up the logger no other Session is live, staged or being torn down.
OneSession ==
  alive => /\ Cardinality(holder) <= 1
           /\ holder # {} => active /\ \A t \in All : ~ At(t, "set_up")
           /\ Cardinality({t \in All : Ending(t) \/ At(t, "set_up")}) <= 1

\* request_shutdown may be called at any time: it never signals a handle that was closed, nor
\* does the worker wait for one; and no thread runs the worker's code in an unmapped module.
HandlesAreValid ==
  alive => /\ \A t \in All : pc[t] \in {"signal", "wait"} => ~ handle[local[t].seen].closed
           /\ pc[Worker] \notin {"idle", "detach"} => Worker \in refs

\* A worker whose event is signaled ends, and so does everybody who waits for it; what is
\* left at the end is a worker without a signal.
Ended ==
  alive => /\ \A t \in Threads : At(t, "idle") /\ (Running => env.script[t] = <<>> \/ Head(env.script[t]) = "drop")
           /\ At(Worker, "idle") \/ (At(Worker, "wait") /\ ~ handle[local[Worker].seen].signaled)
=============================================================================
