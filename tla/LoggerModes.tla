---------------------------- MODULE LoggerModes ----------------------------
(***************************************************************************)
(* The Logger front end (logger.cpp): the synchronous sink, the switch to  *)
(* and from asynchronous mode, reconfiguration and shutdown, called by     *)
(* several threads at once.                                                *)
(*                                                                         *)
(* m_async_mutex is held across AsyncLogger::shutdown(), which waits for   *)
(* the writer thread, so its owner is state.  *m_log_mutex_ptr is only     *)
(* ever held inside one step.  An AsyncLogger is abstracted to its queue   *)
(* and the state of its writer; AsyncLogger models it in detail.           *)
(***************************************************************************)
EXTENDS Naturals, Sequences, SequencesExt, FiniteSets

CONSTANTS
    Threads,      \* threads that call the logger
    Loggers,      \* AsyncLogger objects that may be made, 1 .. n
    Scenarios,    \* [script : thread -> sequence of calls, loader : threads]
    None          \* no object, no owner

VARIABLES
    scenario,     \* the script each thread runs, and who holds the loader lock
    shutdownCalled, \* m_shutdown_called
    enabled,      \* m_async_mode_enabled
    current,      \* m_async_logger
    asyncMutex,   \* owner of m_async_mutex
    level,        \* m_current_log_level
    stream,       \* the sink: "open" or "closed"
    delivered,    \* lines handed to an open sink
    accepted,     \* lines log() reported as delivered or queued
    queue,        \* queued lines of each AsyncLogger
    writer,       \* writer thread of each AsyncLogger
    leaked,       \* AsyncLoggers moved to permanent storage
    late,         \* history: lines queued after the shutdown of their queue had begun
    overlap,      \* history: a configure() and a shutdown() have run at the same time
    th            \* per thread: call number, pc and the shared_ptr it holds

vars == <<scenario, shutdownCalled, enabled, current, asyncMutex, level, stream,
          delivered, accepted, queue, writer, leaked, late, overlap, th>>

Calls == {"log", "flush", "enable", "disable", "shutdown", "configure", "quiet"}
WriterStates == {"none", "running", "stopping", "detached", "exited"}
Live == {"running", "stopping", "detached"}

TypeOK ==
    /\ scenario \in Scenarios
    /\ shutdownCalled \in BOOLEAN /\ enabled \in BOOLEAN
    /\ current \in Loggers \cup {None}
    /\ asyncMutex \in Threads \cup {None}
    /\ level \in {"Info", "Error"} /\ stream \in {"open", "closed"}
    /\ delivered \subseteq Threads \X Nat /\ accepted \subseteq Threads \X Nat
    /\ queue \in [Loggers -> Seq(Threads \X Nat)]
    /\ writer \in [Loggers -> WriterStates]
    /\ leaked \subseteq Loggers /\ late \subseteq accepted /\ overlap \in BOOLEAN
    /\ \A t \in Threads : th[t].temp \in Loggers \cup {None}

Init ==
    /\ scenario \in Scenarios
    /\ shutdownCalled = FALSE /\ enabled = FALSE /\ current = None
    /\ asyncMutex = None /\ level = "Info" /\ stream = "open"
    /\ delivered = {} /\ accepted = {}
    /\ queue = [i \in Loggers |-> <<>>] /\ writer = [i \in Loggers |-> "none"]
    /\ leaked = {} /\ late = {} /\ overlap = FALSE
    /\ th = [t \in Threads |-> [call |-> 1, pc |-> "start", temp |-> None]]

At(t, pc) == th[t].pc = pc
Call(t) == scenario.script[t][th[t].call]
Starts(t, c) ==
    At(t, "start") /\ th[t].call <= Len(scenario.script[t]) /\ Call(t) = c
Goto(t, pc) == th' = [th EXCEPT ![t].pc = pc]
Hold(t, i, pc) == th' = [th EXCEPT ![t].pc = pc, ![t].temp = i]
Return(t) ==
    th' = [th EXCEPT ![t] = [call |-> @.call + 1, pc |-> "start", temp |-> None]]
Line(t) == <<t, th[t].call>>
UnderLoader(t) == t \in scenario.loader
ShuttingDown(t) == th[t].pc \in {"sasync", "sstop", "sjoin", "sclose"}
Configuring(t) == th[t].pc \in {"creconf", "copen"}

(* An AsyncLogger lives while a shared_ptr to it exists.                   *)
Owned(i) == current = i \/ i \in leaked \/ \E t \in Threads : th[t].temp = i

---------------------------------------------------------------------------
(* A line is written under the log mutex, if the sink is open.             *)
WriteThrough(t) ==
    /\ IF stream = "open"
         THEN /\ delivered' = delivered \cup {Line(t)}
              /\ accepted' = accepted \cup {Line(t)}
         ELSE UNCHANGED <<delivered, accepted>>
    /\ Return(t)

(* log(): the level filter, the mode flag, the pointer, then one sink.     *)
(* Lines are of level Info, but for the notice of a failed enable.         *)
LogGate(t) ==
    /\ At(t, "gate") \/ At(t, "gateError") \/ Starts(t, "log")
    /\ IF level = "Error" /\ ~At(t, "gateError") THEN Return(t)
       ELSE Goto(t, IF enabled THEN "load" ELSE "sync")
    /\ UNCHANGED <<scenario, shutdownCalled, enabled, current, asyncMutex, level,
                   stream, delivered, accepted, queue, writer, leaked, late, overlap>>

LogLoad(t) ==
    /\ At(t, "load")
    /\ IF current = None THEN Goto(t, "sync") ELSE Hold(t, current, "enqueue")
    /\ UNCHANGED <<scenario, shutdownCalled, enabled, current, asyncMutex, level,
                   stream, delivered, accepted, queue, writer, leaked, late, overlap>>

(* AsyncLogger::enqueue: once a shutdown has been requested the line is    *)
(* written at once, to a sink that is still open; before, it is queued.    *)
LogEnqueue(t) ==
    /\ At(t, "enqueue")
    /\ IF writer[th[t].temp] = "running" THEN Goto(t, "push") /\ UNCHANGED <<delivered, accepted>>
       ELSE WriteThrough(t)
    /\ UNCHANGED <<scenario, shutdownCalled, enabled, current, asyncMutex, level,
                   stream, queue, writer, leaked, late, overlap>>

(* The push comes after the look at the flag, however late.                *)
LogPush(t) ==
    /\ At(t, "push")
    /\ LET i == th[t].temp
       IN /\ queue' = [queue EXCEPT ![i] = Append(@, Line(t))]
          /\ accepted' = accepted \cup {Line(t)}
          /\ late' = IF writer[i] = "running" THEN late ELSE late \cup {Line(t)}
    /\ Return(t)
    /\ UNCHANGED <<scenario, shutdownCalled, enabled, current, asyncMutex, level,
                   stream, delivered, writer, leaked, overlap>>

LogSync(t) ==
    /\ At(t, "sync") /\ WriteThrough(t)
    /\ UNCHANGED <<scenario, shutdownCalled, enabled, current, asyncMutex, level,
                   stream, queue, writer, leaked, late, overlap>>

(* set_log_level(Error); its own notice is then filtered.                  *)
SetLogLevel(t) ==
    /\ Starts(t, "quiet")
    /\ level' = "Error"
    /\ IF level = "Error" THEN Return(t) ELSE Goto(t, "gate")
    /\ UNCHANGED <<scenario, shutdownCalled, enabled, current, asyncMutex, stream,
                   delivered, accepted, queue, writer, leaked, late, overlap>>

(* flush(): the same choice of sink; an asynchronous flush waits until the *)
(* queue has drained or the logger has stopped.                            *)
Flush(t) ==
    /\ Starts(t, "flush")
    /\ IF enabled THEN Goto(t, "fload") ELSE Return(t)
    /\ UNCHANGED <<scenario, shutdownCalled, enabled, current, asyncMutex, level,
                   stream, delivered, accepted, queue, writer, leaked, late, overlap>>

FlushLoad(t) ==
    /\ At(t, "fload")
    /\ IF current = None THEN Return(t) ELSE Hold(t, current, "fwait")
    /\ UNCHANGED <<scenario, shutdownCalled, enabled, current, asyncMutex, level,
                   stream, delivered, accepted, queue, writer, leaked, late, overlap>>

FlushWait(t) ==
    /\ At(t, "fwait")
    /\ queue[th[t].temp] = <<>> \/ writer[th[t].temp] # "running"
    /\ Return(t)
    /\ UNCHANGED <<scenario, shutdownCalled, enabled, current, asyncMutex, level,
                   stream, delivered, accepted, queue, writer, leaked, late, overlap>>

---------------------------------------------------------------------------
(* The writer thread of one AsyncLogger: a line goes to the shared sink if *)
(* it is open; after shutdown it drains and exits.                         *)
TakeHead(i) ==
    /\ queue' = [queue EXCEPT ![i] = Tail(@)]
    /\ delivered' = IF stream = "open" THEN delivered \cup {Head(queue[i])}
                    ELSE delivered

WriterWrites(i) ==
    /\ writer[i] \in Live /\ queue[i] # <<>> /\ TakeHead(i)
    /\ UNCHANGED <<scenario, shutdownCalled, enabled, current, asyncMutex, level,
                   stream, accepted, writer, leaked, th, late, overlap>>

WriterExits(i) ==
    /\ writer[i] \in {"stopping", "detached"} /\ queue[i] = <<>>
    /\ writer' = [writer EXCEPT ![i] = "exited"]
    /\ UNCHANGED <<scenario, shutdownCalled, enabled, current, asyncMutex, level,
                   stream, delivered, accepted, queue, leaked, th, late, overlap>>

(* AsyncLogger::shutdown: under the loader lock the writer is detached,    *)
(* otherwise the caller waits for it; then the caller drains the queue.    *)
StopWriter(t, i) ==
    writer' = [writer EXCEPT ![i] =
                 IF @ # "running" THEN @
                 ELSE IF UnderLoader(t) THEN "detached" ELSE "stopping"]
WriterLeft(t) ==
    LET i == th[t].temp IN
    i = None \/ writer[i] = "exited" \/ (UnderLoader(t) /\ writer[i] = "detached")
Drain(t) ==
    /\ At(t, "djoin") \/ At(t, "sjoin")
    /\ WriterLeft(t) /\ th[t].temp # None
    /\ queue[th[t].temp] # <<>> /\ TakeHead(th[t].temp)
    /\ UNCHANGED <<scenario, shutdownCalled, enabled, current, asyncMutex, level,
                   stream, accepted, writer, leaked, late, overlap, th>>
Stopped(t) == WriterLeft(t) /\ (th[t].temp = None \/ queue[th[t].temp] = <<>>)
LeakHandle(t) ==
    leaked' = IF th[t].temp # None /\ UnderLoader(t)
              THEN leaked \cup {th[t].temp} ELSE leaked

---------------------------------------------------------------------------

(* enable_async_mode: under m_async_mutex; its notice is a log() of its    *)
(* own, in the mode it leaves.  Without an open sink, or when making the   *)
(* AsyncLogger throws, nothing changes but that an error is logged.        *)
Enable(t) ==
    /\ Starts(t, "enable") /\ asyncMutex = None
    /\ \/ /\ shutdownCalled \/ enabled
          /\ Return(t) /\ UNCHANGED <<current, enabled, writer>>
       \/ /\ ~shutdownCalled /\ ~enabled
          /\ Goto(t, "gateError") /\ UNCHANGED <<current, enabled, writer>>
       \/ /\ ~shutdownCalled /\ ~enabled /\ stream = "open"
          /\ \E i \in Loggers :
               /\ writer[i] = "none" /\ \A j \in Loggers : j < i => writer[j] # "none"
               /\ current' = i /\ enabled' = TRUE
               /\ writer' = [writer EXCEPT ![i] = "running"]
          /\ Goto(t, "gate")
    /\ UNCHANGED <<scenario, shutdownCalled, asyncMutex, level, stream, delivered,
                   accepted, queue, leaked, late, overlap>>

(* disable_async_mode: the pointer is taken, the logger is shut down with  *)
(* the mutex held, and only then is the flag cleared.                      *)
Disable(t) ==
    /\ Starts(t, "disable") /\ asyncMutex = None
    /\ IF ~enabled THEN Return(t) /\ UNCHANGED <<current, asyncMutex>>
       ELSE /\ asyncMutex' = t /\ current' = None
            /\ Hold(t, current, "dstop")
    /\ UNCHANGED <<scenario, shutdownCalled, enabled, level, stream, delivered,
                   accepted, queue, writer, leaked, late, overlap>>

DisableStop(t) ==
    /\ At(t, "dstop")
    /\ StopWriter(t, th[t].temp) /\ Goto(t, "djoin")
    /\ UNCHANGED <<scenario, shutdownCalled, enabled, current, asyncMutex, level,
                   stream, delivered, accepted, queue, leaked, late, overlap>>

DisableJoin(t) ==
    /\ At(t, "djoin") /\ Stopped(t)
    /\ enabled' = FALSE /\ asyncMutex' = None /\ Goto(t, "dleak")
    /\ UNCHANGED <<scenario, shutdownCalled, current, level, stream, delivered,
                   accepted, queue, writer, leaked, late, overlap>>

(* The handle is leaked under the loader lock; otherwise a notice is       *)
(* logged, the handle still held until the function returns.               *)
DisableLeak(t) ==
    /\ At(t, "dleak")
    /\ LeakHandle(t)
    /\ IF UnderLoader(t) THEN Return(t) ELSE Goto(t, "gate")
    /\ UNCHANGED <<scenario, shutdownCalled, enabled, current, asyncMutex, level,
                   stream, delivered, accepted, queue, writer, late, overlap>>

---------------------------------------------------------------------------
(* shutdown(): the first caller wins the flag; later ones return at once.  *)
Shutdown(t) ==
    /\ Starts(t, "shutdown")
    /\ shutdownCalled' = TRUE
    /\ IF shutdownCalled THEN Return(t) ELSE Goto(t, "sasync")
    /\ overlap' = (overlap \/ \E u \in Threads : Configuring(u))
    /\ UNCHANGED <<scenario, enabled, current, asyncMutex, level, stream, delivered,
                   accepted, queue, writer, leaked, late>>

ClosesFirst(t) ==
    /\ At(t, "sasync") /\ asyncMutex = None
    /\ stream' = "closed"
    /\ IF enabled
         THEN /\ asyncMutex' = t /\ enabled' = FALSE /\ current' = None
              /\ Hold(t, current, "sstop")
         ELSE Goto(t, "sclose") /\ UNCHANGED <<asyncMutex, enabled, current>>
    /\ UNCHANGED <<scenario, shutdownCalled, level, delivered, accepted, queue,
                   writer, leaked, late, overlap>>

ShutdownAsync(t) ==
    /\ At(t, "sasync") /\ asyncMutex = None
    /\ IF enabled
         THEN /\ asyncMutex' = t /\ enabled' = FALSE /\ current' = None
              /\ Hold(t, current, "sstop")
         ELSE Goto(t, "sclose") /\ UNCHANGED <<asyncMutex, enabled, current>>
    /\ UNCHANGED <<scenario, shutdownCalled, level, stream, delivered, accepted,
                   queue, writer, leaked, late, overlap>>

ShutdownStop(t) ==
    /\ At(t, "sstop")
    /\ StopWriter(t, th[t].temp) /\ Goto(t, "sjoin")
    /\ UNCHANGED <<scenario, shutdownCalled, enabled, current, asyncMutex, level,
                   stream, delivered, accepted, queue, leaked, late, overlap>>

(* The mutex is dropped here, the handle leaked under the loader lock.     *)
ShutdownJoin(t) ==
    /\ At(t, "sjoin") /\ Stopped(t)
    /\ asyncMutex' = None /\ LeakHandle(t) /\ Goto(t, "sclose")
    /\ UNCHANGED <<scenario, shutdownCalled, enabled, current, level, stream,
                   delivered, accepted, queue, writer, late, overlap>>

ShutdownClose(t) ==
    /\ At(t, "sclose") /\ asyncMutex = None
    /\ stream' = "closed" /\ Return(t)
    /\ UNCHANGED <<scenario, shutdownCalled, enabled, current, asyncMutex, level,
                   delivered, accepted, queue, writer, leaked, late, overlap>>

(* configure(): the flag is cleared first, then reconfigure() tests it     *)
(* before it takes the mutexes and reopens a closed sink.                  *)
Configure(t) ==
    /\ Starts(t, "configure")
    /\ shutdownCalled' = FALSE /\ Goto(t, "creconf")
    /\ overlap' = (overlap \/ \E u \in Threads : ShuttingDown(u))
    /\ UNCHANGED <<scenario, enabled, current, asyncMutex, level, stream, delivered,
                   accepted, queue, writer, leaked, late>>

Reconfigure(t) ==
    /\ At(t, "creconf")
    /\ IF shutdownCalled THEN Return(t) ELSE Goto(t, "copen")
    /\ UNCHANGED <<scenario, shutdownCalled, enabled, current, asyncMutex, level,
                   stream, delivered, accepted, queue, writer, leaked, late, overlap>>

(* open_sink with the configuration unchanged: nothing is done to a sink   *)
(* that is open; opening a closed one may fail.                            *)
OpenSink(t) ==
    /\ At(t, "copen") /\ asyncMutex = None
    /\ stream' \in {"open", stream} /\ Return(t)
    /\ UNCHANGED <<scenario, shutdownCalled, enabled, current, asyncMutex, level,
                   delivered, accepted, queue, writer, leaked, late, overlap>>

---------------------------------------------------------------------------
ThreadNext(t) ==
    \/ LogGate(t) \/ LogLoad(t) \/ LogEnqueue(t) \/ LogPush(t) \/ LogSync(t)
    \/ SetLogLevel(t) \/ Flush(t) \/ FlushLoad(t) \/ FlushWait(t) \/ Drain(t)
    \/ Enable(t) \/ Disable(t) \/ DisableStop(t) \/ DisableJoin(t) \/ DisableLeak(t)
    \/ Shutdown(t) \/ ShutdownAsync(t) \/ ShutdownStop(t) \/ ShutdownJoin(t)
    \/ ShutdownClose(t) \/ Configure(t) \/ Reconfigure(t) \/ OpenSink(t)

Done == \A t \in Threads : At(t, "start") /\ th[t].call > Len(scenario.script[t])
Terminated ==
    /\ Done /\ \A i \in Loggers : writer[i] \in {"stopping", "detached"} => FALSE
    /\ \A i \in Loggers : writer[i] = "running" => queue[i] = <<>>
    /\ UNCHANGED vars

Next ==
    \/ \E t \in Threads : ThreadNext(t)
    \/ \E i \in Loggers : WriterWrites(i) \/ WriterExits(i)
    \/ Terminated

Spec == Init /\ [][Next]_vars

---------------------------------------------------------------------------
(* log() returning true is delivery: the line has reached an open sink or  *)
(* waits in a queue whose writer still runs.  Two kinds of line are        *)
(* excepted.  The code accepts that a line queued by a producer that had   *)
(* passed the shutdown check may come after the last drain: at most one    *)
(* per producer and AsyncLogger.  And a sink is closed without the lines   *)
(* of a writer that was left behind under the loader lock, or while        *)
(* configure() of another thread has let asynchronous mode start again.    *)
AcceptedIsDelivered ==
    scenario.loader = {} /\ ~overlap =>
      /\ \A m \in accepted \ delivered :
           \E i \in Loggers : Contains(queue[i], m) /\ (writer[i] \in Live \/ m \in late)
      /\ \A i \in Loggers, t \in Threads :
           writer[i] = "exited" => Len(SelectSeq(queue[i], LAMBDA m : m[1] = t)) <= 1

(* An AsyncLogger whose writer thread still runs is never without an       *)
(* owner: its last shared_ptr is not dropped before the writer has exited. *)
WriterOutlived == \A i \in Loggers : writer[i] \in Live => Owned(i)

(* Once shutdown() has returned and nobody has called configure(), no      *)
(* writer runs and the sink is closed: enable_async_mode cannot bring      *)
(* asynchronous logging back in the gap inside shutdown_internal.          *)
(* Excepted is a configure() that has overlapped a shutdown() of another   *)
(* thread: it can reopen the sink (see ShutdownClosesTheSink).             *)
ShutdownIsFinal ==
    shutdownCalled /\ ~overlap /\ (\A t \in Threads : ~ShuttingDown(t) /\ ~Configuring(t)) =>
      /\ stream = "closed"
      /\ ~enabled
      /\ scenario.loader = {} => \A i \in Loggers : writer[i] \in {"none", "exited"}

(* The comment in shutdown_internal says that taking both mutexes keeps    *)
(* configure() and reconfigure() from opening a stream in the gap: when    *)
(* every call has returned with the shutdown flag set, the sink is closed. *)
ShutdownClosesTheSink ==
    Done /\ shutdownCalled => stream = "closed"
============================================================================
