--------------------------- MODULE InputIntercept ---------------------------
(***************************************************************************)
(* The active-input layer (internal/input_intercept.cpp): the inline hooks *)
(* of XInputGetState and XInputGetStateEx, which game threads run through  *)
(* while the poller installs and removes them; the list of consume rules,  *)
(* published under a sequence lock to those threads; and the subclass of   *)
(* the game window, which the window's own thread runs through.            *)
(*                                                                         *)
(* The poller's thread and, once it is joined, the thread that shuts it    *)
(* down are one actor, "poll", with a script of calls.  A trampoline is    *)
(* the number of its hook object.  Each window has one game procedure, and *)
(* one foreign subclasser may come and go; it leaves only from the top.    *)
(***************************************************************************)
EXTENDS Integers, Sequences, FiniteSets

CONSTANTS GameThreads, Windows, None, Scenarios

Functions2 == {"state", "ex"}

VARIABLES hook,      \* s_xinput_hook, s_xinput_ex_hook: [gen, live]; gen 0 is none
          original,  \* the published trampolines, or None
          freed,     \* trampolines whose memory is gone
          flags,     \* [installed, permanent, gate, retiring, pressed, mixed], see Init
          inflight,
          refs,      \* modules kept mapped for ever
          rules,     \* [seq, count, list]: s_consume_rules and its sequence
          top,       \* window -> the procedure in its window long, None once destroyed
          below,     \* window -> what the foreign subclasser forwards to
          sub,       \* [hwnd, prev, installed]: s_hwnd, s_prev_wndproc, s_wndproc_installed
          frame,     \* the window thread inside wndproc_detour, or None
          pc, local, env

hooks == <<hook, original, freed, inflight>>
window == <<top, below, sub, frame>>
vars == <<hooks, flags, refs, rules, window, pc, local, env>>

Actors == GameThreads \cup {"poll", "writer"}
\* Window procedures.
GameProc(w) == <<"game", w>>
Foreign == <<"foreign", 0>>
Detour  == <<"detour", 0>>

NoHook == [gen |-> 0, live |-> FALSE]
Blank  == [fn |-> None, gen |-> None, seq |-> 0, todo |-> 0, copy |-> <<>>, cur |-> None, answer |-> None]

\* gate: s_rule_suppress_enabled.  retiring: uninstall has withdrawn the trampolines and is not
\* done with them.  pressed: it had to free the hooks under a thread for want of memory.
\* mixed: a predecessor was published while a message from before was not done with the old one.
Init ==
  \E s \in Scenarios :
    /\ hook = [f \in Functions2 |-> NoHook]
    /\ original = [f \in Functions2 |-> None]
    /\ freed = {} /\ inflight = 0 /\ refs = {}
    /\ flags = [installed |-> FALSE, permanent |-> FALSE, gate |-> FALSE,
                retiring |-> FALSE, pressed |-> FALSE, mixed |-> FALSE]
    /\ rules = [seq |-> 0, count |-> 0, list |-> [i \in 1 .. s.maxRules |-> 0]]
    /\ top = [w \in Windows |-> IF w \in s.open THEN GameProc(w) ELSE None]
    /\ below = [w \in Windows |-> None]
    /\ sub = [hwnd |-> None, prev |-> None, installed |-> FALSE]
    /\ frame = None
    /\ pc = [a \in Actors |-> "idle"]
    /\ local = [a \in Actors |-> Blank]
    /\ env = s

-----------------------------------------------------------------------------
At(a, where)   == pc[a] = where
Goto(a, where) == pc' = [pc EXCEPT ![a] = where]
Return(a) == Goto(a, "idle") /\ local' = [local EXCEPT ![a] = Blank]
Fault(kind) == kind \in env.faults /\ env' = [env EXCEPT !.faults = @ \ {kind}]

PollCalls ==
  /\ At("poll", "idle") /\ env.script # <<>>
  /\ Goto("poll", Head(env.script))
  /\ env' = [env EXCEPT !.script = Tail(@)]
  /\ UNCHANGED <<hooks, flags, refs, rules, window, local>>

-----------------------------------------------------------------------------
(* install_xinput. *)

NextGen == 1 + Cardinality(freed) + Cardinality({f \in Functions2 : hook[f].gen # 0})

\* A permanent detour is armed again; otherwise the hook of the documented function is made,
\* disabled, and its trampoline published.
InstallXinput ==
  /\ At("poll", "install")
  /\ \/ /\ flags.permanent
        /\ flags' = [flags EXCEPT !.installed = original["state"] # None]
        /\ Return("poll") /\ UNCHANGED <<hook, original, env>>
     \/ /\ ~ flags.permanent /\ flags.installed
        /\ Return("poll") /\ UNCHANGED <<hook, original, flags, env>>
     \/ /\ ~ flags.permanent /\ ~ flags.installed
        /\ Fault("no_xinput") \/ Fault("create")
        /\ Return("poll") /\ UNCHANGED <<hook, original, flags>>
     \/ /\ ~ flags.permanent /\ ~ flags.installed
        /\ hook' = [hook EXCEPT !["state"] = [gen |-> NextGen, live |-> FALSE]]
        /\ original' = [original EXCEPT !["state"] = NextGen]
        /\ Goto("poll", "enable") /\ UNCHANGED <<flags, local, env>>
  /\ UNCHANGED <<freed, inflight, refs, rules, window>>

\* It is enabled; then the other function gets its hook, unless there is none or both share
\* their code.
Enable ==
  /\ At("poll", "enable")
  /\ \/ /\ Fault("enable")
        /\ hook' = [hook EXCEPT !["state"] = NoHook]
        /\ original' = [original EXCEPT !["state"] = None]
        /\ freed' = freed \cup {hook["state"].gen}
        /\ Return("poll") /\ UNCHANGED flags
     \/ /\ env.faults \cap {"no_ex", "create_ex"} # {}
        /\ hook' = [hook EXCEPT !["state"].live = TRUE]
        /\ flags' = [flags EXCEPT !.installed = TRUE]
        /\ Return("poll") /\ UNCHANGED <<original, freed, env>>
     \/ /\ env.faults \cap {"no_ex", "create_ex"} = {}
        /\ hook' = [hook EXCEPT !["state"].live = TRUE, !["ex"] = [gen |-> NextGen, live |-> FALSE]]
        /\ original' = [original EXCEPT !["ex"] = NextGen]
        /\ Goto("poll", "enable_ex") /\ UNCHANGED <<freed, flags, local, env>>
  /\ UNCHANGED <<inflight, refs, rules, window>>

EnableEx ==
  /\ At("poll", "enable_ex")
  /\ \/ /\ hook' = [hook EXCEPT !["ex"].live = TRUE]
        /\ UNCHANGED <<original, freed, env>>
     \/ /\ Fault("enable_ex")
        /\ hook' = [hook EXCEPT !["ex"] = NoHook]
        /\ original' = [original EXCEPT !["ex"] = None]
        /\ freed' = freed \cup {hook["ex"].gen}
  /\ flags' = [flags EXCEPT !.installed = TRUE]
  /\ Return("poll")
  /\ UNCHANGED <<inflight, refs, rules, window>>

\* Every cycle of the poll loop opens or closes the gate of the rules.
SetGate ==
  /\ pc["poll"] \in {"arm", "disarm"}
  /\ flags' = [flags EXCEPT !.gate = At("poll", "arm")]
  /\ Return("poll")
  /\ UNCHANGED <<hooks, refs, rules, window, env>>

-----------------------------------------------------------------------------
(* The detours of the two functions, on a game thread. *)

\* The jump in the prologue is taken; the thread is not counted yet.
GameCalls(t, f) ==
  /\ At(t, "idle") /\ hook[f].live /\ env.calls > 0
  /\ env' = [env EXCEPT !.calls = @ - 1]
  /\ local' = [local EXCEPT ![t].fn = f]
  /\ Goto(t, "enter")
  /\ UNCHANGED <<hooks, flags, refs, rules, window>>

Enter(t) ==
  /\ At(t, "enter")
  /\ inflight' = inflight + 1
  /\ Goto(t, "load")
  /\ UNCHANGED <<hook, original, freed, flags, refs, rules, window, local, env>>

Load(t) ==
  /\ At(t, "load")
  /\ local' = [local EXCEPT ![t].gen = original[local[t].fn],
                            ![t].answer = IF original[local[t].fn] = None THEN "disconnected" ELSE @]
  /\ Goto(t, IF original[local[t].fn] = None THEN "leave" ELSE "call")
  /\ UNCHANGED <<hooks, flags, refs, rules, window, env>>

\* The trampoline returns.  apply_suppress begins: without the gate the rules are not read.
CallOriginal(t) ==
  /\ At(t, "call")
  /\ local' = [local EXCEPT ![t].answer = "state"]
  /\ Goto(t, IF flags.gate THEN "seq" ELSE "leave")
  /\ UNCHANGED <<hooks, flags, refs, rules, window, env>>

\* evaluate_published_consume_rules: one attempt, under the sequence lock.
ReadSeq(t) ==
  /\ At(t, "seq")
  /\ IF rules.seq % 2 = 1 THEN Goto(t, "leave") /\ UNCHANGED local
     ELSE Goto(t, "count") /\ local' = [local EXCEPT ![t].seq = rules.seq]
  /\ UNCHANGED <<hooks, flags, refs, rules, window, env>>

ReadCount(t) ==
  /\ At(t, "count")
  /\ local' = [local EXCEPT ![t].todo = rules.count]
  /\ Goto(t, "copy")
  /\ UNCHANGED <<hooks, flags, refs, rules, window, env>>

CopyRule(t) ==
  /\ At(t, "copy")
  /\ IF Len(local[t].copy) = local[t].todo THEN Goto(t, "check") /\ UNCHANGED local
     ELSE /\ local' = [local EXCEPT ![t].copy = Append(@, rules.list[Len(@) + 1])]
          /\ UNCHANGED pc
  /\ UNCHANGED <<hooks, flags, refs, rules, window, env>>

CheckSeq(t) ==
  /\ At(t, "check")
  /\ Goto(t, IF rules.seq # local[t].seq THEN "leave" ELSE "masked")
  /\ UNCHANGED <<hooks, flags, refs, rules, window, local, env>>

Leave(t) ==
  /\ pc[t] \in {"leave", "masked"}
  /\ inflight' = inflight - 1
  /\ Return(t)
  /\ UNCHANGED <<hook, original, freed, flags, refs, rules, window, env>>

-----------------------------------------------------------------------------
(* publish_gamepad_consume_rules, by the one thread that holds the binding lock. *)

\* A list too long for the detour is published as an empty one.
Fits(list) == IF Len(list) > env.maxRules THEN <<>> ELSE list

PublishBegins ==
  /\ At("writer", "idle") /\ env.next <= Len(env.lists)
  /\ rules' = [rules EXCEPT !.seq = @ + 1]
  /\ local' = [local EXCEPT !["writer"].copy = Fits(env.lists[env.next])]
  /\ env' = [env EXCEPT !.next = @ + 1]
  /\ Goto("writer", "rule")
  /\ UNCHANGED <<hooks, flags, refs, window>>

PublishRule ==
  /\ At("writer", "rule")
  /\ LET n == local["writer"].todo + 1
         list == local["writer"].copy
     IN IF n > Len(list)
        THEN /\ rules' = [rules EXCEPT !.count = Len(list)]
             /\ Goto("writer", "even") /\ UNCHANGED local
        ELSE /\ rules' = [rules EXCEPT !.list[n] = list[n]]
             /\ local' = [local EXCEPT !["writer"].todo = n] /\ UNCHANGED pc
  /\ UNCHANGED <<hooks, flags, refs, window, env>>

PublishEnds ==
  /\ At("writer", "even")
  /\ rules' = [rules EXCEPT !.seq = @ + 1]
  /\ Return("writer")
  /\ UNCHANGED <<hooks, flags, refs, window, env>>

-----------------------------------------------------------------------------
(* install_wndproc and the window's thread in wndproc_detour. *)

\* The reference that keeps the detour's code mapped is taken first, once and for ever; the
\* predecessor is published before the detour can be reached.
Subclass ==
  /\ At("poll", "subclass")
  /\ \/ /\ sub.installed \/ \A w \in Windows : top[w] = None
        /\ Return("poll") /\ UNCHANGED <<flags, refs, sub, env>>
     \/ /\ ~ sub.installed /\ "subclass" \notin refs /\ Fault("reference")
        /\ Return("poll") /\ UNCHANGED <<flags, refs, sub>>
     \/ /\ ~ sub.installed
        /\ refs' = refs \cup {"subclass"}
        /\ \E w \in {v \in Windows : top[v] # None} :
             /\ sub' = [sub EXCEPT !.prev = top[w], !.hwnd = w]
             /\ local' = [local EXCEPT !["poll"].cur = top[w], !["poll"].fn = w]
        /\ flags' = [flags EXCEPT !.mixed = @ \/ (frame # None /\ frame.at # "forward")]
        /\ Goto("poll", "swap") /\ UNCHANGED env
  /\ UNCHANGED <<hooks, rules, top, below, frame>>

Swap ==
  /\ At("poll", "swap")
  /\ LET w == local["poll"].fn
     IN \/ /\ top[w] # None
           /\ top' = [top EXCEPT ![w] = Detour]
           /\ local' = [local EXCEPT !["poll"].gen = top[w]]
           /\ Goto("poll", "adopt") /\ UNCHANGED <<sub, env>>
        \/ /\ IF top[w] = None THEN UNCHANGED env ELSE Fault("swap")
           /\ sub' = [sub EXCEPT !.hwnd = None, !.prev = None]
           /\ Return("poll") /\ UNCHANGED top
  /\ UNCHANGED <<hooks, flags, refs, rules, below, frame>>

\* Somebody else may have subclassed the window in between; then that one is the predecessor.
Adopt ==
  /\ At("poll", "adopt")
  /\ sub' = IF local["poll"].gen # local["poll"].cur THEN [sub EXCEPT !.prev = local["poll"].gen] ELSE sub
  /\ Goto("poll", "subclassed")
  /\ UNCHANGED <<hooks, flags, refs, rules, top, below, frame, local, env>>

Subclassed ==
  /\ At("poll", "subclassed")
  /\ sub' = [sub EXCEPT !.installed = TRUE]
  /\ Return("poll")
  /\ UNCHANGED <<hooks, flags, refs, rules, top, below, frame, env>>

\* A message on its way down the window's chain comes to the detour.
Dispatch(w, msg) ==
  /\ frame = None /\ env.messages > 0
  /\ top[w] = Detour \/ (top[w] = Foreign /\ below[w] = Detour)
  /\ env' = [env EXCEPT !.messages = @ - 1]
  /\ frame' = [w |-> w, msg |-> msg, at |-> "load", prev |-> None]
  /\ UNCHANGED <<hooks, flags, refs, rules, top, below, sub, pc, local>>

LoadPrev ==
  /\ frame # None /\ frame.at = "load"
  /\ frame' = [frame EXCEPT !.prev = sub.prev, !.at = IF frame.msg = "destroy" THEN "clear" ELSE "forward"]
  /\ UNCHANGED <<hooks, flags, refs, rules, top, below, sub, pc, local, env>>

\* WM_NCDESTROY: what is tracked is dropped, the flag last.
Untrack ==
  /\ frame # None /\ frame.at \in {"clear", "uninstalled"}
  /\ sub' = IF frame.at = "clear" THEN [sub EXCEPT !.hwnd = None, !.prev = None]
            ELSE [sub EXCEPT !.installed = FALSE]
  /\ frame' = [frame EXCEPT !.at = IF @ = "clear" THEN "uninstalled" ELSE "forward"]
  /\ UNCHANGED <<hooks, flags, refs, rules, top, below, pc, local, env>>

Forward ==
  /\ frame # None /\ frame.at = "forward"
  /\ top' = IF frame.msg = "destroy" THEN [top EXCEPT ![frame.w] = None] ELSE top
  /\ below' = IF frame.msg = "destroy" THEN [below EXCEPT ![frame.w] = None] ELSE below
  /\ frame' = None
  /\ UNCHANGED <<hooks, flags, refs, rules, sub, pc, local, env>>

-----------------------------------------------------------------------------
(* uninstall. *)

Uninstall ==
  /\ At("poll", "uninstall")
  /\ flags' = [flags EXCEPT !.gate = FALSE]
  /\ Goto("poll", "unsubclass")
  /\ UNCHANGED <<hooks, refs, rules, window, local, env>>

\* Only the top of the chain can be taken out.
Unsubclass ==
  /\ At("poll", "unsubclass")
  /\ LET w == sub.hwnd
     IN IF ~ sub.installed THEN Goto("poll", "retire") /\ UNCHANGED sub
        ELSE IF w = None \/ top[w] = None
        THEN /\ sub' = [hwnd |-> None, prev |-> None, installed |-> FALSE]
             /\ Goto("poll", "retire")
        ELSE Goto("poll", IF top[w] = Detour THEN "restore" ELSE "retire") /\ UNCHANGED sub
  /\ local' = [local EXCEPT !["poll"].fn = sub.hwnd]
  /\ UNCHANGED <<hooks, flags, refs, rules, top, below, frame, env>>

Restore ==
  /\ At("poll", "restore")
  /\ LET w == local["poll"].fn
     IN top' = IF top[w] = None THEN top ELSE [top EXCEPT ![w] = sub.prev]
  /\ sub' = [sub EXCEPT !.hwnd = None, !.installed = FALSE]
  /\ Goto("poll", "retire")
  /\ UNCHANGED <<hooks, flags, refs, rules, below, frame, local, env>>

RetireLater ==
  /\ At("poll", "retire")
  /\ Goto("poll", "drain")
  /\ flags' = [flags EXCEPT !.retiring = TRUE]
  /\ UNCHANGED <<hook, original, freed, inflight, refs, rules, window, local, env>>

\* A permanent detour is only disarmed.  Otherwise both trampolines are withdrawn.
Retire ==
  /\ At("poll", "retire")
  /\ IF flags.permanent
     THEN /\ flags' = [flags EXCEPT !.installed = FALSE]
          /\ Return("poll") /\ UNCHANGED original
     ELSE /\ flags' = [flags EXCEPT !.retiring = TRUE]
          /\ original' = [f \in Functions2 |-> None]
          /\ Goto("poll", "drain") /\ UNCHANGED local
  /\ UNCHANGED <<hook, freed, inflight, refs, rules, window, env>>

\* The wait is short: when it is over there may still be threads inside.
Drain ==
  /\ At("poll", "drain")
  /\ Goto("poll", IF inflight = 0 THEN "free" ELSE "leak")
  /\ UNCHANGED <<hooks, flags, refs, rules, window, local, env>>

\* Then the hooks stay for ever, and so do both modules; if that cannot be arranged they go.
Leak ==
  /\ At("poll", "leak")
  /\ \/ /\ hook["state"].gen # 0
        /\ refs' = refs \cup {"self", "xinput"}
        /\ original' = [f \in Functions2 |-> IF hook[f].gen = 0 THEN None ELSE hook[f].gen]
        /\ flags' = [flags EXCEPT !.permanent = TRUE, !.installed = FALSE, !.retiring = FALSE]
        /\ Return("poll") /\ UNCHANGED env
     \/ /\ IF hook["state"].gen = 0 THEN UNCHANGED env ELSE Fault("memory")
        /\ flags' = [flags EXCEPT !.pressed = TRUE]
        /\ Goto("poll", "free") /\ UNCHANGED <<refs, original, local>>
  /\ UNCHANGED <<hook, freed, inflight, rules, window>>

Free ==
  /\ At("poll", "free")
  /\ freed' = freed \cup ({hook[f].gen : f \in Functions2} \ {0})
  /\ hook' = [f \in Functions2 |-> NoHook]
  /\ flags' = [flags EXCEPT !.installed = FALSE, !.retiring = FALSE]
  /\ Return("poll")
  /\ UNCHANGED <<original, inflight, refs, rules, window, env>>

-----------------------------------------------------------------------------
(* The world outside. *)

\* It comes once to each window; its procedure can be called after it left.
ForeignIn(w) ==
  /\ env.foreign /\ top[w] # None /\ below[w] = None
  /\ below' = [below EXCEPT ![w] = top[w]]
  /\ top' = [top EXCEPT ![w] = Foreign]
  /\ UNCHANGED <<hooks, flags, refs, rules, sub, frame, pc, local, env>>

ForeignOut(w) ==
  /\ top[w] = Foreign /\ frame = None
  /\ top' = [top EXCEPT ![w] = below[w]]
  /\ UNCHANGED <<hooks, flags, refs, rules, below, sub, frame, pc, local, env>>

\* The game makes its next window.
OpenWindow(w) ==
  /\ w \in env.later
  /\ env' = [env EXCEPT !.later = @ \ {w}]
  /\ top' = [top EXCEPT ![w] = GameProc(w)]
  /\ UNCHANGED <<hooks, flags, refs, rules, below, sub, frame, pc, local>>

-----------------------------------------------------------------------------
Next ==
  \/ PollCalls \/ InstallXinput \/ Enable \/ EnableEx \/ SetGate
  \/ Subclass \/ Swap \/ Adopt \/ Subclassed
  \/ Uninstall \/ Unsubclass \/ Restore \/ Retire \/ Drain \/ Leak \/ Free
  \/ \E t \in GameThreads :
       \/ \E f \in Functions2 : GameCalls(t, f)
       \/ Enter(t) \/ Load(t) \/ CallOriginal(t) \/ ReadSeq(t) \/ ReadCount(t) \/ CopyRule(t)
       \/ CheckSeq(t) \/ Leave(t)
  \/ PublishBegins \/ PublishRule \/ PublishEnds
  \/ \E w \in Windows :
       \/ \E msg \in {"other", "destroy"} : Dispatch(w, msg)
       \/ ForeignIn(w) \/ ForeignOut(w) \/ OpenWindow(w)
  \/ LoadPrev \/ Untrack \/ Forward

Spec == Init /\ [][Next]_vars

-----------------------------------------------------------------------------
\* input_intercept.cpp, InflightGuard: no game thread runs in a trampoline whose hook was
\* freed, whenever uninstall runs and however often the hooks come back.  Two exceptions: the
\* last resort of uninstall, with no memory left (flags.pressed), and install_xinput when enable
\* fails after an earlier uninstall, which frees the new hook at once: a thread left over from
\* before may have loaded its trampoline.  The scenarios checked have no failing re-enable.
TrampolineOutlivesCall ==
  \A t \in GameThreads : At(t, "call") => local[t].gen \notin freed \/ flags.pressed

\* input_intercept.cpp, install_xinput and uninstall: a patched function always finds a
\* trampoline to forward to, except while uninstall decides what becomes of the hooks, so
\* that the game is not told of a disconnected controller; and what stays patched for ever
\* stays mapped.
NoFakeDisconnect ==
  /\ \A f \in Functions2 : hook[f].live /\ ~ flags.retiring => original[f] # None
  /\ flags.permanent => {"self", "xinput"} \subseteq refs

\* input_intercept.cpp, the sequence lock: the rules a detour evaluates are one published
\* list, never a mixture of two.
RulesAreWhole ==
  \A t \in GameThreads : At(t, "masked") =>
     local[t].copy = IF local[t].seq = 0 THEN <<>> ELSE Fits(env.lists[local[t].seq \div 2])

Reaches(w, p) == p = GameProc(w) \/ (p = Foreign /\ below[w] = GameProc(w))

\* input_intercept.cpp, wndproc_detour: a message the detour passes on comes to the procedure
\* of the game's own window, through teardown, a window made anew and other subclassers;
\* never back to the detour and never to DefWindowProc.  (Excepted is what follows once a
\* message is still between the detour's entry and its last access to the tracked state when
\* an uninstall has ended and the next install publishes another predecessor.)
ForwardsToTheGame ==
  frame # None /\ frame.at # "load" /\ ~ flags.mixed => Reaches(frame.w, frame.prev)

\* input_intercept.cpp, WM_NCDESTROY: the subclass is marked uninstalled "so a later poll cycle
\* re-subclasses the next game window".
InstalledHasWindow == sub.installed /\ frame = None => sub.hwnd # None
=============================================================================
