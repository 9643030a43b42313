----------------------------- MODULE MCDispatch -----------------------------
(* What other code calls into the kit for, one part at a time: event handlers, the detours of  *)
(* the input interception, and what these hide of consumed input.  A behaviour chooses a       *)
(* component and is a behaviour of that component.                                             *)
EXTENDS EventDispatcher, TLC

CONSTANTS Nil, u1, u2, a, lb, rb, lt, ctrl, lctrl, wup

VARIABLES component,
          hook, original, freed, flags, inflight, refs, rules, top, below, sub, frame, pc, local, env,
          bindings, cache, active, down, world, poll, latch, published, read, wheel, past

intercept == <<hook, original, freed, flags, inflight, refs, rules, top, below, sub, frame, pc, local, env>>
consume == <<bindings, cache, active, down, world, poll, latch, published, read, wheel, past>>
all == <<component, vars, intercept, consume>>

-----------------------------------------------------------------------------
(* Interception: two game threads and two windows. *)

Quiet == [script |-> <<>>, calls |-> 0, lists |-> <<>>, next |-> 1, maxRules |-> 2, messages |-> 0,
          foreign |-> FALSE, open |-> {}, later |-> {}, faults |-> {}]

Hooking == [Quiet EXCEPT !.script = <<"install", "uninstall", "install", "uninstall">>, !.calls = 2]
Failing == [Quiet EXCEPT !.script = <<"install", "install", "uninstall">>, !.calls = 2]
Ruling  == [Quiet EXCEPT !.script = <<"install", "arm", "disarm">>, !.calls = 2,
                         !.lists = <<<<1, 1>>, <<2, 2, 2>>>>]
Windowing == [Quiet EXCEPT !.script = <<"subclass", "subclass", "uninstall", "subclass">>,
                           !.messages = 2, !.foreign = TRUE, !.open = {1}, !.later = {2}]
InterceptCases ==
  {Hooking, [Hooking EXCEPT !.faults = {"memory"}], [Hooking EXCEPT !.faults = {"no_ex"}]}
  \cup {[Failing EXCEPT !.faults = {f}] : f \in {"no_xinput", "create", "enable", "enable_ex"}}
  \cup {Ruling}
  \cup {Windowing, [Windowing EXCEPT !.faults = {"swap", "reference"}]}

TwoThreads == {u1, u2}
TwoWindows == {1, 2}
Intercept == INSTANCE InputIntercept WITH
  GameThreads <- TwoThreads, Windows <- TwoWindows, None <- Nil, Scenarios <- InterceptCases

-----------------------------------------------------------------------------
(* Consumption: three buttons, a trigger, a modifier with its two sides and one wheel direction. *)

Bind(m, k, c) == [mods |-> m, keys |-> k, consume |-> c]
Base == [bindings |-> <<>>, later |-> <<>>, events |-> 3, moves |-> {}, faults |-> {}]

\* lb+a is consumed while rb belongs to another chord; then consuming stops, or the other chord
\* needs a key the detour cannot see.
Chords == [Base EXCEPT !.bindings = <<Bind({lb}, {a}, TRUE), Bind({rb}, {lb}, FALSE)>>, !.moves = {a, lb}]
ConsumeCases ==
  {[Chords EXCEPT !.moves = m, !.faults = {"stage"}] : m \in {{a, lb, "focus"}, {a, "connect"}}}
  \cup {[Chords EXCEPT !.moves = {a, lb}, !.events = 2, !.faults = {"rebuild"},
          !.later = <<<<Bind({lb}, {a}, TRUE), Bind({rb}, {lb, lt}, TRUE), Bind({}, {rb}, TRUE)>>>>]}
  \cup {[Base EXCEPT !.bindings = <<Bind({ctrl}, {a, wup}, TRUE), Bind({lctrl}, {a}, FALSE)>>,
          !.moves = m] : m \in {{ctrl, lctrl, a}, {ctrl, wup}}}
  \cup {[Base EXCEPT !.bindings = <<Bind({}, {wup}, TRUE)>>, !.moves = {wup}]}
  \cup {[Base EXCEPT !.bindings = <<Bind({}, {wup}, TRUE)>>, !.moves = {wup}, !.events = 2,
          !.later = <<<<Bind({}, {a}, FALSE)>>, <<Bind({}, {wup}, TRUE)>>>>]}

Buttons == {a, lb, rb}
Triggers == {lt}
Keys == {ctrl, lctrl}
KeyFamilies == {{ctrl, lctrl}}
Directions == {wup}

Consume == INSTANCE InputConsume WITH
  Digital <- Buttons, Analog <- Triggers, Keyboard <- Keys, Families <- KeyFamilies, Wheel <- Directions,
  None <- Nil, Grace <- 1, TTL <- 2, MaxRules <- 2, MaxNotches <- 3, MaxPending <- 2, MaxTime <- 3,
  Scenarios <- ConsumeCases

NoConsume ==
  /\ bindings = Nil /\ cache = Nil /\ active = Nil /\ down = Nil /\ world = Nil /\ poll = Nil
  /\ latch = Nil /\ published = Nil /\ read = Nil /\ wheel = Nil /\ past = Nil

-----------------------------------------------------------------------------
(* The chosen component runs; the others do not start. *)

NoIntercept ==
  /\ hook = Nil /\ original = Nil /\ freed = Nil /\ flags = Nil /\ inflight = Nil /\ refs = Nil
  /\ rules = Nil /\ top = Nil /\ below = Nil /\ sub = Nil /\ frame = Nil /\ pc = Nil /\ local = Nil /\ env = Nil

MCInit ==
  /\ Init
  /\ \/ component = "events" /\ NoIntercept /\ NoConsume
     \/ component = "intercept" /\ Intercept!Init /\ NoConsume
     \/ component = "consume" /\ Consume!Init /\ NoIntercept

MCNext ==
  \/ component = "events" /\ Next /\ UNCHANGED <<component, intercept, consume>>
  \/ component = "intercept" /\ Intercept!Next /\ UNCHANGED <<component, vars, consume>>
  \/ component = "consume" /\ Consume!Next /\ UNCHANGED <<component, vars, intercept>>

MCSpec == MCInit /\ [][MCNext]_all

\* Threads, dispatchers and subscriptions are interchangeable.
Symmetry == Permutations(Threads) \cup Permutations(Dispatchers) \cup Permutations(Subscriptions)

-----------------------------------------------------------------------------
\* input_intercept.cpp, uninstall, InflightGuard, the sequence lock and wndproc_detour: no game
\* thread runs in a trampoline that was freed (but for the two exceptions InputIntercept names; the
\* "enable" fault is injected at the first install only), a patched function always finds one to
\* forward to,
\* the rules a detour evaluates are one published list, and a message that is passed on comes to
\* the procedure of the game's own window.
InterceptIsSound ==
  component = "intercept" =>
    /\ Intercept!TrampolineOutlivesCall
    /\ Intercept!NoFakeDisconnect
    /\ Intercept!RulesAreWhole
    /\ Intercept!ForwardsToTheGame

\* input_poller.cpp, poll_loop, and input_intercept.cpp, step_gamepad_suppress and
\* step_wheel_pulse: once the poll loop has seen a claimed trigger down, no read by the game shows
\* it for the rest of that press; on any snapshot of the buttons the detour's rules hide exactly
\* what the poll loop would claim; a notch that is not dropped at a ceiling fires one press.
CaughtStaysHidden ==
  component = "consume" =>
    Consume!CaughtStaysHidden /\ Consume!RulesAgreeWithPoll /\ Consume!NotchFiresOnce
=============================================================================
