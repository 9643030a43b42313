---------------------------- MODULE InputConsume ----------------------------
(***************************************************************************)
(* What a consume binding hides from the game (internal/input_poller.cpp   *)
(* and internal/input_intercept.cpp): the poll loop evaluates chords on a  *)
(* sampled state and publishes masks with a time to live; a game thread in *)
(* the XInput detour, with its own copy of the state and on its own clock, *)
(* subtracts the mask and what the published rules say of that copy; the   *)
(* window procedure counts wheel notches, which the poll loop turns into   *)
(* pulses.                                                                 *)
(*                                                                         *)
(* A code is a button, a key or a wheel direction.  Analog inputs and      *)
(* thresholds are codes that are down or not.                              *)
(***************************************************************************)
EXTENDS Integers, Sequences, FiniteSets, FiniteSetsExt

CONSTANTS Digital,      \* gamepad buttons of XINPUT_GAMEPAD.wButtons
          Analog,       \* triggers and stick directions
          Keyboard, Families,   \* keys; {generic, left, right} of each modifier
          Wheel,
          Grace, TTL, MaxRules, MaxNotches, MaxPending, MaxTime,
          Scenarios, None

VARIABLES bindings,     \* m_bindings: sequence of [mods, keys, consume]
          cache,        \* known modifiers, rules and the three flags derived from bindings
          active,       \* m_active_states
          down,         \* what is physically down now
          world,        \* [focused, connected, now, left, later, faults]
          poll,         \* the poll loop: [pc, view, ...], see Init
          latch,        \* GamepadSuppressState: [armed, deadline]
          published,    \* [mask, deadline, gate, wheel, wheelDeadline]
          read,         \* a game thread in the detour, or None
          wheel,        \* [count, pending, pulsing] of each direction
          past          \* history: what the properties compare with

vars == <<bindings, cache, active, down, world, poll, latch, published, read, wheel, past>>

Pad == Digital \cup Analog

-----------------------------------------------------------------------------
(* Evaluation of bindings. *)

ModifierSatisfies(required, held) ==
  required = held \/ \E f \in Families : {required, held} \subseteq f

\* All of the chord's modifiers, and no known modifier that is not one of them.
ModifiersHeld(b, known, view) ==
  /\ b.mods \subseteq view
  /\ \A km \in known \cap view : \E m \in b.mods : ModifierSatisfies(m, km)

AnyPressed(b, known, view) == ModifiersHeld(b, known, view) /\ b.keys \cap view # {}

\* What the first n bindings claim of the codes in S.
Owned(n, known, view, S) ==
  UNION {bindings[i].keys \cap S : i \in {j \in 1 .. n : bindings[j].consume
                                                         /\ ModifiersHeld(bindings[j], known, view)}}

Known(bs) == UNION {bs[i].mods : i \in DOMAIN bs}

RuleOf(b, known) ==
  [modifier |-> b.mods, forbidden |-> known \ b.mods, trigger |-> b.keys \cap Digital]

\* One rule for each consume binding with a digital trigger; none at all if the detour cannot
\* see some modifier.  publish_gamepad_consume_rules drops a list that is too long.
BuildRules(bs) ==
  LET chosen == {i \in DOMAIN bs : bs[i].consume /\ bs[i].keys \cap Digital # {}}
  IN IF ~ (Known(bs) \subseteq Digital) \/ Cardinality(chosen) > MaxRules THEN {}
     ELSE {RuleOf(bs[i], Known(bs)) : i \in chosen}

EvaluateRules(rules, raw) ==
  UNION {r.trigger : r \in {q \in rules : q.modifier \subseteq raw /\ q.forbidden \cap raw = {}}}

Uses(bs, S) == \E i \in DOMAIN bs : (bs[i].keys \cup bs[i].mods) \cap S # {}
Derived(bs) ==
  [known |-> Known(bs), rules |-> BuildRules(bs), pad |-> Uses(bs, Pad), wheel |-> Uses(bs, Wheel),
   consume |-> \E i \in DOMAIN bs : bs[i].consume /\ bs[i].keys \cap Digital # {}]
Nothing == [known |-> {}, rules |-> {}, pad |-> FALSE, wheel |-> FALSE, consume |-> FALSE]

-----------------------------------------------------------------------------
NoView == [pc |-> "top", focused |-> FALSE, seen |-> {}, since |-> {}, connected |-> FALSE,
           was |-> FALSE, armed |-> FALSE, owned |-> {}, wheelOwned |-> {}]

\* poll.seen is the sampled gamepad, since the part of it that was not let go again; was and
\* armed are gamepad_was_connected and gamepad_suppress_active.
Init ==
  \E s \in Scenarios :
    /\ bindings = s.bindings /\ cache = Derived(s.bindings)
    /\ active = [i \in DOMAIN s.bindings |-> FALSE]
    /\ down = {}
    /\ world = [focused |-> TRUE, connected |-> TRUE, now |-> 0, left |-> s.events,
                later |-> s.later, faults |-> s.faults, moves |-> s.moves]
    /\ poll = NoView
    /\ latch = [armed |-> {}, deadline |-> [b \in Digital |-> 0]]
    /\ published = [mask |-> {}, deadline |-> 0, gate |-> FALSE, wheel |-> {}, wheelDeadline |-> 0]
    /\ read = None
    /\ wheel = [d \in Wheel |-> [count |-> 0, pending |-> 0, pulsing |-> FALSE]]
    /\ past = [caught |-> {}, arrived |-> 0, lost |-> 0, fired |-> 0, idle |-> 0, focusedDrain |-> 0]

-----------------------------------------------------------------------------
(* The poll loop. *)

CycleBegins ==
  /\ poll.pc = "top"
  /\ poll' = [poll EXCEPT !.pc = "sample", !.focused = world.focused]
  /\ UNCHANGED <<bindings, cache, active, down, world, latch, published, read, wheel, past>>

\* The gamepad is read once, through the trampoline; while it is away, only now and then.
Sample ==
  /\ poll.pc = "sample"
  /\ \/ /\ cache.pad /\ poll.focused
        /\ poll' = [poll EXCEPT !.pc = "evaluate", !.was = world.connected, !.connected = world.connected,
                                !.seen = IF world.connected THEN down \cap Pad ELSE @,
                                !.since = IF world.connected THEN down \cap Pad ELSE @]
     \/ /\ ~ (cache.pad /\ poll.focused) \/ ~ poll.was
        /\ poll' = [poll EXCEPT !.pc = "evaluate", !.connected = FALSE]
  /\ UNCHANGED <<bindings, cache, active, down, world, latch, published, read, wheel, past>>

\* take_wheel_counts, then add_wheel_notches, then step_wheel_pulse.
Overflow(w) == IF w.count >= MaxPending - w.pending THEN w.count - (MaxPending - w.pending) ELSE 0
Added(w)    == [w EXCEPT !.count = 0, !.pending = @ + w.count - Overflow(w)]
Pulses(w)   == ~ w.pulsing /\ w.pending > 0

Pulsed(w)   == [w EXCEPT !.pulsing = Pulses(w), !.pending = IF Pulses(w) THEN @ - 1 ELSE @]

\* Over all directions.
Total(f) == MapThenSumSet(LAMBDA d : f[d], Wheel)

\* Under the shared lock every binding is evaluated; n < Len(bindings) is a failed allocation
\* after n of them, with no callback delivered.  A wheel binding's press edge is counted.
Evaluate(n) ==
  /\ poll.pc = "evaluate"
  /\ IF n = Len(bindings) THEN UNCHANGED world
     ELSE "stage" \in world.faults /\ world' = [world EXCEPT !.faults = @ \ {"stage"}]
  /\ LET drained == [d \in Wheel |-> IF cache.wheel THEN Added(wheel[d]) ELSE wheel[d]]
         pulse == {d \in Wheel : cache.wheel /\ Pulses(drained[d])}
         view == IF ~ poll.focused THEN {}
                 ELSE (down \cap Keyboard) \cup pulse \cup (IF poll.connected THEN poll.seen ELSE {})
         now == [i \in 1 .. n |-> poll.focused /\ AnyPressed(bindings[i], cache.known, view)]
         edge == {i \in 1 .. n : now[i] /\ ~ active[i] /\ bindings[i].keys \cap pulse # {}}
         taken == IF cache.wheel THEN Total([d \in Wheel |-> wheel[d].count]) ELSE 0
     IN /\ wheel' = [d \in Wheel |-> IF cache.wheel THEN Pulsed(drained[d]) ELSE wheel[d]]
        /\ active' = [i \in DOMAIN active |-> IF i <= n THEN now[i] ELSE active[i]]
        /\ poll' = [poll EXCEPT !.pc = "publish",
                                !.owned = IF poll.focused THEN Owned(n, cache.known, view, Digital) ELSE {},
                                !.wheelOwned = IF poll.focused THEN Owned(n, cache.known, view, Wheel) ELSE {}]
        /\ past' = [past EXCEPT !.fired = @ + (IF n = Len(bindings) THEN Cardinality(edge) ELSE 0),
                                !.idle = @ + (IF n = Len(bindings) /\ edge # {} THEN 0 ELSE Cardinality(pulse)),
                                !.lost = @ + (IF cache.wheel THEN Total([d \in Wheel |-> Overflow(wheel[d])]) ELSE 0),
                                !.focusedDrain = @ + (IF poll.focused THEN taken ELSE 0)]
  /\ UNCHANGED <<bindings, cache, down, latch, published, read>>

ForgetsAtRelease(owned, buttons) ==
  [armed |-> owned, deadline |-> latch.deadline]

\* step_gamepad_suppress: claimed, or still down since it was claimed, or up for less than the
\* grace.  The deadline None stands for the sentinel "held".
Suppress(owned, buttons) ==
  LET held == owned \cup (latch.armed \cap buttons)
      up == latch.armed \ held
      deadline == [b \in Digital |->
                     IF b \in held THEN None
                     ELSE IF b \in up /\ latch.deadline[b] = None THEN world.now + Grace
                     ELSE latch.deadline[b]]
      over == {b \in up : world.now >= deadline[b]}
  IN [armed |-> (latch.armed \cup held) \ over,
      deadline |-> [b \in Digital |-> IF b \in over THEN 0 ELSE deadline[b]]]

PublishWheel(d) == [d EXCEPT !.wheel = poll.wheelOwned,
                             !.wheelDeadline = IF poll.wheelOwned # {} THEN world.now + TTL ELSE @]

\* The masks go out; without focus, controller or consume binding they are withdrawn, once.
\* caught is what was sampled down and suppressed and has been down ever since.
Publish ==
  /\ poll.pc = "publish"
  /\ IF cache.consume /\ poll.focused /\ poll.connected
     THEN LET next == Suppress(poll.owned, poll.seen)
          IN /\ latch' = next
             /\ published' = PublishWheel([published EXCEPT !.mask = next.armed, !.deadline = world.now + TTL,
                                                            !.gate = TRUE])
             /\ past' = [past EXCEPT !.caught = (@ \cap down) \cup (next.armed \cap poll.since)]
             /\ poll' = [poll EXCEPT !.pc = "top", !.armed = TRUE]
             /\ UNCHANGED read
     ELSE IF poll.armed
     THEN /\ latch' = [armed |-> {}, deadline |-> [b \in Digital |-> 0]]
          /\ published' = PublishWheel([published EXCEPT !.mask = {}, !.deadline = world.now + TTL,
                                                         !.gate = FALSE])
          /\ past' = [past EXCEPT !.caught = {}]
          /\ poll' = [poll EXCEPT !.pc = "top", !.armed = FALSE]
          /\ read' = IF read = None THEN None ELSE [read EXCEPT !.caught = {}]
     ELSE /\ published' = PublishWheel(published)
          /\ poll' = [poll EXCEPT !.pc = "top"]
          /\ UNCHANGED <<latch, past, read>>
  /\ UNCHANGED <<bindings, cache, active, down, world, wheel>>

-----------------------------------------------------------------------------
(* set_consume, or another reshape, under the exclusive lock. *)

\* The caches are rebuilt, or emptied when memory runs out.  Notches counted while nobody owned
\* the wheel are thrown away.
Reshape ==
  /\ world.later # <<>>
  /\ bindings' = Head(world.later)
  /\ \/ /\ cache' = Derived(bindings') /\ world' = [world EXCEPT !.later = Tail(@)]
     \/ /\ "rebuild" \in world.faults /\ cache' = Nothing
        /\ world' = [world EXCEPT !.later = Tail(@), !.faults = @ \ {"rebuild"}]
  /\ active' = [i \in DOMAIN bindings' |-> i \in DOMAIN active /\ active[i]]
  /\ LET stale == ~ cache.wheel /\ cache'.wheel
     IN /\ wheel' = [d \in Wheel |-> IF stale THEN [wheel[d] EXCEPT !.count = 0] ELSE wheel[d]]
        /\ past' = [past EXCEPT !.lost = @ + (IF stale THEN Total([d \in Wheel |-> wheel[d].count]) ELSE 0)]
  /\ UNCHANGED <<down, poll, latch, published, read>>

-----------------------------------------------------------------------------
(* The game. *)

\* The trampoline has filled the game's copy of the state; apply_suppress is about to run.
GameReads ==
  /\ read # None => read.done
  /\ world.connected
  /\ read' = [raw |-> down \cap Digital, caught |-> past.caught, at |-> world.now, done |-> FALSE, visible |-> {}]
  /\ UNCHANGED <<bindings, cache, active, down, world, poll, latch, published, wheel, past>>

ApplySuppress ==
  /\ read # None /\ ~ read.done
  /\ LET mask == published.mask \cup (IF published.gate THEN EvaluateRules(cache.rules, read.raw) ELSE {})
     IN read' = [read EXCEPT !.done = TRUE, !.visible = IF world.now >= published.deadline THEN read.raw ELSE read.raw \ mask,
                             !.caught = IF world.now >= published.deadline \/ world.now - read.at >= Grace THEN {} ELSE @]
  /\ UNCHANGED <<bindings, cache, active, down, world, poll, latch, published, wheel, past>>

\* A notch in the window procedure, counted up to a ceiling.  Whether the message goes on to
\* the game does not touch the count.
WheelMessage(d) ==
  /\ world.left > 0
  /\ wheel' = [wheel EXCEPT ![d].count = IF @ < MaxNotches THEN @ + 1 ELSE @]
  /\ past' = [past EXCEPT !.arrived = @ + 1, !.lost = @ + (IF wheel[d].count < MaxNotches THEN 0 ELSE 1)]
  /\ world' = [world EXCEPT !.left = @ - 1]
  /\ UNCHANGED <<bindings, cache, active, down, poll, latch, published, read>>

-----------------------------------------------------------------------------
(* The player and the clock. *)

Moves(m) == m \in world.moves /\ world.left > 0

Toggle(c) ==
  /\ Moves(c)
  /\ down' = IF c \in down THEN down \ {c} ELSE down \cup {c}
  /\ world' = [world EXCEPT !.left = @ - 1]
  /\ poll' = [poll EXCEPT !.since = @ \ {c}]
  /\ past' = [past EXCEPT !.caught = @ \ {c}]
  /\ UNCHANGED <<bindings, cache, active, latch, published, read, wheel>>

Focus ==
  /\ Moves("focus")
  /\ world' = [world EXCEPT !.focused = ~ @, !.left = @ - 1]
  /\ UNCHANGED <<bindings, cache, active, down, poll, latch, published, read, wheel, past>>

Connect ==
  /\ Moves("connect")
  /\ world' = [world EXCEPT !.connected = ~ @, !.left = @ - 1]
  /\ UNCHANGED <<bindings, cache, active, down, poll, latch, published, read, wheel, past>>

Tick ==
  /\ world.now < MaxTime
  /\ world' = [world EXCEPT !.now = @ + 1]
  /\ UNCHANGED <<bindings, cache, active, down, poll, latch, published, read, wheel, past>>

Next ==
  \/ CycleBegins \/ Sample \/ (\E n \in 0 .. Len(bindings) : Evaluate(n)) \/ Publish
  \/ Reshape
  \/ GameReads \/ ApplySuppress
  \/ (\E d \in Wheel \cap world.moves : WheelMessage(d))
  \/ (\E c \in Pad \cup Keyboard : Toggle(c)) \/ Focus \/ Connect \/ Tick

Spec == Init /\ [][Next]_vars

-----------------------------------------------------------------------------
\* input_intercept.cpp, evaluate_consume_rules: on any snapshot of the buttons the detour's
\* rules hide exactly what the poll loop would claim on it ("the exact decision the poll loop
\* makes"), whenever the bindings can be expressed as rules at all.
RulesAgreeWithPoll ==
  \A raw \in SUBSET Digital :
     cache.rules # {} => EvaluateRules(cache.rules, raw) = Owned(Len(bindings), cache.known, raw, Digital)

\* input_poller.cpp, poll_loop and input_intercept.cpp, step_gamepad_suppress: once the poll
\* loop has seen a claimed trigger down, no read by the game shows it for the rest of that
\* press: not after the modifier is let go, not when staging fails, and not to a read that was
\* filled before the release and is masked after it, as long as it takes less than the grace.
CaughtStaysHidden == read # None /\ read.done => read.visible \cap read.caught = {}

\* input_intercept.cpp, step_wheel_pulse: every notch that is not dropped at a ceiling is
\* waiting, fired one press of its own, or pulsed while no binding could take it; and when the
\* one binding of the wheel can always take it, none is wasted.
NotchFiresOnce ==
  /\ past.arrived = Total([d \in Wheel |-> wheel[d].count + wheel[d].pending]) + past.fired + past.idle + past.lost
  /\ bindings = <<[mods |-> {}, keys |-> Wheel, consume |-> TRUE]>> /\ world.moves = Wheel => past.idle = 0

\* input_poller.cpp, poll_loop: "The counters are drained even when unfocused so a background
\* notch is discarded rather than queued to fire on the next focus."
BackgroundNeverFires == past.fired <= past.focusedDrain
=============================================================================
