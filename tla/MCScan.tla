------------------------------- MODULE MCScan -------------------------------
(* Scanning, one level at a time: one pattern over one range, the resolution of batches of     *)
(* signatures over it, and the registry of anchors on top.  A behaviour chooses a component    *)
(* and is a behaviour of that component.                                                       *)
EXTENDS PatternScan, TLC

CONSTANTS h1, h2, Absent

VARIABLES component, batch, results, cursor, team, th, resolved, returned,
          call, image, stage, answers, out, verdict

resolve == <<batch, results, cursor, team, th, resolved, returned>>
anchors == <<call, image, stage, answers, out, verdict>>
all == <<component, vars, resolve, anchors>>

-----------------------------------------------------------------------------
(* Patterns over six bytes. *)

\* Bytes of two one-bit nibbles; 0 is common, the rest are rarer.
Classes == [b \in 0 .. 3 |-> IF b = 0 THEN 2 ELSE IF b = 1 THEN 1 ELSE 0]

B(h, l)   == ByteOf(h, l)
Wild      == ByteOf(Query, Query)
Gap(l, h) == Jump(l, h, TRUE)

Signatures ==
    { <<B(0, 1), B(0, 0)>>,
      <<B(0, 1), Wild, Marker, B(0, 0)>>,
      <<B(0, 1), B(0, 1), B(0, 1)>>,
      <<B(0, Query), B(Query, 1)>>,
      <<Wild, Wild>>,
      <<B(0, 1), B(0, 0), B(0, 1), B(0, 1), Marker>>,
      <<B(0, 1), Gap(0, 2), B(0, 0)>>,
      <<Wild, Gap(1, 2), Marker, B(0, 1)>>,
      <<Marker, B(0, 1), Gap(1, 1), B(0, 1), B(0, 0)>>,
      <<B(0, 1), Gap(0, 2), Marker, B(0, 0), Gap(0, 2), B(0, 1)>> }

\* Every list of up to four of these tokens, of the language or not, and
\* lists at the caps and one past them.
Lists ==
    UNION {[1 .. n -> {B(1, 0), B(Query, 1), Marker, Gap(0, 1), B(0, Other), Gap(2, 1)}] :
             n \in 0 .. 4}
    \cup {<<B(0, 1), j, B(0, 1)>> : j \in {Gap(2, 2), Gap(2, 3), Gap(3, 3), Jump(1, 1, FALSE)}}
    \cup { <<B(0, 1), B(0, 1), B(0, 1), B(0, 1), B(0, 1)>>,
           <<B(0, 1), Gap(0, 1), B(0, 1), Gap(0, 1), B(0, 1), Gap(0, 1), B(0, 1)>> }

R(end, prot) == [end |-> end, prot |-> prot]

\* One region, two and three that abut, one with a hole, one of data.
Layouts ==
    { <<R(6, "rx")>>,
      <<R(3, "rx"), R(6, "rx")>>,
      <<R(2, "rx"), R(3, "rx"), R(6, "rx")>>,
      <<R(2, "rx"), R(4, "none"), R(6, "rx")>>,
      <<R(3, "rx"), R(4, "r"), R(6, "rx")>> }

Job(t, m, l, p, n, lo, hi, k) ==
    [tokens |-> t, memory |-> m, regions |-> l, pages |-> p, occurrence |-> n,
     lo |-> lo, hi |-> hi, needle |-> k]

Memories == [0 .. 5 -> 0 .. 1]
Zeroes   == [a \in 0 .. 5 |-> 0]

\* The pattern's own two bytes lie in the readable range.
SelfMemories == {m \in Memories : m[1] = 1 /\ m[2] = 0}

ScanCases ==
    {Job(t, m, l, "readable", n, 0, 6, None) :
        t \in Signatures, m \in Memories, l \in Layouts, n \in 1 .. 2}
    \cup {Job(t, m, l, "executable", 3, 1, 5, None) :
        t \in Signatures, m \in Memories, l \in Layouts}
    \cup {Job(<<B(0, 1), B(0, 0)>>, m, l, "readable", n, 0, 6, 1) :
        m \in SelfMemories, l \in Layouts, n \in 1 .. 2}
    \cup {Job(t, Zeroes, <<R(6, "rx")>>, "readable", 1, 0, 6, None) : t \in Lists}
    \cup {Job(<<B(0, 1)>>, Zeroes, <<R(6, "rx")>>, p, n, lo, 3, None) :
        p \in {"readable", "bad"}, n \in 0 .. 1, lo \in {1, 3}}

-----------------------------------------------------------------------------
(* Ladders of two candidates, and batches of four requests on up to three threads. *)

\* CodeTarget needs no scenario.
Requesting == INSTANCE ScanResolve WITH Helpers <- {}, Scenarios <- {}

Shape(fits, count, complete, jumps, site, twin) ==
    [fits |-> fits, count |-> count, complete |-> complete, jumps |-> jumps,
     site |-> site, twin |-> twin]

Cand(mode, anchored, count, complete, site, shapes) ==
    [mode |-> mode, anchored |-> anchored, count |-> count, complete |-> complete,
     site |-> site, shapes |-> shapes]

Twin     == Shape(TRUE, 1, TRUE, TRUE, "code", TRUE)
Genuine  == Shape(TRUE, 1, TRUE, TRUE, "code", FALSE)
Tailless == Shape(FALSE, 0, TRUE, FALSE, "bad", FALSE)
Collides == Shape(TRUE, 1, TRUE, FALSE, "code", FALSE)
InData   == Shape(TRUE, 1, TRUE, TRUE, "data", FALSE)

Texts == {Cand("rtti", FALSE, 1, TRUE, "data", <<>>),
          Cand("string", FALSE, 2, TRUE, "code", <<>>)}

Bytes == {Cand("rip", TRUE, 1, TRUE, site, <<>>) : site \in {"data", "out"}}
    \cup {Cand("direct", a, 1, TRUE, "code", <<>>) : a \in BOOLEAN}
    \cup {Cand("direct", TRUE, 2, TRUE, "code", <<Genuine>>),
          Cand("direct", TRUE, 1, FALSE, "code", <<Twin, Genuine>>)}

Hooked == {Cand("direct", TRUE, 0, TRUE, "bad", s) :
             s \in {<<Tailless, Twin>>, <<Tailless, Tailless>>, <<Collides, Genuine>>,
                    <<InData, Genuine>>}}

Plain(ladder, order, unique) ==
    [ladder |-> ladder, order |-> order, unique |-> unique, code |-> FALSE,
     policy |-> "Off", witness |-> FALSE, pages |-> "Readable", valid |-> TRUE, throws |-> ""]

Code(ladder, policy, witness) ==
    Requesting!CodeTarget(ladder, policy, witness) @@ [throws |-> ""]

Recovering(ladder, policy, witness) ==
    [Plain(ladder, "AsDeclared", TRUE) EXCEPT !.policy = policy, !.witness = witness]

Ladders == {<<a, b>> : a \in Texts \cup Bytes, b \in Bytes \cup Hooked}
    \cup {<<a, b>> : a \in Hooked, b \in Hooked}

OneOf == {Plain(l, o, u) : l \in Ladders, o \in {"AsDeclared", "UniqueFirst"}, u \in BOOLEAN}
    \cup {Code(l, p, w) : l \in Ladders, p \in {"WarnOnly", "RequireIdentity"}, w \in BOOLEAN}
    \cup {Recovering(l, "RequireIdentity", w) : l \in Ladders, w \in BOOLEAN}

Simple == Plain(<<Cand("direct", TRUE, 1, TRUE, "code", <<>>)>>, "AsDeclared", TRUE)
Failing(e) == [Simple EXCEPT !.throws = e]
Empty   == [Simple EXCEPT !.ladder = <<>>]
NoRange == [Simple EXCEPT !.valid = FALSE]
NoPages == [NoRange EXCEPT !.pages = "Bad"]

ResolveCases ==
    {[requests |-> <<q>>, workers |-> 1] : q \in OneOf}
    \cup {[requests |-> <<Simple, Failing(e), Empty, x>>, workers |-> n] :
             e \in {"bad_alloc", "other"}, x \in {NoRange, NoPages}, n \in 1 .. 3}
    \cup {[requests |-> <<>>, workers |-> 2]}

TwoHelpers == {h1, h2}
Resolve == INSTANCE ScanResolve WITH Helpers <- TwoHelpers, Scenarios <- ResolveCases

-----------------------------------------------------------------------------
(* Thirty-three anchors, fifteen that look for something and eighteen votes on them. *)

Rung(mode, text, tier, ret, broad) ==
    [mode |-> mode, text |-> text, tier |-> tier, ret |-> ret, broad |-> broad]
RD == Rung("direct", "x", 3, "site", FALSE)
RR == Rung("rip", "y", 2, "site", FALSE)
RS == Rung("string", "s", 1, "site", FALSE)
RF == Rung("string", "s", 1, "function", TRUE)
RV == Rung("rtti", "t", 1, "site", FALSE)

Anch(kind, site) ==
    [kind |-> kind, site |-> site, operand |-> 0, value |-> 0, module |-> "", name |-> "",
     pages |-> "Readable", validator |-> Absent, validate_manual |-> FALSE,
     require_validator |-> FALSE, members |-> <<>>, threshold |-> 0,
     match |-> "ExactValue", tolerance |-> 0]
Export(m) == [Anch("ExportName", <<>>) EXCEPT !.module = m, !.name = "f"]
Literal(v) == [Anch("Manual", <<>>) EXCEPT !.value = v, !.validator = {-2},
                 !.validate_manual = v < 0]
Quorum(m, n) == [Anch("Quorum", <<>>) EXCEPT !.members = m, !.threshold = n]
Tolerant(m, n, t) == [Quorum(m, n) EXCEPT !.match = "WithinTolerance", !.tolerance = t]

Declared ==
    << Anch("RipGlobal", <<RD, RS>>),                                     \* 1
       Anch("StringXref", <<RF>>),                                        \* 2
       Anch("RipGlobal", <<RR, RD>>),                                     \* 3
       [Anch("VtableIdentity", <<RV>>) EXCEPT !.validator = {1, -2}],      \* 4
       [Anch("CodeOperand", <<RD>>) EXCEPT !.operand = 1],                \* 5
       Literal(1),                                                        \* 6
       Literal(-2),                                                       \* 7
       Export("dll"), Export("DLL"), Export(""),                          \* 8, 9, 10
       [Anch("RipGlobal", <<RR>>) EXCEPT !.pages = "Bad"],                \* 11
       Anch("CallArgHome", <<>>),                                         \* 12
       Anch("Unset", <<>>),                                               \* 13
       [Anch("RipGlobal", <<RD, RS>>) EXCEPT !.pages = "Executable",
          !.require_validator = TRUE],                                    \* 14
       Anch("StringXref", <<RS>>),                                        \* 15
       Quorum(<<1, 2>>, 0), Quorum(<<3, 4>>, 0), Quorum(<<1, 3>>, 2),     \* 16 .. 18
       Quorum(<<3, 4, 5>>, 2), Quorum(<<6, 7>>, 0), Quorum(<<4, 6>>, 0),  \* 19 .. 21
       Quorum(<<8, 9>>, 0), Quorum(<<8, 10>>, 0), Quorum(<<4, 0>>, 0),    \* 22 .. 24
       Quorum(<<4, 21>>, 0), Quorum(<<4, 4>>, 0), Quorum(<<3, 4>>, 1),    \* 25 .. 27
       Tolerant(<<2, 15>>, 2, 1), Tolerant(<<2, 3, 4, 6>>, 3, 1),         \* 28, 29
       Tolerant(<<2, 4>>, 0, -1),                                         \* 30
       [Quorum(<<3, 4, 8>>, 2) EXCEPT !.validator = {1}],                 \* 31
       Quorum(<<4, 15, 15>>, 2), Quorum(<<12, 12, 3>>, 2) >>              \* 32, 33

At(x, y, s, t, d) ==
    (<<"direct", "x", 0>> :> x) @@ (<<"rip", "y", 0>> :> y) @@ (<<"string", "s", 0>> :> s)
    @@ (<<"rtti", "t", 0>> :> t) @@ (<<"export", "dll", "f">> :> d)
    @@ (<<"export", "game", "f">> :> -2)
Found == {Absent, -2, 1}
GameImages ==
    {[at |-> At(x, y, s, t, d), data |-> data, hidden |-> hidden] :
        x \in {Absent, 1}, y \in Found, s \in Found, t \in Found, d \in {-2, 1},
        <<data, hidden>> \in {<<{}, {}>>, <<{<<"direct", "x", 0>>}, {<<"string", "s", 0>>}>>}}

Profile(order, broad, denied) == [order |-> order, broad |-> broad, denied |-> denied]
Strict  == [ratio |-> <<1, 1>>, max_failed |-> 0, manual_at_risk_degrades |-> TRUE]
Lenient == [ratio |-> <<1, 2>>, max_failed |-> 1, manual_at_risk_degrades |-> FALSE]
Odd(r)  == [ratio |-> r, max_failed |-> 2, manual_at_risk_degrades |-> FALSE]
\* Summaries of two anchors, most of which do not add up.
Summaries == [total : {2}, resolved : {0, 2, 3}, failed : 0 .. 1, unsupported : 0 .. 1,
              not_independent : 0 .. 1, manual_at_risk : {0}]

Call(op, table, size, profile, policy, quality) ==
    [op |-> op, table |-> table, size |-> size, profile |-> profile, policy |-> policy,
     quality |-> quality]

RegistryCalls ==
    {Call("serial", <<a>>, 1, Profile("UniqueFirst", FALSE, {}), Strict, Absent) : a \in 1 .. 33}
    \cup {Call("serial", <<a>>, 1, Profile("AsDeclared", TRUE, {"VtableIdentity"}), Strict, Absent) :
            a \in 16 .. 33}
    \cup {Call(op, <<6, 17, 12>>, 4, Profile("AsDeclared", FALSE, {}), p, Absent) :
            op \in {"serial", "parallel"},
            p \in {Strict, Lenient, Odd(<<0, 0>>), Odd(<<-1, 1>>), Odd(<<3, 2>>)}}
    \cup {Call("serial", <<>>, 0, Profile("AsDeclared", FALSE, {}), p, q) :
            p \in {Strict, Lenient, Odd(<<0, 0>>), Odd(<<-1, 1>>)}, q \in Summaries}
    \cup {Call("parallel", <<16, 3>>, 1, Profile("AsDeclared", FALSE, {}), Lenient, Absent)}
    \cup {Call("fingerprint", <<a>>, 1, Profile("AsDeclared", FALSE, {}), Strict, Absent) :
            a \in 16 .. 33}

ModuleNames == [m \in {"", "dll", "DLL", "game"} |-> IF m = "DLL" THEN "dll" ELSE m]
Game == "game"
HalfRange == 2
Registry == INSTANCE AnchorRegistry WITH
    pc <- stage, results <- answers, Pool <- Declared, Miss <- Absent, Scope <- Game,
    Folded <- ModuleNames, Half <- HalfRange, Calls <- RegistryCalls, Images <- GameImages,
    Unread <- Absent
-----------------------------------------------------------------------------
(* The chosen component runs; the others do not start. *)

NoResolve ==
    /\ batch = None /\ results = None /\ cursor = None /\ team = None /\ th = None
    /\ resolved = None /\ returned = None

NoAnchors ==
    /\ call = None /\ image = None /\ stage = None /\ answers = None /\ out = None
    /\ verdict = None

IdleJob == Job(<<>>, Zeroes, <<R(6, "rx")>>, "readable", 1, 0, 6, None)

MCInit ==
    \/ component = "pattern" /\ Init /\ NoResolve /\ NoAnchors
    \/ /\ component \in {"resolve", "anchors"}
       /\ job = IdleJob /\ wide = FALSE /\ Init
       /\ \/ component = "resolve" /\ Resolve!Init /\ NoAnchors
          \/ component = "anchors" /\ Registry!Init /\ NoResolve

InPattern(A) == component = "pattern" /\ A /\ UNCHANGED <<component, resolve, anchors>>
InResolve(A) == component = "resolve" /\ A /\ UNCHANGED <<component, vars, anchors>>
InAnchors(A) == component = "anchors" /\ A /\ UNCHANGED <<component, vars, resolve>>

MCNext ==
    \/ InPattern(Compile) \/ InPattern(Scan) \/ InPattern(ReadRegion) \/ InPattern(RegionFaults)
    \/ InPattern(ShortRegion) \/ InPattern(SkipRegion) \/ InPattern(WalkEnds)
    \/ InResolve(Resolve!Next)
    \/ InAnchors(Registry!Next)

MCSpec == MCInit /\ [][MCNext]_all

-----------------------------------------------------------------------------
\* scan_resolution.cpp and fork_join.hpp: a batch gives every request, once, the answer it would
\* get alone, on however many threads.
BatchIsSerial == component = "resolve" => Resolve!BatchIsSerial /\ Resolve!EachOnce

\* anchor.cpp: a vote is supported by independent signals, a value passed its validator, the gate
\* fails closed and a fingerprint ignores the order of the members (see AnchorRegistry).
AnchorsAreHonest == component = "anchors" => Registry!AnchorsAreHonest
=============================================================================
