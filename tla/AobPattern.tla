----------------------------- MODULE AobPattern -----------------------------
(***************************************************************************)
(* The byte-signature language and its matchers, as operators.             *)
(*                                                                         *)
(* A signature is a list of tokens: known bytes, wildcards, bytes with one *)
(* known nibble, bounded jumps and an offset marker.  The parser           *)
(* (detail/pattern_core.hpp) turns it into bytes, masks and jumps, and two *)
(* matchers read the result: the flat one, which sweeps for an anchor byte *)
(* and verifies in vector blocks, and the segmented one, which tries the   *)
(* widths of every jump under two work budgets (internal/scan_engine.cpp). *)
(*                                                                         *)
(* A byte is a number with two nibbles of NibbleBase values.  Memory is a  *)
(* function from addresses to bytes.  Byte indices count from 0, as in the *)
(* source, and p.bytes is a sequence, so index i is p.bytes[i + 1].        *)
(***************************************************************************)
EXTENDS Integers, Sequences, SequencesExt, FiniteSetsExt

CONSTANTS
    NibbleBase,          \* values of a nibble (16 in the source)
    FrequencyClass,      \* byte_frequency_class: how common each byte is
    MaxPatternBytes,     \* MAX_PATTERN_BYTES
    MaxPatternJumps,     \* MAX_PATTERN_JUMPS
    MaxJumpSpan,         \* MAX_JUMP_SPAN
    PositionBudget,      \* SEGMENT_MATCH_STEP_BUDGET
    RegionBudget,        \* SEGMENT_MATCH_REGION_STEP_BUDGET
    NarrowBlock,         \* bytes of a narrow vector (16 for SSE2)
    WideBlock            \* bytes of a wide vector (32 for AVX2)

Byte == 0 .. NibbleBase * NibbleBase - 1

None == -1

-----------------------------------------------------------------------------
(* Tokens.  A byte token is its two nibbles, each a digit or a query; a    *)
(* lone query is two.  A token that opens with a bracket is a jump: its    *)
(* bounds, and whether brackets, digits and dash are all in their places.  *)

Digit == 0 .. NibbleBase - 1
Query == NibbleBase
Other == NibbleBase + 1

Marker == [t |-> "mark"]
ByteOf(high, low) == [t |-> "byte", high |-> high, low |-> low]
Jump(lo, hi, whole) == [t |-> "jump", lo |-> lo, hi |-> hi, whole |-> whole]

\* parse_jump_token: no unbounded, oversized or inverted gap.
ParseJumpToken(token) ==
    /\ token.whole
    /\ token.lo <= MaxJumpSpan
    /\ token.hi <= MaxJumpSpan
    /\ token.hi >= token.lo

\* The value and mask of a byte token; a mask of "bad" is no byte token.
ByteToken(token) ==
    LET value(n) == IF n \in Digit THEN n ELSE 0
    IN  [v    |-> value(token.high) * NibbleBase + value(token.low),
         mask |-> CASE token.high \in Digit /\ token.low \in Digit -> "FF"
                    [] token.high \in Digit /\ token.low = Query -> "F0"
                    [] token.high = Query /\ token.low \in Digit -> "0F"
                    [] token.high = Query /\ token.low = Query -> "00"
                    [] OTHER -> "bad"]

-----------------------------------------------------------------------------
(* The parser: one token at a time into a sink with a cap on its bytes.    *)

EmptySink ==
    [status |-> "Ok", bytes |-> <<>>, mask |-> <<>>, jumps |-> <<>>,
     offset |-> 0, marked |-> FALSE, boundary |-> 0]

Fail(sink, status) == [sink EXCEPT !.status = status]

AddJump(sink, jump) ==
    IF Len(sink.jumps) >= MaxPatternJumps
    THEN Fail(sink, "TooManyJumps")
    ELSE [sink EXCEPT
            !.jumps = Append(@, [at |-> Len(sink.bytes), lo |-> jump.lo, hi |-> jump.hi]),
            !.boundary = Len(sink.bytes)]

AddByte(sink, b, cap) ==
    IF Len(sink.bytes) >= cap
    THEN Fail(sink, "TooLong")
    ELSE [sink EXCEPT !.bytes = Append(@, b.v), !.mask = Append(@, b.mask)]

AddMark(sink) ==
    IF sink.marked
    THEN Fail(sink, "DuplicateOffset")
    ELSE [sink EXCEPT !.marked = TRUE, !.offset = Len(sink.bytes)]

ParseToken(sink, token, cap) ==
    CASE sink.status # "Ok" -> sink
      [] sink.status = "Ok" /\ token.t = "mark" -> AddMark(sink)
      [] sink.status = "Ok" /\ token.t = "jump" ->
            IF \/ ~ParseJumpToken(token)
               \/ Len(sink.bytes) = 0
               \/ Len(sink.bytes) = sink.boundary
            THEN Fail(sink, "InvalidJump")
            ELSE AddJump(sink, token)
      [] sink.status = "Ok" /\ token.t = "byte" ->
            LET b == ByteToken(token) IN
            IF b.mask = "bad" THEN Fail(sink, "InvalidToken") ELSE AddByte(sink, b, cap)

\* Mutant: a trailing jump is not looked for.
ParseTrailingJump(tokens, cap) ==
    LET sink == FoldLeft(LAMBDA s, token : ParseToken(s, token, cap), EmptySink, tokens)
    IN  IF sink.status = "Ok" /\ sink.bytes = <<>> THEN Fail(sink, "Empty") ELSE sink

ParsePatternInto(tokens, cap) ==
    LET sink == FoldLeft(LAMBDA s, token : ParseToken(s, token, cap), EmptySink, tokens)
    IN  CASE sink.status # "Ok" -> sink
          [] sink.status = "Ok" /\ sink.bytes = <<>> -> Fail(sink, "Empty")
          [] /\ sink.status = "Ok"
             /\ sink.bytes # <<>>
             /\ sink.jumps # <<>>
             /\ sink.boundary = Len(sink.bytes) -> Fail(sink, "InvalidJump")
          [] OTHER -> sink

Size(p) == Len(p.bytes)

Segment0End(p) == IF p.jumps = <<>> THEN Size(p) ELSE p.jumps[1].at

\* Where a byte of the first segment is fully known.
Anchors(p) == {i \in 0 .. Segment0End(p) - 1 : p.mask[i + 1] = "FF"}

\* The first of the rarest, and Size(p) when the first segment has none.
RarestBy(p, count) ==
    LET best == {i \in Anchors(p) : \A j \in Anchors(p) :
                    count[p.bytes[i + 1]] <= count[p.bytes[j + 1]]}
    IN  IF Anchors(p) = {} THEN Size(p) ELSE Min(best)

SelectAnchor(p) == RarestBy(p, FrequencyClass)

\* parse_pattern: the capped sink, and the anchor chosen at once.
ParsePattern(tokens) ==
    LET sink == ParsePatternInto(tokens, MaxPatternBytes)
    IN  [status |-> sink.status,
         p |-> [bytes |-> sink.bytes, mask |-> sink.mask, jumps |-> sink.jumps,
                offset |-> sink.offset,
                anchor |-> IF sink.status = "Ok" THEN SelectAnchor(sink) ELSE 0]]

\* choose_scan_anchor: the byte rarest in the sampled memory, and the
\* compiled anchor when the sample is too small.
ChooseScanAnchor(p, histogram, sufficient) ==
    IF sufficient THEN RarestBy(p, histogram) ELSE p.anchor

\* engine_pattern_from: the value pattern under another anchor.
EnginePatternFrom(p, anchor) == [p EXCEPT !.anchor = anchor]

MinMatchLength(p) ==
    Size(p) + FoldLeft(LAMBDA n, j : n + j.lo, 0, p.jumps)

MaxMatchLength(p) ==
    Size(p) + FoldLeft(LAMBDA n, j : n + j.hi, 0, p.jumps)

-----------------------------------------------------------------------------
(* Comparing bytes.                                                        *)

High(b) == b \div NibbleBase
Low(b)  == b % NibbleBase

\* (mem ^ pat) & mask = 0
Agrees(b, p, i) ==
    LET v == p.bytes[i + 1]
    IN  CASE p.mask[i + 1] = "FF" -> b = v
          [] p.mask[i + 1] = "F0" -> High(b) = High(v)
          [] p.mask[i + 1] = "0F" -> Low(b) = Low(v)
          [] p.mask[i + 1] = "00" -> TRUE

HasLiteralByte(p) == \E i \in 1 .. Len(p.mask) : p.mask[i] # "00"

\* segment_run_matches and run_matches_at: bytes first .. last - 1 at addr.
RunMatches(m, addr, p, first, last) ==
    \A i \in first .. last - 1 : Agrees(m[addr + i - first], p, i)

SegmentBegin(p, s) == IF s = 0 THEN 0 ELSE p.jumps[s].at
SegmentEnd(p, s)   == IF s < Len(p.jumps) THEN p.jumps[s + 1].at ELSE Size(p)

-----------------------------------------------------------------------------
(* The flat matcher.                                                       *)

\* One vector tier of the verification: whole blocks from index j on; the
\* index it reached, or None at a block that differs.
VerifyBlocks(m, addr, p, width, j) ==
    LET next == j + ((Size(p) - j) \div width) * width
    IN  IF RunMatches(m, addr + j, p, j, next) THEN next ELSE None

\* Mutant: the bytes after the last whole block are not compared.
VerifyTiersApart(m, addr, p, wide) ==
    \A i \in 0 .. (Size(p) \div NarrowBlock) * NarrowBlock - 1 : Agrees(m[addr + i], p, i)

\* The tiers, widest first; the last takes single bytes.
VerifyAt(m, addr, p, wide) ==
    LET tiers == IF wide THEN <<WideBlock, NarrowBlock, 1>> ELSE <<NarrowBlock, 1>>
    IN  FoldLeft(LAMBDA j, width : IF j = None THEN None
                                   ELSE VerifyBlocks(m, addr, p, width, j), 0, tiers) = Size(p)

First(S) == IF S = {} THEN None ELSE Min(S)

\* A vector sweep for one byte over n bytes: whole blocks, then the tail.
BlockSearch(m, from, target, n, width) ==
    LET body    == from .. from + (n \div width) * width - 1
        inBody  == {a \in body : m[a] = target}
        inTail  == {a \in (from .. from + n - 1) \ body : m[a] = target}
    IN  IF inBody # {} THEN Min(inBody) ELSE First(inTail)

MemChr(m, from, target, n, wide) ==
    CASE n = 0 -> None
      [] n > 0 /\ wide /\ n >= WideBlock -> BlockSearch(m, from, target, n, WideBlock)
      [] OTHER -> BlockSearch(m, from, target, n, NarrowBlock)

\* scan_for_byte: both ends are inside.
ScanForByte(m, from, last, target, wide) ==
    MemChr(m, from, target, last - from + 1, wide)

RECURSIVE FlatSweep(_, _, _, _, _)

\* What the sweep makes of an anchor byte found at hit.
FlatHit(m, hit, last, p, wide) ==
    CASE hit = None -> None
      [] hit # None /\ VerifyAt(m, hit - p.anchor, p, wide) -> hit - p.anchor
      [] OTHER -> FlatSweep(m, hit + 1, last, p, wide)

FlatSweep(m, from, last, p, wide) ==
    IF from > last THEN None
    ELSE FlatHit(m, ScanForByte(m, from, last, p.bytes[p.anchor + 1], wide), last, p, wide)

\* find_pattern_flat_start over the bytes lo .. hi - 1.
FindFlatStart(m, lo, hi, p, wide) ==
    CASE hi - lo < Size(p) -> None
      [] hi - lo >= Size(p) /\ p.anchor = Size(p) /\ ~HasLiteralByte(p) -> lo
      [] hi - lo >= Size(p) /\ p.anchor = Size(p) /\ HasLiteralByte(p) ->
            First({a \in lo .. hi - Size(p) : RunMatches(m, a, p, 0, Size(p))})
      [] OTHER -> FlatSweep(m, lo + p.anchor, hi - Size(p) + p.anchor, p, wide)

-----------------------------------------------------------------------------
(* The segmented matcher.                                                  *)

\* SegmentedScanBudget, with the state of one placement tree beside it.
FreshBudget ==
    [visits |-> 0, exhausted |-> FALSE, region |-> FALSE,
     steps |-> 0, position |-> FALSE, ok |-> FALSE, starts |-> <<>>]

RECURSIVE ExtendSegments(_, _, _, _, _, _)
RECURSIVE TrySkips(_, _, _, _, _, _, _)
RECURSIVE SkipTried(_, _, _, _, _, _, _)

\* Place segment s, and every later one, from addr on; starts collects the
\* addresses of the segments placed.
ExtendSegments(m, end, p, s, addr, b) ==
    LET v     == [b EXCEPT !.steps = @ + 1, !.visits = @ + 1, !.ok = FALSE]
        first == SegmentBegin(p, s)
        last  == SegmentEnd(p, s)
        after == addr + last - first
        w     == [v EXCEPT !.starts = Append(SubSeq(@, 1, s), addr)]
    IN  CASE b.steps >= PositionBudget ->
                [b EXCEPT !.ok = FALSE, !.exhausted = TRUE, !.position = TRUE]
          [] b.steps < PositionBudget /\ b.visits >= RegionBudget ->
                [b EXCEPT !.ok = FALSE, !.exhausted = TRUE, !.region = TRUE]
          [] OTHER ->
                IF after > end \/ ~RunMatches(m, addr, p, first, last) THEN v
                ELSE IF s = Len(p.jumps) THEN [w EXCEPT !.ok = TRUE]
                ELSE TrySkips(m, end, p, s, after, p.jumps[s + 1].lo, w)

\* The widths of the jump after segment s, in ascending order.
TrySkips(m, end, p, s, after, skip, b) ==
    IF skip > p.jumps[s + 1].hi \/ skip > end - after
    THEN [b EXCEPT !.ok = FALSE]
    ELSE SkipTried(m, end, p, s, after, skip,
                   ExtendSegments(m, end, p, s + 1, after + skip, b))

\* A placement, or an actual refused visit, ends the search of this tree.
SkipTried(m, end, p, s, after, skip, r) ==
    IF r.ok \/ r.position \/ r.region THEN r
    ELSE TrySkips(m, end, p, s, after, skip + 1, r)

NoMatch(b) == [start |-> None, end |-> None, point |-> None, b |-> b]

\* segmented_result: the true end and the marked byte of a placement.
SegmentedResult(p, b) ==
    LET k     == Len(p.jumps)
        end   == b.starts[k + 1] + Size(p) - SegmentBegin(p, k)
        holds == {s \in 0 .. k : p.offset \in SegmentBegin(p, s) .. SegmentEnd(p, s) - 1}
    IN  [start |-> b.starts[1],
         end   |-> end,
         point |-> IF holds = {} THEN end
                   ELSE LET s == Min(holds) IN b.starts[s + 1] + p.offset - SegmentBegin(p, s),
         b     |-> b]

RECURSIVE SegmentedSweep(_, _, _, _, _, _, _)

\* What the sweep makes of the tree r tried at candidate.
SegmentedTried(m, candidate, last, end, p, r, wide) ==
    CASE r.ok -> SegmentedResult(p, r)
      [] ~r.ok /\ r.region -> NoMatch(r)
      [] OTHER -> SegmentedSweep(m, candidate + 1, last, end, p, r, wide)

\* The next start to try: where the anchor byte lies, or the next byte when
\* the first segment has no anchor.
Candidate(m, from, last, p, wide) ==
    LET hit == ScanForByte(m, from + p.anchor, last + p.anchor, p.bytes[p.anchor + 1], wide)
    IN  IF p.anchor >= Segment0End(p) THEN from
        ELSE IF hit = None THEN None
        ELSE hit - p.anchor

SegmentedAt(m, candidate, last, end, p, b, wide) ==
    IF candidate = None THEN NoMatch(b)
    ELSE SegmentedTried(m, candidate, last, end, p,
            ExtendSegments(m, end, p, 0, candidate,
                           [b EXCEPT !.steps = 0, !.position = FALSE, !.starts = <<>>]),
            wide)

SegmentedSweep(m, from, last, end, p, b, wide) ==
    IF from > last THEN NoMatch(b)
    ELSE SegmentedAt(m, Candidate(m, from, last, p, wide), last, end, p, b, wide)

FindSegmented(m, lo, hi, p, b, wide) ==
    IF b.region \/ hi - lo < MinMatchLength(p)
    THEN NoMatch(b)
    ELSE SegmentedSweep(m, lo, hi - MinMatchLength(p), hi, p, b, wide)

Raw(r, exhausted) ==
    [start |-> r.start, end |-> r.end, point |-> r.point, b |-> r.b, exhausted |-> exhausted]

FlatRaw(start, p, b) ==
    IF start = None THEN Raw(NoMatch(b), FALSE)
    ELSE [start |-> start, end |-> start + Size(p), point |-> start + p.offset,
          b |-> b, exhausted |-> FALSE]

\* find_pattern_raw: a segmented result carries the exhaustion of its budget,
\* except from a region too short to search.
FindRaw(m, lo, hi, p, b, wide) ==
    CASE Size(p) = 0 \/ hi - lo < Size(p) -> Raw(NoMatch(b), FALSE)
      [] Size(p) # 0 /\ hi - lo >= Size(p) /\ p.jumps = <<>> ->
            FlatRaw(FindFlatStart(m, lo, hi, p, wide), p, b)
      [] OTHER ->
            IF ~b.region /\ hi - lo < MinMatchLength(p) THEN Raw(NoMatch(b), FALSE)
            ELSE LET r == FindSegmented(m, lo, hi, p, b, wide) IN Raw(r, r.b.exhausted)

-----------------------------------------------------------------------------
(* The value pattern's own matcher, for one window.                        *)

RECURSIVE TrySegmentsAt(_, _, _, _, _, _)
RECURSIVE TryGap(_, _, _, _, _, _, _)
RECURSIVE GapTried(_, _, _, _, _, _, _)

\* The node visits made, and whether the placement succeeded.
TrySegmentsAt(m, end, p, s, addr, steps) ==
    LET first == SegmentBegin(p, s)
        last  == SegmentEnd(p, s)
        after == addr + last - first
        visit == [steps |-> steps + 1, ok |-> FALSE]
    IN  IF \/ steps + 1 > PositionBudget
           \/ after > end
           \/ ~RunMatches(m, addr, p, first, last)
        THEN visit
        ELSE IF s = Len(p.jumps) THEN [visit EXCEPT !.ok = TRUE]
        ELSE TryGap(m, end, p, s, after, p.jumps[s + 1].lo, visit.steps)

TryGap(m, end, p, s, after, skip, steps) ==
    IF skip > p.jumps[s + 1].hi \/ skip > end - after
    THEN [steps |-> steps, ok |-> FALSE]
    ELSE GapTried(m, end, p, s, after, skip,
                  TrySegmentsAt(m, end, p, s + 1, after + skip, steps))

GapTried(m, end, p, s, after, skip, r) ==
    IF r.ok \/ r.steps > PositionBudget THEN r
    ELSE TryGap(m, end, p, s, after, skip + 1, r.steps)

MatchesBufferAt(m, lo, hi, p) ==
    /\ Size(p) > 0
    /\ hi - lo >= MinMatchLength(p)
    /\ TrySegmentsAt(m, hi, p, 0, lo, 0).ok

-----------------------------------------------------------------------------
(* What the language means.                                                *)

\* Where segment s starts when the pattern lies at addr with widths w.
SegmentStart(p, addr, w, s) ==
    addr + SegmentBegin(p, s) + FoldLeft(LAMBDA x, y : x + y, 0, SubSeq(w, 1, s))

MatchEnd(p, addr, w) ==
    LET k == Len(p.jumps)
    IN  SegmentStart(p, addr, w, k) + Size(p) - SegmentBegin(p, k)

\* The widths of the jumps under which p lies at addr and ends by hi.
Placements(m, addr, hi, p) ==
    LET k == Len(p.jumps)
        widths == {v \in [1 .. k -> 0 .. MaxJumpSpan] :
                      \A s \in 1 .. k : v[s] \in p.jumps[s].lo .. p.jumps[s].hi}
    IN  {w \in widths :
            /\ MatchEnd(p, addr, w) <= hi
            /\ \A s \in 0 .. k : RunMatches(m, SegmentStart(p, addr, w, s), p,
                                            SegmentBegin(p, s), SegmentEnd(p, s))}

\* The placement in which every segment is leftmost at once.
LeastPlacement(m, addr, hi, p) ==
    CHOOSE w \in Placements(m, addr, hi, p) :
        \A v \in Placements(m, addr, hi, p), s \in 1 .. Len(p.jumps) :
            SegmentStart(p, addr, w, s) <= SegmentStart(p, addr, v, s)

\* The marked byte of a placement: the segment that holds the marked index,
\* or the end of the match.
PointOf(p, addr, w) ==
    IF p.offset = Size(p) THEN MatchEnd(p, addr, w)
    ELSE LET s == Max({x \in 0 .. Len(p.jumps) : SegmentBegin(p, x) <= p.offset})
         IN  SegmentStart(p, addr, w, s) + p.offset - SegmentBegin(p, s)

\* The starts of the matches of p inside lo .. hi - 1.
Starts(m, lo, hi, p) == {a \in lo .. hi - 1 : Placements(m, a, hi, p) # {}}

=============================================================================
