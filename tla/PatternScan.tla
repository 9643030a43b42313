---------------------------- MODULE PatternScan ----------------------------
(***************************************************************************)
(* A signature scan over the pages of an address range                     *)
(* (scan_matching.cpp and internal/scan_pages.cpp).                        *)
(*                                                                         *)
(* scan() parses nothing itself: the signature was compiled before.  It    *)
(* samples the range, picks the anchor, and walks the regions the system   *)
(* reports.  A region whose protection is accepted is read under a fault   *)
(* guard, together with the tail of the accepted run before it, so that a  *)
(* match across the seam is found.  A count floor keeps a match that ended *)
(* before the seam from being counted again.  A region that faults while   *)
(* it is read, because the host decommitted it after the gate, is skipped  *)
(* and makes the walk incomplete.                                          *)
(***************************************************************************)
EXTENDS AobPattern

CONSTANT Scenarios
    \* records [tokens, memory, regions, pages, occurrence, lo, hi, needle]:
    \* pages is the page class asked for, known or not, regions is the sequence of [end, prot] the range is made of, needle
    \* the address of the compiled pattern's own bytes, or None

VARIABLES
    job,        \* the scenario
    pc,         \* the step of the scan
    pattern,    \* the compiled pattern
    wide,       \* whether the processor has the wide vectors
    region,     \* the region the walk is at
    run,        \* [lo, hi] of the accepted run the walk is in; hi = None outside one
    remaining,  \* matches_remaining
    incomplete, \* a region was skipped, or a budget was spent
    result      \* the match, or None; "" until the scan returns

vars == <<job, pc, pattern, wide, region, run, remaining, incomplete, result>>

NoPattern == [bytes |-> <<>>, mask |-> <<>>, jumps |-> <<>>, offset |-> 0, anchor |-> 0]

Init ==
    /\ job \in Scenarios
    /\ pc = "parse"
    /\ pattern = NoPattern
    /\ wide \in BOOLEAN
    /\ region = 1
    /\ run = [lo |-> None, hi |-> None]
    /\ remaining = job.occurrence
    /\ incomplete = FALSE
    /\ result = [error |-> "", at |-> None]

Return(error, at) ==
    /\ pc' = "done"
    /\ result' = [error |-> error, at |-> at]

-----------------------------------------------------------------------------
(* The signature is compiled, and scan() is called with it.                *)

Compile ==
    /\ pc = "parse"
    /\ \E parse \in {ParsePattern(job.tokens)} :
         /\ pattern' = parse.p
         /\ \/ parse.status # "Ok" /\ Return(parse.status, None)
            \/ parse.status = "Ok" /\ pc' = "enter" /\ UNCHANGED result
    /\ UNCHANGED <<job, wide, region, run, remaining, incomplete>>

\* The page classes scan() accepts: code, or everything readable.
Accepted(prot) ==
    \/ prot = "rx"
    \/ prot = "r" /\ job.pages = "readable"

\* The bytes of a readable region, before the walk reaches it.
RegionLo(r) == IF r = 1 THEN 0 ELSE job.regions[r - 1].end

\* The host reads what it can of the range and counts its bytes; a page that
\* faults is not counted.
SampleHaystack(read) ==
    [b \in Byte |-> Cardinality({a \in DOMAIN job.memory :
        /\ job.memory[a] = b
        /\ a \in job.lo .. job.hi - 1
        /\ \E r \in read : a \in RegionLo(r) .. job.regions[r].end - 1})]

\* scan(): its checks, then the sample and the anchor; the engine's copy of
\* the pattern may not get its memory.
Scan ==
    /\ pc = "enter"
    /\ \/ job.occurrence = 0 /\ Return("NoMatch", None) /\ UNCHANGED pattern
       \/ /\ job.occurrence # 0
          /\ job.pages \notin {"readable", "executable"}
          /\ Return("InvalidArg", None)
          /\ UNCHANGED pattern
       \/ /\ job.occurrence # 0
          /\ job.pages \in {"readable", "executable"}
          /\ \/ job.hi <= job.lo /\ Return("InvalidRange", None)
             \/ job.hi > job.lo /\ Return("OutOfMemory", None)
          /\ UNCHANGED pattern
       \/ /\ job.occurrence # 0
          /\ job.pages \in {"readable", "executable"}
          /\ job.hi > job.lo
          /\ \E read \in SUBSET {r \in DOMAIN job.regions : job.regions[r].prot # "none"} :
                pattern' = EnginePatternFrom(pattern,
                              ChooseScanAnchor(pattern, SampleHaystack(read), read # {}))
          /\ pc' = "walk"
          /\ UNCHANGED result
    /\ UNCHANGED <<job, wide, region, run, remaining, incomplete>>

-----------------------------------------------------------------------------
(* The walk.                                                               *)

\* The clamped bytes of the region the walk is at.
ScanLo == IF RegionLo(region) < job.lo THEN job.lo ELSE RegionLo(region)
ScanHi == IF job.regions[region].end > job.hi THEN job.hi ELSE job.regions[region].end

Walking ==
    /\ pc = "walk"
    /\ region <= Len(job.regions)
    /\ RegionLo(region) < job.hi

Gated == Accepted(job.regions[region].prot) /\ ScanHi > ScanLo

\* The run this region belongs to starts where the last accepted region left
\* off, or here.
RunLo == IF run.hi = ScanLo THEN run.lo ELSE ScanLo

\* Mutant: the overlap is the length of the bytes, whatever the jumps.
FixedOverlapLo ==
    LET overlap == Size(pattern) - 1
        available == ScanLo - RunLo
    IN  ScanLo - IF overlap < available THEN overlap ELSE available

\* How far back the scan reaches into the run: the longest match but one byte.
EffectiveLo ==
    LET overlap == MaxMatchLength(pattern) - 1
        available == ScanLo - RunLo
    IN  ScanLo - IF overlap < available THEN overlap ELSE available

SelfMatch(r) ==
    /\ job.needle # None
    /\ r.start < job.needle + Size(pattern)
    /\ r.end > job.needle

\* scan_region_for_match over lo .. hi - 1: the matches by start, counting
\* those that reach past the floor, until the count runs out.
RECURSIVE ScanRegionForMatch(_, _, _, _, _)

\* What the loop makes of the match r, with left still to count.  The budget
\* holds the exhaustion of every call so far.
RegionMatch(r, hi, floor, left) ==
    LET rest == IF SelfMatch(r) \/ r.end <= floor THEN left ELSE left - 1
    IN  CASE r.start = None -> [at |-> None, left |-> left, exhausted |-> r.b.exhausted]
          [] r.start # None /\ rest = 0 ->
                [at |-> r.point, left |-> 0, exhausted |-> r.b.exhausted]
          [] r.start # None /\ rest # 0 /\ r.start + 1 >= hi ->
                [at |-> None, left |-> rest, exhausted |-> r.b.exhausted]
          [] OTHER -> ScanRegionForMatch(r.start + 1, hi, floor, rest, r.b)

ScanRegionForMatch(lo, hi, floor, left, b) ==
    RegionMatch(FindRaw(job.memory, lo, hi, pattern, b, wide), hi, floor, left)

Advance ==
    /\ region' = region + 1
    /\ run' = [lo |-> RunLo, hi |-> ScanHi]

\* A region the scan reads to its end.
ReadRegion ==
    /\ Walking
    /\ Gated
    /\ ScanHi - EffectiveLo >= Size(pattern)
    /\ \E r \in {ScanRegionForMatch(EffectiveLo, ScanHi, ScanLo, remaining, FreshBudget)} :
         /\ remaining' = r.left
         /\ incomplete' = (incomplete \/ r.exhausted)
         /\ \/ r.at = None /\ Advance /\ UNCHANGED <<pc, result>>
            \/ /\ r.at # None
               /\ UNCHANGED <<region, run>>
               /\ IF incomplete' THEN Return("NoMatch", None) ELSE Return("", r.at)
    /\ UNCHANGED <<job, pattern, wide>>

\* scan_region_guarded: the region is decommitted under the read.  What was
\* counted in it is given back.
RegionFaults ==
    /\ Walking
    /\ Gated
    /\ ScanHi - EffectiveLo >= Size(pattern)
    /\ incomplete' = TRUE
    /\ Advance
    /\ UNCHANGED <<job, pc, pattern, wide, remaining, result>>

\* Too short for the pattern even with the run before it.
ShortRegion ==
    /\ Walking
    /\ Gated
    /\ ScanHi - EffectiveLo < Size(pattern)
    /\ Advance
    /\ UNCHANGED <<job, pc, pattern, wide, remaining, incomplete, result>>

\* Not accepted, or guarded, or not committed: the run ends here.
SkipRegion ==
    /\ Walking
    /\ ~Gated
    /\ region' = region + 1
    /\ run' = [lo |-> None, hi |-> None]
    /\ UNCHANGED <<job, pc, pattern, wide, remaining, incomplete, result>>

WalkEnds ==
    /\ pc = "walk"
    /\ ~(region <= Len(job.regions) /\ RegionLo(region) < job.hi)
    /\ Return("NoMatch", None)
    /\ UNCHANGED <<job, pattern, wide, region, run, remaining, incomplete>>

Next == \/ Compile
        \/ Scan
        \/ ReadRegion
        \/ RegionFaults
        \/ ShortRegion
        \/ SkipRegion
        \/ WalkEnds

Spec == Init /\ [][Next]_vars

-----------------------------------------------------------------------------
(* Properties.                                                             *)

\* Indices of the byte tokens, of the jumps and of the markers.
TokensOf(kind) == {i \in DOMAIN job.tokens : job.tokens[i].t = kind}

\* The signature is one of the language: known tokens, at least one byte and
\* at most one marker, every jump between two bytes with no other jump
\* between, and no more of each than the caps.
WellFormed ==
    LET bytes == TokensOf("byte")
        jumps == TokensOf("jump")
    IN  /\ \A i \in bytes : Other \notin {job.tokens[i].high, job.tokens[i].low}
        /\ \A i \in jumps :
             LET j == job.tokens[i] IN j.whole /\ 0 <= j.lo /\ j.lo <= j.hi /\ j.hi <= MaxJumpSpan
        /\ Cardinality(TokensOf("mark")) <= 1
        /\ Cardinality(bytes) \in 1 .. MaxPatternBytes
        /\ Cardinality(jumps) <= MaxPatternJumps
        /\ \A i \in jumps :
             /\ \E b \in bytes : b < i /\ \A j \in jumps : j < i => j < b
             /\ \E b \in bytes : b > i

BytesBefore(i) == Cardinality({b \in TokensOf("byte") : b < i})

\* The compiled pattern means what the tokens say: its bytes accept what the
\* nibbles of their tokens accept, its jumps and its marked byte lie where
\* the tokens stand among the bytes.
MeansItsTokens ==
    /\ Size(pattern) = Cardinality(TokensOf("byte"))
    /\ \A i \in TokensOf("byte"), b \in Byte :
         Agrees(b, pattern, BytesBefore(i)) <=> /\ job.tokens[i].high \in {Query, High(b)}
                                               /\ job.tokens[i].low \in {Query, Low(b)}
    /\ Range(pattern.jumps) =
         {[at |-> BytesBefore(i), lo |-> job.tokens[i].lo, hi |-> job.tokens[i].hi] :
             i \in TokensOf("jump")}
    /\ {pattern.offset} = IF TokensOf("mark") = {} THEN {0}
                          ELSE {BytesBefore(i) : i \in TokensOf("mark")}

\* The parser accepts exactly the signatures of the language, and what it
\* compiles means what the tokens say, with a jump only between two non-empty
\* runs (parse_pattern_into with the end-of-parse check on the last boundary).
ParsesTheLanguage ==
    pc \in {"enter", "done"} =>
        /\ WellFormed <=> result.error \in {"", "NoMatch", "InvalidArg", "InvalidRange", "OutOfMemory"}
        /\ WellFormed =>
             /\ MeansItsTokens
             /\ \A s \in 0 .. Len(pattern.jumps) : SegmentBegin(pattern, s) < SegmentEnd(pattern, s)

\* The first match either matcher finds in a gated region is the leftmost
\* one, and no match means there is none, whatever anchor the sample chose
\* and whichever vectors the processor has, unless a budget was spent.  The
\* value pattern's own matcher (matches_buffer_at) agrees at every byte: it
\* accepts nothing else, and misses a match only when its budget ran out.
FindsTheLeftmost ==
    (Walking /\ Gated) =>
        LET r == FindRaw(job.memory, EffectiveLo, ScanHi, pattern, FreshBudget, wide)
            starts == Starts(job.memory, EffectiveLo, ScanHi, pattern)
        IN  /\ ~r.exhausted => r.start = First(starts)
            /\ r.start # None => r.start \in starts
            /\ \A a \in EffectiveLo .. ScanHi - 1 :
                 IF MatchesBufferAt(job.memory, a, ScanHi, pattern) THEN a \in starts
                 ELSE \/ a \notin starts
                      \/ TrySegmentsAt(job.memory, ScanHi, pattern, 0, a, 0).steps > PositionBudget

\* The accepted bytes around an address, as the walk sees them: the longest
\* stretch of accepted regions inside the range.
AcceptedByte(a) ==
    /\ a \in job.lo .. job.hi - 1
    /\ \E r \in DOMAIN job.regions :
         /\ a \in RegionLo(r) .. job.regions[r].end - 1
         /\ Accepted(job.regions[r].prot)

StretchEnd(a) ==
    Max({e \in a .. job.hi : \A x \in a .. e - 1 : AcceptedByte(x)})

\* The placement of the signature at a in accepted memory.
PlacedAt(a) == LeastPlacement(job.memory, a, StretchEnd(a), pattern)

\* Where the signature lies in accepted memory, away from its own bytes.
Occurrences ==
    {a \in job.lo .. job.hi - 1 :
        /\ AcceptedByte(a)
        /\ Placements(job.memory, a, StretchEnd(a), pattern) # {}
        /\ job.needle # None =>
             \/ MatchEnd(pattern, a, PlacedAt(a)) <= job.needle
             \/ a >= job.needle + Size(pattern)}

\* The nth occurrence in address order.
Nth(n) == CHOOSE a \in Occurrences : Cardinality({x \in Occurrences : x <= a}) = n

\* A scan that read everything answers for the range as if no seam divided
\* it: the nth occurrence in address order, at the marked byte of the
\* placement in which every segment is leftmost, and a miss only when there
\* are fewer.  After a skipped region or a spent budget it answers nothing
\* (scan_regions_filtered with its overlap and its count floor).
SeamsAreInvisible ==
    /\ pc = "done" /\ result.error = "" =>
         /\ Cardinality(Occurrences) >= job.occurrence
         /\ result.at = PointOf(pattern, Nth(job.occurrence), PlacedAt(Nth(job.occurrence)))
    /\ pc = "done" /\ result.error = "NoMatch" /\ job.occurrence > 0 /\ ~incomplete =>
         Cardinality(Occurrences) < job.occurrence
    /\ incomplete => result.at = None

=============================================================================
