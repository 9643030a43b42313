--------------------------- MODULE AnchorRegistry ---------------------------
(***************************************************************************)
(* The anchor registry (anchor.cpp, anchor.hpp): a table of declared        *)
(* targets is resolved, serially or on several threads, each anchor by the  *)
(* backend of its kind or by a vote of other anchors, and a gate decides    *)
(* from the report whether the feature may run.                             *)
(*                                                                         *)
(* What the game's image holds is data: where the evidence of a rung is     *)
(* found, in code or data, or only by the broad sweep.  Hashes are taken to *)
(* be free of collisions.                                                   *)
(***************************************************************************)
EXTENDS Integers, Sequences, SequencesExt, FiniteSets, FiniteSetsExt

CONSTANTS
    Pool,        \* the anchors a program declares, by index; index 0 is nullptr
    Miss,        \* what a backend that finds nothing returns
    Scope,       \* the module of the caller's scope
    Folded,      \* module names, as Windows compares them
    Half,        \* int64 values are -Half .. Half - 1
    Calls,       \* records [op, table, size, profile, policy, quality]
    Images,      \* records [at, data, hidden]
    Unread       \* the image of a call that does not look at it

VARIABLES
    call,        \* how the registry is called
    image,       \* what can be found in the game
    pc,          \* "resolving", then "back" with the caller, then "gated"; or "printed"
    results,     \* what the calls to resolve returned so far
    out,         \* the caller's buffer
    verdict      \* of the gate

vars == <<call, image, pc, results, out, verdict>>

Values == -Half .. Half - 1
Width  == 2 * Half
Wrap(n) == ((n + Half) % Width) - Half

-----------------------------------------------------------------------------
(* Agreement of two values.                                                *)

\* quorum_values_agree
QuorumValuesAgree(first, second, match, tolerance) ==
    \/ match = "ExactValue" /\ first = second
    \/ /\ match = "WithinTolerance"
       /\ tolerance >= 0
       /\ ((Max({first, second}) % Width) - (Min({first, second}) % Width)) % Width <= tolerance

\* votes_agreeing_with
VotesAgreeingWith(center, votes, a) ==
    Cardinality({i \in DOMAIN votes :
                   QuorumValuesAgree(center, votes[i], a.match, a.tolerance)})

-----------------------------------------------------------------------------
(* Evidence.                                                               *)

\* What a rung looks for, whatever wraps it and however it sweeps.
CandidateEvidenceAtom(rung) == <<rung.mode, rung.text, 0>>

\* collect_independence_atoms
IndependenceAtoms(a) ==
    LET rungs == Range(a.site)
        atoms ==
          CASE a.kind \in {"VtableIdentity", "StringXref", "RipGlobal"} ->
                 {CandidateEvidenceAtom(r) : r \in rungs}
            [] a.kind = "CodeOperand" ->
                 {[CandidateEvidenceAtom(r) EXCEPT ![3] = a.operand] : r \in rungs}
            [] a.kind = "ExportName" -> {<<"export", Folded[a.module], a.name>>}
            [] a.kind = "Manual" -> {<<"manual", a.value, 0>>}
            [] OTHER -> {}
    IN  IF atoms = {} THEN {<<"empty", a.kind, 0>>} ELSE atoms

\* Mutant: only the first rungs are compared.
SameFirstRung(a, b) ==
    IF a.site # <<>> /\ b.site # <<>>
    THEN CandidateEvidenceAtom(a.site[1]) = CandidateEvidenceAtom(b.site[1])
    ELSE IndependenceAtoms(a) \cap IndependenceAtoms(b) # {}

\* same_backend_config
SameBackendConfig(a, b) == IndependenceAtoms(a) \cap IndependenceAtoms(b) # {}

\* quorum_sub_anchors_independent
SubAnchorsIndependent(i, j) ==
    /\ i # j
    /\ ~(Pool[i].kind = "Manual" /\ Pool[j].kind = "Manual")
    /\ ~SameBackendConfig(Pool[i], Pool[j])

\* quorum_members_pairwise_independent
PairwiseIndependent(members) ==
    \A i, j \in DOMAIN members : i < j => SubAnchorsIndependent(members[i], members[j])

-----------------------------------------------------------------------------
(* The backends.                                                           *)

IsText(rung) == rung.mode \in {"rtti", "string"}

\* profiled_candidates, and ScanRequest::order in resolve: text, anchored
\* bytes, the other bytes.
ProfiledCandidates(profile, site) ==
    LET Tier(n) == SelectSeq(site, LAMBDA r : r.tier = n)
    IN  IF profile.order = "AsDeclared" THEN site ELSE Tier(1) \o Tier(2) \o Tier(3)

\* The function around a reference starts before it.
Entry(v) == IF v > -Half THEN v - 1 ELSE v

\* What of the image a rung looks up.
Place(rung) == <<rung.mode, rung.text, 0>>

\* What a rung finds; broad is what the profile adds.
RungValue(rung, pages, broad) ==
    LET v == image.at[Place(rung)]
    IN  IF \/ v = Miss
           \/ Place(rung) \in image.hidden /\ ~(rung.broad \/ broad)
           \/ ~IsText(rung) /\ pages = "Executable" /\ Place(rung) \in image.data
        THEN Miss
        ELSE IF rung.mode = "string" /\ rung.ret = "function" THEN Entry(v) ELSE v

\* The first rung of a ladder that finds something.
Winner(site, pages, broad) ==
    LET hits == {n \in DOMAIN site : RungValue(site[n], pages, broad) # Miss}
    IN  IF hits = {} THEN Miss ELSE site[Min(hits)]

\* The rung an anchor's backend resolves through: scan::resolve for RipGlobal,
\* read_code_constant, whose site is code, and the flat kinds.
WinningRung(a, profile) ==
    CASE a.kind = "RipGlobal" -> Winner(ProfiledCandidates(profile, a.site), a.pages, FALSE)
      [] a.kind = "CodeOperand" ->
           Winner(ProfiledCandidates(profile, a.site), "Executable", FALSE)
      [] a.kind = "StringXref" -> Winner(a.site, "Readable", profile.broad)
      [] a.kind = "VtableIdentity" -> Winner(a.site, "Readable", FALSE)

\* The module of an export: the one named, or the scope's.
ExportModule(a) == IF a.module = "" THEN Scope ELSE Folded[a.module]

BackendValue(a, profile) ==
    LET r == WinningRung(a, profile)
        broad == a.kind = "StringXref" /\ profile.broad
        pages == IF a.kind = "CodeOperand" THEN "Executable" ELSE a.pages
    IN  CASE a.kind = "ExportName" -> image.at[<<"export", ExportModule(a), a.name>>]
          [] a.kind # "ExportName" /\ r = Miss -> Miss
          [] a.kind = "CodeOperand" /\ r # Miss ->
               IF Place(r) \in image.data THEN Miss
               ELSE Wrap(RungValue(r, pages, broad) + a.operand)
          [] OTHER -> RungValue(r, pages, broad)

-----------------------------------------------------------------------------
(* One anchor.                                                             *)

Answer(a, status, value) == [kind |-> a.kind, status |-> status, value |-> value]
Failed(a) == Answer(a, "Failed", 0)

\* commit_resolved; a validator is the set of values it accepts, or none.
CommitResolved(a, value) ==
    IF \/ a.require_validator /\ a.kind \notin {"Quorum", "Manual"} /\ a.validator = Miss
       \/ a.validator # Miss /\ value \notin a.validator
    THEN Failed(a)
    ELSE Answer(a, "Resolved", value)

\* resolve_with_profile, for the kinds that are not a vote.
ResolveSingle(a, profile) ==
    CASE a.kind \in profile.denied -> Failed(a)
      [] a.kind \notin profile.denied /\ a.kind = "Manual" ->
           IF a.validate_manual THEN CommitResolved(a, a.value)
           ELSE Answer(a, "Resolved", a.value)
      [] a.kind \notin profile.denied /\ a.kind = "CallArgHome" -> Answer(a, "Unsupported", 0)
      [] a.kind \notin profile.denied /\ a.kind = "Unset" -> Failed(a)
      [] OTHER ->
           IF \/ a.kind = "RipGlobal" /\ a.pages \notin {"Readable", "Executable"}
              \/ BackendValue(a, profile) = Miss
           THEN Failed(a)
           ELSE CommitResolved(a, BackendValue(a, profile))

\* 0 means all members.
Threshold(a) == IF a.threshold = 0 THEN Len(a.members) ELSE a.threshold

\* The quorum case: malformed votes, dependent members, then the vote.
ResolveQuorum(a, profile) ==
    LET m == a.members
        answers == [k \in DOMAIN m |-> ResolveSingle(Pool[m[k]], profile)]
        cast == SelectSeq(answers, LAMBDA r : r.status = "Resolved")
        votes == [k \in DOMAIN cast |-> cast[k].value]
        centers == {k \in DOMAIN votes : VotesAgreeingWith(votes[k], votes, a) >= Threshold(a)}
    IN  CASE \/ Len(m) < 2
             \/ \E k \in DOMAIN m : m[k] = 0
             \/ \E k \in DOMAIN m : m[k] # 0 /\ Pool[m[k]].kind = "Quorum"
             \/ Threshold(a) \notin 2 .. Len(m) -> Failed(a)
          [] OTHER ->
               IF ~PairwiseIndependent(m) THEN Answer(a, "QuorumNotIndependent", 0)
               ELSE IF centers = {} THEN Failed(a)
               ELSE CommitResolved(a, votes[Min(centers)])

\* resolve_with_profile; resolve() is the empty profile.
ResolveWithProfile(a, profile) ==
    IF a.kind = "Quorum" /\ a.kind \notin profile.denied
    THEN ResolveQuorum(a, profile)
    ELSE ResolveSingle(a, profile)

-----------------------------------------------------------------------------
(* The gate.                                                               *)

WithStatus(report, status) == Cardinality({i \in DOMAIN report : report[i].status = status})

\* assess_quality; corroborated is reported, and decides nothing.
AssessQuality(report) ==
    [total           |-> Len(report),
     resolved        |-> WithStatus(report, "Resolved"),
     failed          |-> WithStatus(report, "Failed"),
     unsupported     |-> WithStatus(report, "Unsupported"),
     not_independent |-> WithStatus(report, "QuorumNotIndependent"),
     manual_at_risk  |-> Cardinality({i \in DOMAIN report : report[i].kind = "Manual"})]

\* clamped_gate_ratio: a ratio is a fraction <<p, q>>; NaN is <<0, 0>>.
ClampedGateRatio(ratio) ==
    IF ratio[2] = 0 \/ ratio[1] > ratio[2] THEN <<1, 1>>
    ELSE IF ratio[1] < 0 THEN <<0, 1>> ELSE ratio

\* count_fits, for one count after the other: what the total has left for
\* each.  No sum of the caller's counts is formed, so none wraps.
CountsFit(q) ==
    FoldLeft(LAMBDA left, n : IF n > left THEN -1 ELSE left - n,
             q.total, <<q.resolved, q.failed, q.unsupported, q.not_independent>>) >= 0

\* evaluate_gate
EvaluateGate(q, policy) ==
    LET resolvable == q.total - q.unsupported
        ratio == ClampedGateRatio(policy.ratio)
    IN  IF \/ ~CountsFit(q)
           \/ q.failed + q.not_independent > policy.max_failed
        THEN "Fail"
        ELSE IF resolvable = 0 THEN "Degraded"
        ELSE IF q.resolved * ratio[2] < ratio[1] * resolvable THEN "Fail"
        ELSE IF policy.manual_at_risk_degrades /\ q.manual_at_risk > 0 THEN "Degraded"
        ELSE "Pass"

-----------------------------------------------------------------------------
(* Fingerprints: what a hash folds, in order.                              *)

\* fingerprint_evidence; the default pages leave no trace.
FingerprintEvidence(a) ==
    [kind |-> a.kind, site |-> a.site, operand |-> a.operand, value |-> a.value,
     module |-> a.module, name |-> a.name,
     pages |-> IF a.kind = "RipGlobal" THEN a.pages ELSE "Readable"]

\* quorum_member_evidence: one number for each evidence, 0 for nullptr.
MemberEvidence(i) ==
    IF i = 0 THEN 0
    ELSE Min({j \in DOMAIN Pool : FingerprintEvidence(Pool[j]) = FingerprintEvidence(Pool[i])})

RECURSIVE Emit(_, _)
\* The loop of anchor_fingerprint: each pass folds the next larger value, as
\* often as members have it.
Emit(members, previous) ==
    LET larger == {MemberEvidence(members[k]) : k \in DOMAIN members} \ 0 .. previous
        next == Min(larger)
        times == Cardinality({k \in DOMAIN members : MemberEvidence(members[k]) = next})
    IN  IF larger = {} THEN <<>> ELSE [n \in 1 .. times |-> next] \o Emit(members, next)

\* anchor_fingerprint of a quorum with these members.
QuorumFingerprint(a, members) ==
    <<Len(members), Emit(members, -1), Threshold(a), a.match, a.tolerance>>

-----------------------------------------------------------------------------
(* The call.                                                               *)

Untouched == [kind |-> "Unset", status |-> "Unresolved", value |-> 0]
Nothing == "none"

\* The anchors that are resolved: as many as the buffer takes.
Total == Min({Len(call.table), call.size})
Anchor(i) == Pool[call.table[i]]

Init ==
    /\ call \in Calls
    /\ IF call.op = "fingerprint" THEN image = Unread ELSE image \in Images
    /\ pc = "resolving"
    /\ results = << >>
    /\ out = [i \in 1 .. call.size |-> Untouched]
    /\ verdict = Nothing

\* resolve_all and resolve_all_with_profile: one after the other, into the buffer.
ResolveNext ==
    /\ pc = "resolving"
    /\ call.op = "serial"
    /\ Len(results) < Total
    /\ LET r == ResolveWithProfile(Anchor(Len(results) + 1), call.profile)
       IN  /\ results' = Append(results, r)
           /\ out' = [out EXCEPT ![Len(results) + 1] = r]
    /\ UNCHANGED <<call, image, pc, verdict>>

\* Memory runs out in the serial forms: the exception ends the call.
ResolveThrows ==
    /\ pc = "resolving"
    /\ call.op = "serial"
    /\ Len(results) < Total
    /\ pc' = "back"
    /\ UNCHANGED <<call, image, results, out, verdict>>

SerialReturns ==
    /\ pc = "resolving"
    /\ call.op = "serial"
    /\ Len(results) = Total
    /\ pc' = "back"
    /\ UNCHANGED <<call, image, results, out, verdict>>

\* The parallel forms over run_fork_join (ScanResolve has the workers): each
\* item is resolved, or fails alone when memory runs out; then the results
\* are copied to the buffer.
ResolveParallel ==
    /\ pc = "resolving"
    /\ call.op = "parallel"
    /\ \E short \in SUBSET (1 .. Total) :
         results' = [i \in 1 .. Total |->
                       IF i \in short THEN Failed(Anchor(i))
                       ELSE ResolveWithProfile(Anchor(i), call.profile)]
    /\ out' = [i \in DOMAIN out |-> IF i <= Total THEN results'[i] ELSE out[i]]
    /\ pc' = "back"
    /\ UNCHANGED <<call, image, verdict>>

\* The caller gates its whole buffer, the part that was written, or a summary
\* of its own making.
Gate ==
    /\ pc = "back"
    /\ pc' = "gated"
    /\ \/ verdict' = EvaluateGate(AssessQuality(out), call.policy)
       \/ verdict' = EvaluateGate(AssessQuality(SubSeq(out, 1, Len(results))), call.policy)
       \/ call.quality # Miss /\ verdict' = EvaluateGate(call.quality, call.policy)
    /\ UNCHANGED <<call, image, results, out>>

\* anchor_fingerprint of the first anchor of the table, whose members were
\* declared in one order or another.
Fingerprint ==
    /\ pc = "resolving"
    /\ call.op = "fingerprint"
    /\ \E p \in {f \in [DOMAIN Anchor(1).members -> DOMAIN Anchor(1).members] : IsInjective(f)} :
         results' = <<QuorumFingerprint(Anchor(1), [k \in DOMAIN p |-> Anchor(1).members[p[k]]])>>
    /\ pc' = "printed"
    /\ UNCHANGED <<call, image, out, verdict>>

Done == pc \in {"gated", "printed"} /\ UNCHANGED vars

Next ==
    \/ ResolveNext
    \/ ResolveThrows
    \/ SerialReturns
    \/ ResolveParallel
    \/ Gate
    \/ Fingerprint
    \/ Done

Spec == Init /\ [][Next]_vars

-----------------------------------------------------------------------------
(* Properties.                                                             *)

TypeOK ==
    /\ pc \in {"resolving", "back", "gated", "printed"}
    /\ verdict \in {Nothing, "Pass", "Degraded", "Fail"}
    /\ \A i \in DOMAIN out : out[i].value \in Values

\* Where in the image the value of a resolved anchor comes from.
Origin(a) ==
    CASE a.kind = "ExportName" -> <<"export", ExportModule(a), a.name>>
      [] a.kind = "Manual" -> <<"manual", a.value, 0>>
      [] OTHER -> [Place(WinningRung(a, call.profile)) EXCEPT
                     ![3] = IF a.kind = "CodeOperand" THEN a.operand ELSE 0]

Near(a, v, w) ==
    IF a.match = "ExactValue" THEN v = w
    ELSE v - w <= a.tolerance /\ w - v <= a.tolerance

\* The members that speak for a value.
Supporters(a, v) ==
    {k \in DOMAIN a.members :
        LET r == ResolveSingle(Pool[a.members[k]], call.profile)
        IN  r.status = "Resolved" /\ Near(a, r.value, v)}

\* The one dependence the code lets pass: an export of the scope, named and unnamed.
SameExportTwice(a, b) ==
    a.kind = "ExportName" /\ b.kind = "ExportName" /\ (a.module = "") # (b.module = "")

\* A vote is corroboration (resolve_with_profile, case Quorum): the value a
\* quorum commits is supported by as many members as it asks for, at least
\* two, no two of which found it at one place of the image, whatever wraps,
\* orders or shares their rungs; at most one of them is a literal.
QuorumIsHonest ==
    \A i \in DOMAIN out : out[i].status = "Resolved" /\ out[i].kind = "Quorum" =>
        LET a == Anchor(i)
            S == Supporters(a, out[i].value)
            At(k) == Pool[a.members[k]]
        IN  /\ Cardinality(S) >= Max({2, Threshold(a)})
            /\ \A j, k \in S : j # k =>
                 /\ Origin(At(j)) # Origin(At(k)) \/ SameExportTwice(At(j), At(k))
                 /\ At(j).kind # "Manual" \/ At(k).kind # "Manual"

\* commit_resolved and the deny-list: a value that is reported was found by a
\* backend the profile allows and passed the validator that was declared.
ValuesAreVetted ==
    \A i \in DOMAIN out : out[i].status = "Resolved" =>
        LET a == Anchor(i)
        IN  /\ a.kind \notin call.profile.denied
            /\ a.validator # Miss /\ (a.kind = "Manual" => a.validate_manual)
                 => out[i].value \in a.validator
            /\ a.require_validator => a.validator # Miss \/ a.kind \in {"Manual", "Quorum"}

Better(v, w) == <<v, w>> \in {<<"Pass", "Degraded">>, <<"Pass", "Fail">>, <<"Degraded", "Fail">>}

Accounted(q) == q.resolved + q.failed + q.unsupported + q.not_independent

\* evaluate_gate fails closed: losing one more anchor never improves the
\* verdict, a slot nothing was written to counts against the report unless the
\* policy asks for none, and a summary that does not add up fails.
GateFailsClosed ==
    pc = "back" =>
        LET Verdict(r) == EvaluateGate(AssessQuality(r), call.policy)
        IN  /\ \A i \in DOMAIN out : out[i].status = "Resolved" =>
                 ~Better(Verdict([out EXCEPT ![i].status = "Failed"]), Verdict(out))
            /\ ClampedGateRatio(call.policy.ratio)[1] > 0 =>
                 ~Better(Verdict(out), Verdict(SubSeq(out, 1, Len(results))))
            /\ call.quality # Miss /\ Accounted(call.quality) > call.quality.total
                 => EvaluateGate(call.quality, call.policy) = "Fail"

\* anchor_fingerprint: a quorum's fingerprint folds every member once and does
\* not depend on the order they are declared in.
FingerprintIgnoresOrder ==
    pc = "printed" =>
        /\ Len(results[1][2]) = Len(Anchor(1).members)
        /\ results[1] = QuorumFingerprint(Anchor(1), Anchor(1).members)

\* anchor.cpp: votes corroborate, values are vetted, the gate fails closed and
\* fingerprints are canonical.
AnchorsAreHonest ==
    TypeOK /\ QuorumIsHonest /\ ValuesAreVetted /\ GateFailsClosed /\ FingerprintIgnoresOrder
=============================================================================
