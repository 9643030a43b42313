---------------------------- MODULE ScanResolve ----------------------------
(***************************************************************************)
(* Resolving ladders of candidates, one batch on several threads           *)
(* (scan_resolution.cpp, scan_candidates.cpp,                              *)
(* internal/scan_prologue_recovery.cpp, fork_join.hpp).                    *)
(*                                                                         *)
(* A request is a ladder of candidates with a policy.  resolve() tries the *)
(* candidates in order and takes the first whose address is proven; when   *)
(* none is, it may rebuild the hooked prologue of the Direct candidates.   *)
(* resolve_batch() hands the requests to workers through a shared cursor;  *)
(* the calling thread is one of them, and a thread that cannot be created  *)
(* is done without.                                                        *)
(*                                                                         *)
(* What a scan finds in memory is data of the candidate: how often its     *)
(* bytes match (PatternScan has the scan itself), whether the sweep was    *)
(* complete, and where the match leads.                                    *)
(***************************************************************************)
EXTENDS Integers, Sequences, SequencesExt, FiniteSets, FiniteSetsExt

CONSTANTS
    Helpers,      \* the threads the batch may create
    Scenarios     \* records [requests, workers]: what a batch is called with

\* The calling thread, which works as well.
Caller == "caller"
Threads == Helpers \cup {Caller}

NoHit == [error |-> "NoMatch", from |-> 0, site |-> "", warned |-> FALSE]
Error(e) == [NoHit EXCEPT !.error = e]

VARIABLES
    batch,      \* the scenario
    results,    \* one result per request
    cursor,     \* the next request to claim
    team,       \* the threads created so far, and the caller once it works
    th,         \* per thread: what it is doing
    resolved,   \* how often each request was resolved
    returned    \* "" until the batch is back, then "results" or the error of the whole batch

vars == <<batch, results, cursor, team, th, resolved, returned>>

Requests == batch.requests
Items == DOMAIN Requests

\* rejected, fits and direct are FallbackOutcome's identity_rejected,
\* ~not_applicable and had_direct.
Idle == [pc |-> "idle", item |-> 0, k |-> 1, shape |-> 1,
         rejected |-> FALSE, fits |-> FALSE, direct |-> FALSE]

Init ==
    /\ batch \in Scenarios
    /\ results = [i \in Items |-> NoHit]
    /\ cursor = 1
    /\ team = {}
    /\ th = [t \in Threads |-> Idle]
    /\ resolved = [i \in Items |-> 0]
    /\ returned = ""

-----------------------------------------------------------------------------
(* The order of the ladder.                                                *)

IsText(c) == c.mode \in {"rtti", "string"}
IsByte(c) == c.mode \in {"direct", "rip"}
IsAnchored(c) == IsByte(c) /\ c.anchored

\* order_candidates: as declared, or three stable passes.
OrderCandidates(request) ==
    LET declared == [i \in DOMAIN request.ladder |-> i]
        Pass(P(_)) == SelectSeq(declared, LAMBDA i : P(request.ladder[i]))
    IN  IF request.order = "AsDeclared" THEN declared
        ELSE Pass(IsText) \o Pass(IsAnchored)
             \o Pass(LAMBDA c : IsByte(c) /\ ~IsAnchored(c))

\* borrow_code_target and its strict form: the policy of a hook target.
CodeTarget(ladder, policy, witness) ==
    [ladder |-> ladder, order |-> "UniqueFirst", unique |-> TRUE, code |-> TRUE,
     policy |-> policy, witness |-> witness, pages |-> "Executable", valid |-> TRUE]

-----------------------------------------------------------------------------
(* The candidates.  site is where a match leads: code or data of the       *)
(* scope, outside of it, or nowhere plausible.                             *)

InScope(site) == site \in {"code", "data"}

AcceptsAddress(request, site) == request.code => site = "code"

\* A text tier: its backend answers only for a single match.
TextAccepted(request, c) ==
    /\ c.count = 1
    /\ c.complete
    /\ InScope(c.site)
    /\ AcceptsAddress(request, c.site)

\* Mutant: an incomplete sweep is trusted.
ByteAcceptedAnyway(request, c) ==
    /\ c.count >= 1
    /\ request.unique => c.count = 1
    /\ InScope(c.site)
    /\ AcceptsAddress(request, c.site)

\* A byte tier: one scan for the first match, and one for a second when the
\* request wants a single one.
ByteAccepted(request, c) ==
    /\ c.count >= 1
    /\ c.complete
    /\ request.unique => c.count = 1
    /\ InScope(c.site)
    /\ AcceptsAddress(request, c.site)

\* try_prologue_shape: the signature is long enough to rebuild, the rebuilt
\* jump matches once in code, it leads to executable memory, and the
\* address is in scope.
ShapeRecovers(s) ==
    s.fits /\ s.count = 1 /\ s.complete /\ s.jumps /\ InScope(s.site)

-----------------------------------------------------------------------------
(* The workers.                                                            *)

WorkerCount == LET n == Len(Requests) IN IF batch.workers < n THEN batch.workers ELSE n

\* resolve_batch: the vector of results cannot be made, and there is no batch.
BatchFails ==
    /\ team = {} /\ returned = ""
    /\ returned' \in {"OutOfMemory", "Unknown"}
    /\ UNCHANGED <<batch, results, cursor, team, th, resolved>>

\* run_fork_join creates a thread, unless there are enough.
Spawn(t) ==
    /\ Caller \notin team /\ returned = ""
    /\ t \notin team
    /\ Cardinality(team) < WorkerCount - 1
    /\ team' = team \cup {t}
    /\ th' = [th EXCEPT ![t].pc = "claim"]
    /\ UNCHANGED <<batch, results, cursor, resolved, returned>>

\* The caller works too: all threads are there, or one could not be created.
CallerJoins ==
    /\ Caller \notin team /\ returned = ""
    /\ team' = team \cup {Caller}
    /\ th' = [th EXCEPT ![Caller].pc = "claim"]
    /\ UNCHANGED <<batch, results, cursor, resolved, returned>>

\* cursor.fetch_add
Claim(t) ==
    /\ th[t].pc = "claim"
    /\ cursor' = cursor + 1
    /\ IF cursor > Len(Requests)
       THEN th' = [th EXCEPT ![t] = [Idle EXCEPT !.pc = "gone"]]
       ELSE th' = [th EXCEPT ![t] = [Idle EXCEPT !.pc = "start", !.item = cursor]]
    /\ UNCHANGED <<batch, results, team, resolved, returned>>

Request(t) == Requests[th[t].item]
Ordered(t) == OrderCandidates(Request(t))

\* The slot of the item is written and the next one is claimed.
Answer(t, r) ==
    /\ results' = [results EXCEPT ![th[t].item] = r]
    /\ resolved' = [resolved EXCEPT ![th[t].item] = @ + 1]
    /\ th' = [th EXCEPT ![t] = [Idle EXCEPT !.pc = "claim"]]
    /\ UNCHANGED <<batch, cursor, team, returned>>

Keep(t, w) ==
    /\ th' = [th EXCEPT ![t] = w]
    /\ UNCHANGED <<batch, results, cursor, team, resolved, returned>>

PagesKnown(request) == request.pages \in {"Readable", "Executable"}

\* resolve(): its checks, and the order.
Start(t) ==
    /\ th[t].pc = "start"
    /\ \/ Request(t).ladder = <<>> /\ Answer(t, Error("EmptyCandidates"))
       \/ /\ Request(t).ladder # <<>> /\ ~PagesKnown(Request(t))
          /\ Answer(t, Error("InvalidArg"))
       \/ /\ Request(t).ladder # <<>> /\ PagesKnown(Request(t)) /\ ~Request(t).valid
          /\ Answer(t, Error("InvalidRange"))
       \/ /\ Request(t).ladder # <<>> /\ PagesKnown(Request(t)) /\ Request(t).valid
          /\ Keep(t, [th[t] EXCEPT !.pc = "ladder"])

\* One candidate of the ladder: its address, or on to the next.
TryCandidate(t) ==
    LET i == Ordered(t)[th[t].k]
        c == Request(t).ladder[i]
    IN  /\ th[t].pc = "ladder"
        /\ th[t].k <= Len(Ordered(t))
        /\ IF \/ IsText(c) /\ TextAccepted(Request(t), c)
              \/ IsByte(c) /\ ByteAccepted(Request(t), c)
           THEN Answer(t, [error |-> "", from |-> i, site |-> c.site, warned |-> FALSE])
           ELSE Keep(t, [th[t] EXCEPT !.k = @ + 1])

\* No candidate: recovery, unless the policy has it off.
LadderMissed(t) ==
    /\ th[t].pc = "ladder"
    /\ th[t].k > Len(Ordered(t))
    /\ \/ Request(t).policy = "Off" /\ Answer(t, Error("NoMatch"))
       \/ /\ Request(t).policy # "Off"
          /\ Keep(t, [th[t] EXCEPT !.pc = "fallback", !.k = 1])

\* The shapes of a candidate that is not a Direct one are none.
Shapes(c) == IF c.mode = "direct" THEN c.shapes ELSE <<>>

\* The witness of the request turns the site down.
Disagrees(request, s) == request.witness /\ s.twin

\* RequireIdentity wants a witness that agrees.
IdentityRejected(request, s) ==
    request.policy = "RequireIdentity" /\ (~request.witness \/ Disagrees(request, s))

\* One shape of one candidate; the first recovered and confirmed ends the
\* search, whether or not resolve() then takes it.
TryShape(t) ==
    LET i == Ordered(t)[th[t].k]
        c == Request(t).ladder[i]
        s == Shapes(c)[th[t].shape]
        w == [th[t] EXCEPT !.shape = @ + 1, !.direct = TRUE, !.fits = @ \/ s.fits]
    IN  /\ th[t].pc = "fallback"
        /\ th[t].k <= Len(Ordered(t))
        /\ th[t].shape <= Len(Shapes(c))
        /\ \/ ~ShapeRecovers(s) /\ Keep(t, w)
           \/ /\ ShapeRecovers(s)
              /\ IdentityRejected(Request(t), s)
              /\ Keep(t, [w EXCEPT !.rejected = TRUE])
           \/ /\ ShapeRecovers(s)
              /\ ~IdentityRejected(Request(t), s)
              /\ IF AcceptsAddress(Request(t), s.site)
                 THEN Answer(t, [error |-> "", from |-> i, site |-> s.site,
                                 warned |-> Disagrees(Request(t), s)])
                 ELSE Keep(t, [w EXCEPT !.pc = "missed"])

NextCandidate(t) ==
    LET c == Request(t).ladder[Ordered(t)[th[t].k]]
    IN  /\ th[t].pc = "fallback"
        /\ th[t].k <= Len(Ordered(t))
        /\ th[t].shape > Len(Shapes(c))
        /\ Keep(t, [th[t] EXCEPT !.k = @ + 1, !.shape = 1, !.direct = @ \/ c.mode = "direct"])

FallbackMissed(t) ==
    /\ th[t].pc = "fallback"
    /\ th[t].k > Len(Ordered(t))
    /\ Keep(t, [th[t] EXCEPT !.pc = "missed"])

\* Why nothing was recovered.
Missed(t) ==
    /\ th[t].pc = "missed"
    /\ Answer(t, Error(CASE th[t].rejected -> "PrologueIdentityRejected"
                         [] ~th[t].rejected /\ th[t].direct /\ ~th[t].fits
                               -> "PrologueFallbackNotApplicable"
                         [] OTHER -> "NoMatch"))

\* resolve() throws on the way and the item alone fails: the batch reports a failed allocation as
\* such, the worker seals whatever else is thrown with fail_one, which is a NoMatch.
Throws(t) ==
    /\ th[t].pc \in {"start", "ladder", "fallback"}
    /\ Request(t).throws # ""
    /\ Answer(t, Error(IF Request(t).throws = "bad_alloc" THEN "OutOfMemory" ELSE "NoMatch"))

\* The threads are joined and the results go back.
Join ==
    /\ Caller \in team
    /\ returned = ""
    /\ \A t \in team : th[t].pc = "gone"
    /\ returned' = "results"
    /\ UNCHANGED <<batch, results, cursor, team, th, resolved>>

Step(t) ==
    \/ Claim(t)
    \/ Start(t)
    \/ TryCandidate(t)
    \/ LadderMissed(t)
    \/ TryShape(t)
    \/ NextCandidate(t)
    \/ FallbackMissed(t)
    \/ Missed(t)
    \/ Throws(t)

Done == returned # "" /\ UNCHANGED vars

Next ==
    \/ BatchFails
    \/ \E t \in Helpers : Spawn(t)
    \/ CallerJoins
    \/ \E t \in Threads : Step(t)
    \/ Join
    \/ Done

Spec == Init /\ [][Next]_vars /\ WF_vars(Next)

-----------------------------------------------------------------------------
(* Properties.                                                             *)

\* The candidates of a request that resolve on their own.
Provable(request) ==
    {i \in DOMAIN request.ladder :
        LET c == request.ladder[i]
        IN  /\ c.complete
            /\ InScope(c.site)
            /\ request.code => c.site = "code"
            /\ IF request.unique \/ IsText(c) THEN c.count = 1 ELSE c.count >= 1}

\* How early a candidate is tried: the text tiers, the anchored bytes, the
\* rest, and within a class as declared.
Rank(request, i) ==
    LET c == request.ladder[i]
    IN  CASE request.order = "AsDeclared" \/ IsText(c) -> 0
          [] request.order # "AsDeclared" /\ IsAnchored(c) -> 1
          [] OTHER -> 2

Earlier(request, i, j) ==
    \/ Rank(request, i) < Rank(request, j)
    \/ Rank(request, i) = Rank(request, j) /\ i < j

\* The sites recovery may take, by candidate and shape: of a Direct candidate, found once, and
\* confirmed where the policy wants it.
Recoverable(request) ==
    {x \in UNION {{i} \X DOMAIN Shapes(request.ladder[i]) : i \in DOMAIN request.ladder} :
        LET s == request.ladder[x[1]].shapes[x[2]]
        IN  /\ ShapeRecovers(s)
            /\ request.policy = "RequireIdentity" => request.witness /\ ~s.twin}

\* The one that recovery meets first.
FirstRecoverable(request) ==
    {x \in Recoverable(request) : \A y \in Recoverable(request) :
        y = x \/ Earlier(request, x[1], y[1]) \/ (x[1] = y[1] /\ x[2] < y[2])}

\* What recovery ends with: the first site it may take, when its address is acceptable.
Recovered(request) ==
    {x \in FirstRecoverable(request) :
        request.policy # "Off" /\ AcceptsAddress(request, request.ladder[x[1]].shapes[x[2]].site)}

Misses == {"NoMatch", "PrologueIdentityRejected", "PrologueFallbackNotApplicable"}

\* A batch gives every request the answer it would get alone, on however many threads and however
\* many could not be created: the earliest provable candidate; when there is none, the first site
\* recovery may take; and a miss only when there is no provable candidate, and recovery has nothing
\* to take or stopped at a site that is not executable as the request wants it (resolve and
\* resolve_batch over run_fork_join).  A request that threw may be reported as a miss.
BatchIsSerial ==
    \A i \in Items : resolved[i] > 0 =>
        LET q == Requests[i]
            r == results[i]
        IN  /\ r.error = "" /\ r.from \in Provable(q) =>
                 \A j \in Provable(q) : j # r.from => Earlier(q, r.from, j)
            /\ r.error = "" /\ r.from \notin Provable(q) =>
                 /\ Provable(q) = {}
                 /\ \E x \in Recovered(q) : r.from = x[1] /\ r.site = q.ladder[x[1]].shapes[x[2]].site
            /\ r.error \in Misses /\ q.throws # "other" => Provable(q) = {} /\ Recovered(q) = {}

\* Every request is resolved once, before the batch returns; a batch that fails as a whole has
\* resolved none (run_fork_join, resolve_batch).
EachOnce ==
    /\ \A i \in Items : resolved[i] <= 1
    /\ returned = "results" => \A i \in Items : resolved[i] = 1
    /\ returned \in {"OutOfMemory", "Unknown"} => \A i \in Items : resolved[i] = 0

\* A rejection by the identity gate means that "RequireIdentity refused every
\* structurally-recovered site" (scan_resolution.cpp, in resolve): no
\* recovered address passed the witness.
RejectionIsTotal ==
    \A i \in Items : resolved[i] > 0 /\ results[i].error = "PrologueIdentityRejected" =>
        Recoverable(Requests[i]) = {}

\* scan.hpp, require_executable_result: it "rejects a candidate whose final resolved address is not
\* on a committed execute-readable page", of prologue recovery as of the others: a later site that
\* is executable is taken.  TLC finds it violated: resolve() tests the one site recovery returns.
RejectsOnlyTheCandidate ==
    \A i \in Items : resolved[i] > 0 /\ results[i].error = "NoMatch" =>
        LET q == Requests[i]
        IN  q.policy = "Off" \/ q.throws # ""
            \/ \A x \in Recoverable(q) : ~AcceptsAddress(q, q.ladder[x[1]].shapes[x[2]].site)

=============================================================================
