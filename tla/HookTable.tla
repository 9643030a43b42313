----------------------------- MODULE HookTable -----------------------------
(***************************************************************************)
(* Declarative tables of hooks (install_all) and stacks of hooks           *)
(* (HookStack) of one setup thread, with the pre-flight of every row.  One *)
(* install or one teardown of a hook is a step here; HookLedger models     *)
(* their inside, and the threads that race for a target.                   *)
(*                                                                         *)
(* A hook is named by the order in which it was created.  What the first   *)
(* bytes of a target are is abstracted to the shapes the pre-flight tells  *)
(* apart, as they were before this kit patched them.                       *)
(***************************************************************************)
EXTENDS Naturals, Sequences, FiniteSets, SequencesExt

CONSTANTS
    Targets,     \* addresses
    Tables,      \* tables of rows [target, strict, failRisky, mandatory]
    MaxHooks,    \* bound on hooks created
    MaxTables    \* bound on calls of install_all

VARIABLES
    bytes,       \* shape of the first bytes of each target
    ledger,      \* hooks tracked at each target
    live,        \* hooks whose jump is in place
    owner,       \* hook -> target
    next,        \* the next hook
    table,       \* rows still to install, or <<>>
    rows,        \* hooks of the table being installed, and afterwards outcomes
    pc,          \* "idle", "installing", "rolling", "installed", "assigning"
    before,      \* ledger when the table was begun
    stack,       \* m_hooks of a HookStack
    other,       \* m_hooks of a second one
    leaks,       \* hooks whose backend was abandoned
    calls

vars == <<bytes, ledger, live, owner, next, table, rows, pc, before, stack, other,
          leaks, calls>>

Shapes == {"plain", "call", "int3", "jmpSame", "jmpOther", "movRax", "absJmp",
           "unreadable"}
Hooks == 1 .. MaxHooks

TypeOK ==
    /\ bytes \in [Targets -> Shapes] /\ ledger \in [Targets -> SUBSET Hooks]
    /\ live \subseteq Hooks /\ leaks \subseteq live
    /\ pc \in {"idle", "installing", "rolling", "installed", "assigning"}
    /\ \A s \in {stack, other, rows} : \A k \in 1 .. Len(s) : s[k] \in Hooks \cup {0}

Init ==
    /\ bytes \in [Targets -> Shapes]
    /\ ledger = [a \in Targets |-> {}] /\ live = {} /\ owner = <<>> /\ next = 1
    /\ table = <<>> /\ rows = <<>> /\ pc = "idle" /\ before = ledger
    /\ stack = <<>> /\ other = <<>> /\ leaks = {} /\ calls = 0

---------------------------------------------------------------------------
(* The redirect at the start of a target: a rel32 or indirect jump, or the *)
(* full mov rax / jmp rax.  A bare mov rax is none.                        *)
Redirected(a) == bytes[a] \in {"jmpSame", "jmpOther", "absJmp"}
decode_prehook_destination(a) ==
    IF ~Redirected(a) THEN {} ELSE IF bytes[a] = "jmpSame" THEN {"same"} ELSE {"other"}

detect_existing_inline_hook(a) ==
    IF decode_prehook_destination(a) = {} THEN "Clean"
    ELSE IF decode_prehook_destination(a) = {"same"} THEN "HookedBySameModule"
    ELSE "HookedByOtherModule"

classify_prologue_risk(a) ==
    IF live \cap ledger[a] # {} THEN "None"
    ELSE IF bytes[a] = "call" THEN "LeadingCall"
    ELSE IF bytes[a] = "int3" THEN "Breakpoint" ELSE "None"

(* What the install verbs refuse before the backend is asked.              *)
Refused(row) ==
    LET a == row.target IN
    \/ row.strict /\ ledger[a] # {}
    \/ row.strict /\ ledger[a] = {} /\ detect_existing_inline_hook(a) = "HookedByOtherModule"
    \/ row.failRisky /\ classify_prologue_risk(a) # "None"

(* ~Hook: under a newer layer the backend is leaked and stays tracked.     *)
Newer(h) == {g \in ledger[owner[h]] : g > h}
Destroy(h) ==
    IF h = 0 THEN UNCHANGED <<ledger, live, leaks>>
    ELSE IF Newer(h) # {}
    THEN leaks' = leaks \cup {h} /\ UNCHANGED <<ledger, live>>
    ELSE /\ ledger' = [ledger EXCEPT ![owner[h]] = @ \ {h}]
         /\ live' = live \ {h} /\ UNCHANGED leaks

---------------------------------------------------------------------------
(* install_all                                                             *)
BeginTable ==
    /\ pc = "idle" /\ calls < MaxTables /\ calls' = calls + 1
    /\ \E t \in Tables : table' = t
    /\ pc' = "installing" /\ before' = ledger /\ rows' = <<>>
    /\ UNCHANGED <<bytes, ledger, live, owner, next, stack, other, leaks>>

(* The row is installed: a target already tracked is layered on.           *)
InstallRow ==
    /\ pc = "installing" /\ table # <<>> /\ next \in Hooks
    /\ LET row == Head(table) IN
       /\ ~Refused(row)
       /\ ledger' = [ledger EXCEPT ![row.target] = @ \cup {next}]
       /\ owner' = Append(owner, row.target)
    /\ live' = live \cup {next} /\ next' = next + 1
    /\ rows' = Append(rows, next) /\ table' = Tail(table)
    /\ UNCHANGED <<bytes, pc, before, stack, other, leaks, calls>>

(* Refused, unresolved, or the backend failed: a mandatory row rolls the   *)
(* table back, an optional one is an outcome without a hook.               *)
RowFails ==
    /\ pc = "installing" /\ table # <<>>
    /\ IF Head(table).mandatory
         THEN pc' = "rolling" /\ table' = <<>> /\ UNCHANGED rows
         ELSE rows' = Append(rows, 0) /\ table' = Tail(table) /\ UNCHANGED pc
    /\ UNCHANGED <<bytes, ledger, live, owner, next, before, stack, other, leaks, calls>>

(* Copying a row or growing the vector throws.                             *)
RowThrows ==
    /\ pc = "installing" /\ table # <<>>
    /\ pc' = "rolling" /\ table' = <<>>
    /\ UNCHANGED <<bytes, ledger, live, owner, next, rows, before, stack, other, leaks, calls>>

RollBackOldest ==
    /\ pc = "rolling"
    /\ IF rows = <<>> THEN pc' = "idle" /\ UNCHANGED <<rows, ledger, live, leaks>>
       ELSE Destroy(Head(rows)) /\ rows' = Tail(rows) /\ UNCHANGED pc
    /\ UNCHANGED <<bytes, owner, next, table, before, stack, other, calls>>

(* ~InstallRollback pops from the back.                                    *)
RollBack ==
    /\ pc = "rolling"
    /\ IF rows = <<>> THEN pc' = "idle" /\ UNCHANGED <<rows, ledger, live, leaks>>
       ELSE Destroy(Last(rows)) /\ rows' = Front(rows) /\ UNCHANGED pc
    /\ UNCHANGED <<bytes, owner, next, table, before, stack, other, calls>>

CommitTable ==
    /\ pc = "installing" /\ table = <<>> /\ pc' = "installed"
    /\ UNCHANGED <<bytes, ledger, live, owner, next, table, rows, before, stack, other,
                   leaks, calls>>

---------------------------------------------------------------------------
(* HookStack: the caller pushes the outcomes in table order.               *)
Push ==
    /\ pc = "installed"
    /\ IF rows = <<>> THEN pc' = "idle" /\ UNCHANGED <<rows, stack>>
       ELSE /\ stack' = IF Head(rows) = 0 THEN stack ELSE Append(stack, Head(rows))
            /\ rows' = Tail(rows) /\ UNCHANGED pc
    /\ UNCHANGED <<bytes, ledger, live, owner, next, table, before, other, leaks, calls>>

(* One turn of teardown_newest_first, which the destructor, clear() and    *)
(* the move-assignment share.                                              *)
PopNewest ==
    /\ stack # <<>> /\ pc = "idle"
    /\ Destroy(Last(stack)) /\ stack' = Front(stack)
    /\ UNCHANGED <<bytes, owner, next, table, rows, pc, before, other, calls>>

(* other = std::move(stack): what other owned is torn down newest first,   *)
(* then it adopts the hooks of the stack.                                  *)
MoveAssign ==
    /\ pc = "idle" /\ stack # <<>> /\ pc' = "assigning"
    /\ UNCHANGED <<bytes, ledger, live, owner, next, table, rows, before, stack, other,
                   leaks, calls>>

AssignStep ==
    /\ pc = "assigning"
    /\ IF other # <<>>
         THEN Destroy(Last(other)) /\ other' = Front(other) /\ UNCHANGED <<stack, pc>>
         ELSE other' = stack /\ stack' = <<>> /\ pc' = "idle" /\ UNCHANGED <<ledger, live, leaks>>
    /\ UNCHANGED <<bytes, owner, next, table, rows, before, calls>>

DropOther ==
    /\ pc = "idle" /\ other # <<>>
    /\ Destroy(Last(other)) /\ other' = Front(other)
    /\ UNCHANGED <<bytes, owner, next, table, rows, pc, before, stack, calls>>

Terminated == pc = "idle" /\ calls = MaxTables /\ stack = <<>> /\ other = <<>> /\ UNCHANGED vars

Next ==
    \/ BeginTable \/ InstallRow \/ RowFails \/ RowThrows \/ RollBack \/ CommitTable
    \/ Push \/ PopNewest \/ MoveAssign \/ AssignStep \/ DropOther \/ Terminated

Spec == Init /\ [][Next]_vars

---------------------------------------------------------------------------
(* A table that is rolled back, on a mandatory miss or an exception,       *)
(* abandons no layer and leaves the ledger as it found it, whatever rows   *)
(* share a target.                                                         *)
CleanRollback == pc = "rolling" => leaks' = leaks /\ (pc' = "idle" => ledger' = before)
RollbackIsClean == [][CleanRollback]_vars

(* A hook is leaked under a newer layer only if some newer layer belongs   *)
(* to another owner: a stack that was filled in creation order and owns    *)
(* all the layers of a target restores every one, also when it is          *)
(* overwritten by a move.                                                  *)
ForeignLeak ==
    \A h \in leaks' \ leaks : \E g \in Newer(h) :
       \A s \in {stack, other, rows} : ~({g, h} \subseteq ToSet(s))
LeakNeedsForeignLayer == [][ForeignLeak]_vars
============================================================================
