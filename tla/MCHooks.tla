------------------------------ MODULE MCHooks ------------------------------
(* Hooks, one part at a time: the ledger that orders installs and teardowns, tables and stacks *)
(* of hooks, and vtable hooks.  A behaviour chooses a component and is a behaviour of that     *)
(* component.                                                                                  *)
EXTENDS HookLedger, TLC

CONSTANTS None, u1, u2, h1, h2, h3, o1, o2, b1, b2, b3, x, y

VARIABLES component,
          bytes, live, owner, next, table, rows, before, stack, other, leaks, made,
          vptr, clone, vhandle, script, dying, nextId,
          ledger, phase   \* of tables and of vtable hooks, of which one runs

tables == <<bytes, live, owner, next, table, rows, before, stack, other, leaks, made>>
vmts == <<vptr, clone, vhandle, script, dying, nextId>>
all == <<component, vars, tables, vmts, ledger, phase>>

-----------------------------------------------------------------------------
(* Tables: rows that share a target, a row that refuses what it finds there, an optional row. *)

Row(t, s, f, m) == [target |-> t, strict |-> s, failRisky |-> f, mandatory |-> m]
TwoTargets == {x, y}
SomeTables == {
  <<Row(x, FALSE, TRUE, FALSE), Row(x, FALSE, FALSE, TRUE), Row(y, TRUE, FALSE, TRUE)>>,
  <<Row(y, FALSE, FALSE, TRUE), Row(x, FALSE, FALSE, TRUE), Row(y, FALSE, TRUE, TRUE)>> }

Table == INSTANCE HookTable WITH
  calls <- made, pc <- phase, Targets <- TwoTargets, Tables <- SomeTables, MaxHooks <- 6, MaxTables <- 2

-----------------------------------------------------------------------------
(* Vtable hooks: two threads, three handles, two objects. *)

Create(h, o, s) == [do |-> "create", h |-> h, object |-> o, strict |-> s]
Apply(h, o, s) == [do |-> "apply", h |-> h, object |-> o, strict |-> s]
Remove(h, o) == [do |-> "remove", h |-> h, object |-> o]
Hooked(h, i) == [do |-> "hook", h |-> h, method |-> i]
Unhook(h, i) == [do |-> "unhook", h |-> h, method |-> i]
Drop(h) == [do |-> "drop", h |-> h]
Forget(h) == [do |-> "release", h |-> h]

\* Strict hooks of two threads in any order; a permissive chain dropped newest first; methods.
VmtCases ==
  {(u1 :> <<Create(h1, o1, TRUE), Apply(h1, o2, TRUE), Drop(h1)>> @@
    u2 :> <<Create(h2, o1, TRUE), Apply(h2, o2, TRUE), Remove(h2, o2), Drop(h2), Create(h3, o2, TRUE)>>),
   (u1 :> <<Create(h1, o1, TRUE), Drop(h1), Create(h3, o2, TRUE), Drop(h3)>> @@
    u2 :> <<Create(h2, o2, TRUE), Apply(h2, o1, TRUE), Forget(h2)>>),
   (u1 :> <<Create(h1, o1, FALSE), Hooked(h1, 1), Create(h2, o1, FALSE), Apply(h2, o2, FALSE), Hooked(h2, 1),
            Apply(h2, o1, FALSE), Drop(h2), Drop(h1)>> @@
    u2 :> <<>>),
   (u1 :> <<Create(h1, o1, FALSE), Hooked(h1, 1), Hooked(h1, 1), Unhook(h1, 1), Hooked(h1, 2), Unhook(h1, 3),
            Remove(h1, o2), Drop(h1)>> @@
    u2 :> <<Create(h2, o2, TRUE), Hooked(h2, 2), Drop(h2)>>)}

TwoThreads == {u1, u2}
ThreeHandles == {h1, h2, h3}
TwoObjects == {o1, o2}
ThreeBases == {b1, b2, b3}
TwoMethods == {1, 2}

Vmt == INSTANCE VmtHook WITH
  handle <- vhandle, pc <- phase, Threads <- TwoThreads, Handles <- ThreeHandles, Objects <- TwoObjects, Bases <- ThreeBases,
  Methods <- TwoMethods, Scenarios <- VmtCases

-----------------------------------------------------------------------------
(* The chosen component runs; the others do not start. *)

NoTables ==
  /\ bytes = None /\ live = None /\ owner = None /\ next = None /\ table = None /\ rows = None
  /\ before = None /\ stack = None /\ other = None /\ leaks = None /\ made = None
NoVmts == vptr = None /\ clone = None /\ vhandle = None /\ script = None /\ dying = None /\ nextId = None

MCInit ==
  /\ Init
  /\ \/ component = "ledger" /\ NoTables /\ NoVmts /\ ledger = None /\ phase = None
     \/ component = "table" /\ Table!Init /\ NoVmts
     \/ component = "vmt" /\ Vmt!Init /\ NoTables

InLedger(A) == component = "ledger" /\ A /\ UNCHANGED <<component, tables, vmts, ledger, phase>>
InTable(A) == component = "table" /\ A /\ UNCHANGED <<component, vars, vmts>>
InVmt(A) == component = "vmt" /\ A /\ UNCHANGED <<component, vars, tables>>

MCNext == InLedger(Next) \/ InTable(Table!Next) \/ InVmt(Vmt!Next)

\* The fairness of HookLedger.
MCSpec == MCInit /\ [][MCNext]_all /\ \A th \in Threads : WF_all(InLedger(Continue(th)))

-----------------------------------------------------------------------------
\* hook.cpp, install_all and HookStack: a table that is rolled back abandons no layer and leaves
\* the ledger as it found it, and a hook is leaked only under a layer of another owner.
TablesUnwind == [][component = "table" => Table!CleanRollback /\ Table!ForeignLeak]_all

\* hook.cpp, VmtHook: no object is left on the table of a clone that is gone, as long as permissive
\* hooks of one object are dropped newest first; every clone that
\* lives is known to the ledger, and what original() hands out is not a detour of the same hook.
VtablesAreSound == component = "vmt" => Vmt!VptrIsLive /\ Vmt!ClonesAreKnown /\ Vmt!OriginalsAreForeign
=============================================================================
