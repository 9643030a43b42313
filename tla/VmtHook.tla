------------------------------ MODULE VmtHook -------------------------------
(***************************************************************************)
(* Virtual-table hooks (hook.cpp, VmtHook and vmt_for; hook_ledger.hpp,    *)
(* the clone entries).  A hook clones the table of a seed object and moves *)
(* the pointer of that object, and of others, to the clone; methods are    *)
(* redirected inside the clone.                                            *)
(*                                                                         *)
(* A table is a class of the host or the base address of a clone, which is *)
(* used again once the clone is freed.  Each thread runs a script; every   *)
(* transition of an object's pointer happens under the process-wide object *)
(* gate and is one step.  The backend (SafetyHook) is external: a clone    *)
(* copies the table the object is on, remembers each object's table, and   *)
(* when it goes puts back those objects that are still on it.              *)
(***************************************************************************)
EXTENDS Integers, FiniteSets, Sequences, TLC

CONSTANTS Threads, Handles, Objects, Bases, Methods, Scenarios, None

Class == "class"
NoClone == [live |-> FALSE]

VARIABLES vptr,      \* object -> the table it is on
          clone,     \* base -> the clone that lies there
          handle,    \* handle -> [id, base] or None
          ledger,    \* the recorded clones: a set of [id, base]
          script, pc, dying, nextId

vars == <<vptr, clone, handle, ledger, script, pc, dying, nextId>>

Init ==
  \E s \in Scenarios :
    /\ vptr = [o \in Objects |-> Class]
    /\ clone = [b \in Bases |-> NoClone]
    /\ handle = [h \in Handles |-> None]
    /\ ledger = {} /\ script = s
    /\ pc = [t \in Threads |-> "idle"] /\ dying = [t \in Threads |-> None]
    /\ nextId = 1

Takes(t, what) == pc[t] = "idle" /\ script[t] # <<>> /\ Head(script[t]).do = what
Advance(t) == script' = [script EXCEPT ![t] = Tail(@)]
Call(t) == Head(script[t])

\* HookLedger::is_vmt_clone_base.
IsVmtCloneBase(b) == \E e \in ledger : e.base = b

\* looks_like_function_vmt_slot and count_vmt_method_slots, of a table: slots 1 .. n are
\* functions of the host or detours.
SlotsOf(b) == IF b = Class THEN [i \in Methods |-> "body"] ELSE clone[b].slot

-----------------------------------------------------------------------------
(* vmt_for. *)

Create(t) ==
  /\ Takes(t, "create") /\ Advance(t)
  /\ LET o == Call(t).object
         refused == Call(t).strict /\ IsVmtCloneBase(vptr[o])
         here == vptr[o]
     IN \/ /\ refused
           /\ UNCHANGED <<vptr, clone, handle, ledger, nextId>>
        \/ \* No reference on the module, a malformed table, or the backend fails.
           /\ ~ refused
           /\ UNCHANGED <<vptr, clone, handle, ledger, nextId>>
        \/ \* The ledger has no memory: the clone is undone before anybody sees it.
           /\ ~ refused /\ nextId' = nextId + 1
           /\ UNCHANGED <<vptr, clone, handle, ledger>>
        \/ \E b \in {x \in Bases : ~ clone[x].live} :
             /\ ~ refused
             /\ clone' = [clone EXCEPT ![b] = [live |-> TRUE, slot |-> SlotsOf(here), saved |-> (o :> here),
                                               method |-> <<>>]]
             /\ vptr' = [vptr EXCEPT ![o] = b]
             /\ ledger' = ledger \cup {[id |-> nextId, base |-> b]}
             /\ handle' = [handle EXCEPT ![Call(t).h] = [id |-> nextId, base |-> b]]
             /\ nextId' = nextId + 1
  /\ UNCHANGED <<pc, dying>>

-----------------------------------------------------------------------------
(* apply_to and remove_from. *)

\* The strict call is a no-op on this hook's clone and refused on another's.  The backend
\* remembers the table of an object it does not know yet; it may fail.
Apply(t) ==
  /\ Takes(t, "apply") /\ Advance(t)
  /\ LET o == Call(t).object
         h == Call(t).h
         b == handle[h].base
     IN IF handle[h] = None \/ (Call(t).strict /\ (vptr[o] = b \/ IsVmtCloneBase(vptr[o])))
        THEN UNCHANGED <<vptr, clone>>
        ELSE \/ /\ clone' = [clone EXCEPT ![b].saved = @ @@ (o :> vptr[o])]
                /\ vptr' = [vptr EXCEPT ![o] = b]
             \/ UNCHANGED <<vptr, clone>>
  /\ UNCHANGED <<handle, ledger, pc, dying, nextId>>

\* The backend puts back an object that is on this clone, and forgets it.
Remove(t) ==
  /\ Takes(t, "remove") /\ Advance(t)
  /\ LET o == Call(t).object
         h == Call(t).h
         b == handle[h].base
     IN IF handle[h] = None \/ o \notin DOMAIN clone[b].saved THEN UNCHANGED <<vptr, clone>>
        ELSE /\ vptr' = [vptr EXCEPT ![o] = IF @ = b THEN clone[b].saved[o] ELSE @]
             /\ clone' = [clone EXCEPT ![b].saved = [x \in DOMAIN @ \ {o} |-> @[x]]]
  /\ UNCHANGED <<handle, ledger, pc, dying, nextId>>

-----------------------------------------------------------------------------
(* hook_method_raw and remove_method, under the method lock. *)

\* One hook per slot: a second one would take the first detour for the original.
HookMethod(t) ==
  /\ Takes(t, "hook") /\ Advance(t)
  /\ LET h == Call(t).h
         b == handle[h].base
         i == Call(t).method
     IN IF handle[h] = None \/ i \notin Methods \/ i \in DOMAIN clone[b].method THEN UNCHANGED clone
        ELSE clone' = [clone EXCEPT ![b].method = @ @@ (i :> clone[b].slot[i]),
                                    ![b].slot[i] = h]
  /\ UNCHANGED <<vptr, handle, ledger, pc, dying, nextId>>

RemoveMethod(t) ==
  /\ Takes(t, "unhook") /\ Advance(t)
  /\ LET h == Call(t).h
         b == handle[h].base
         i == Call(t).method
     IN IF handle[h] = None \/ i \notin DOMAIN clone[b].method THEN UNCHANGED clone
        ELSE clone' = [clone EXCEPT ![b].slot[i] = clone[b].method[i],
                                    ![b].method = [x \in DOMAIN @ \ {i} |-> @[x]]]
  /\ UNCHANGED <<vptr, handle, ledger, pc, dying, nextId>>

-----------------------------------------------------------------------------
(* release and ~VmtHook. *)

\* release, and a destructor under the loader lock or without the gate: the clone stays, and so
\* does its entry.
Release(t) ==
  /\ Takes(t, "release") /\ Advance(t)
  /\ handle' = [handle EXCEPT ![Call(t).h] = None]
  /\ UNCHANGED <<vptr, clone, ledger, pc, dying, nextId>>

DropKeepsObjects(t) ==
  /\ Takes(t, "drop") /\ Advance(t)
  /\ handle' = [handle EXCEPT ![Call(t).h] = None]
  /\ IF handle[Call(t).h] = None THEN UNCHANGED <<clone, pc, dying>>
     ELSE /\ clone' = [clone EXCEPT ![handle[Call(t).h].base] = NoClone]
          /\ dying' = [dying EXCEPT ![t] = handle[Call(t).h]]
          /\ pc' = [pc EXCEPT ![t] = "entry"]
  /\ UNCHANGED <<vptr, ledger, nextId>>

\* The pointers first, under the gate, while the ledger still knows the clone.
Drop(t) ==
  /\ Takes(t, "drop") /\ Advance(t)
  /\ handle' = [handle EXCEPT ![Call(t).h] = None]
  /\ IF handle[Call(t).h] = None THEN UNCHANGED <<vptr, clone, pc, dying>>
     ELSE LET b == handle[Call(t).h].base
          IN /\ vptr' = [o \in Objects |-> IF vptr[o] = b /\ o \in DOMAIN clone[b].saved
                                           THEN clone[b].saved[o] ELSE vptr[o]]
             /\ clone' = [clone EXCEPT ![b] = NoClone]
             /\ dying' = [dying EXCEPT ![t] = handle[Call(t).h]]
             /\ pc' = [pc EXCEPT ![t] = "entry"]
  /\ UNCHANGED <<ledger, nextId>>

\* HookLedger::release_vmt: by id, for the base may belong to a new clone already.
ReleaseVmt(t) ==
  /\ pc[t] = "entry"
  /\ ledger' = ledger \ {dying[t]}
  /\ pc' = [pc EXCEPT ![t] = "idle"] /\ dying' = [dying EXCEPT ![t] = None]
  /\ UNCHANGED <<vptr, clone, handle, script, nextId>>

Next ==
  \E t \in Threads :
    \/ Create(t) \/ Apply(t) \/ Remove(t) \/ HookMethod(t) \/ RemoveMethod(t)
    \/ Release(t) \/ Drop(t) \/ ReleaseVmt(t)

Spec == Init /\ [][Next]_vars

-----------------------------------------------------------------------------
\* hook.cpp, vmt_for, apply_to, remove_from, ~VmtHook: no object is ever left on the table of a
\* clone that is gone, whoever hooks it and in whatever order strict hooks, or hooks dropped
\* newest first, come and go.
VptrIsLive == \A o \in Objects : vptr[o] = Class \/ clone[vptr[o]].live

\* hook_ledger.hpp, try_record_vmt and release_vmt: a clone that lives is known to the ledger, so
\* that a strict hook never takes it for a table of the host.
ClonesAreKnown == \A b \in Bases : clone[b].live => IsVmtCloneBase(b)

\* hook.cpp, hook_method_raw: a slot holds its detour exactly while the method is hooked, and
\* what original() hands out is never a detour of the same hook.
OriginalsAreForeign ==
  \A h \in Handles : handle[h] # None =>
    \A i \in Methods :
      LET c == clone[handle[h].base]
      IN (c.slot[i] = h) = (i \in DOMAIN c.method) /\ (i \in DOMAIN c.method => c.method[i] # h)

\* hook.hpp, HookStack: "VmtHook already restores its applied objects newest-first inside its own
\* destructor and is not order-tracked by the ledger, so it needs no external ordering wrapper".
NeedsNoOrder == VptrIsLive
=============================================================================
