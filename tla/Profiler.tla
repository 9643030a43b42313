------------------------------ MODULE Profiler ------------------------------
(***************************************************************************)
(* The profiler's ring of samples (profiler.cpp): record() from several    *)
(* threads, export_chrome_json() walking the ring at the same time, and    *)
(* reset() between two sessions.  Every slot is a sequence lock.           *)
(*                                                                         *)
(* A record() call is a number.  The four payload fields are read and      *)
(* written one at a time; two of them, the name and the rest, are enough   *)
(* to see a torn sample.                                                   *)
(***************************************************************************)
EXTENDS Naturals, FiniteSets, FiniteSetsExt

CONSTANTS
    Writers,        \* threads that call record()
    Capacity,       \* m_capacity, a power of two
    MaxRecords,     \* bound on record() calls
    MaxResets,      \* bound on reset() calls
    Null            \* an empty payload field

VARIABLES
    writePos,       \* m_write_pos
    ring,           \* per slot: seq, name, rest
    w,              \* per writer: pc, slot and the call it is recording
    records,        \* record() calls begun
    reset,          \* reset(): the slot and field it is at, or idle
    resets,
    reader,         \* export: pc, position, count, start, seq, name, rest
    exported,       \* pairs <<name, rest>> written to the trace
    excused         \* "lapped" or "reset": what the export was exposed to

vars == <<writePos, ring, w, records, reset, resets, reader, exported, excused>>

Slots == 0 .. Capacity - 1
Fields == 0 .. MaxRecords
Idle == [pc |-> "idle", slot |-> 0, call |-> 0]
NoReader == [pc |-> "idle", i |-> 0, count |-> 0, start |-> 0, seq |-> 0,
             name |-> Null, rest |-> Null]

Init ==
    /\ writePos = 0 /\ ring = [s \in Slots |-> [seq |-> 0, name |-> Null, rest |-> Null]]
    /\ w = [p \in Writers |-> Idle] /\ records = 0
    /\ reset = [pc |-> "idle", slot |-> 0] /\ resets = 0
    /\ reader = NoReader /\ exported = {} /\ excused = {}

TypeOK ==
    /\ writePos \in 0 .. MaxRecords /\ records \in 0 .. MaxRecords
    /\ \A s \in Slots : /\ ring[s].seq \in 0 .. 2 * MaxRecords
                        /\ ring[s].name \in Fields \cup {Null}
                        /\ ring[s].rest \in Fields \cup {Null}
    /\ resets \in 0 .. MaxResets /\ excused \subseteq {"lapped", "reset"}

InFlight == {p \in Writers : w[p].pc # "idle"}
Resetting == reset.pc # "idle"
Reading == reader.pc # "idle"

---------------------------------------------------------------------------
(* record(): claim a slot, open it, write the fields, close it.            *)
RecordClaim(p) ==
    /\ w[p].pc = "idle" /\ records < MaxRecords /\ ~Resetting
    /\ LET s == writePos % Capacity IN
       /\ w' = [w EXCEPT ![p] = [pc |-> "open", slot |-> s, call |-> records + 1]]
       /\ excused' = IF \E q \in InFlight : w[q].slot = s
                     THEN excused \cup {"lapped"} ELSE excused
    /\ writePos' = writePos + 1 /\ records' = records + 1
    /\ UNCHANGED <<ring, reset, resets, reader, exported>>

Step(p, pc) == w' = [w EXCEPT ![p].pc = pc]

RecordOpen(p) ==
    /\ w[p].pc = "open" /\ Step(p, "name")
    /\ ring' = [ring EXCEPT ![w[p].slot].seq = @ + 1]
    /\ UNCHANGED <<writePos, records, reset, resets, reader, exported, excused>>

RecordName(p) ==
    /\ w[p].pc = "name" /\ Step(p, "rest")
    /\ ring' = [ring EXCEPT ![w[p].slot].name = w[p].call]
    /\ UNCHANGED <<writePos, records, reset, resets, reader, exported, excused>>

RecordRest(p) ==
    /\ w[p].pc = "rest" /\ Step(p, "close")
    /\ ring' = [ring EXCEPT ![w[p].slot].rest = w[p].call]
    /\ UNCHANGED <<writePos, records, reset, resets, reader, exported, excused>>

RecordClose(p) ==
    /\ w[p].pc = "close" /\ w' = [w EXCEPT ![p] = Idle]
    /\ ring' = [ring EXCEPT ![w[p].slot].seq = @ + 1]
    /\ UNCHANGED <<writePos, records, reset, resets, reader, exported, excused>>

---------------------------------------------------------------------------
(* reset(): no record() is in flight, by contract; an export may be.       *)
ResetBegin ==
    /\ ~Resetting /\ resets < MaxResets /\ InFlight = {}
    /\ writePos' = 0 /\ resets' = resets + 1
    /\ reset' = [pc |-> "seq", slot |-> 0]
    /\ excused' = IF Reading THEN excused \cup {"reset"} ELSE excused
    /\ UNCHANGED <<ring, w, records, reader, exported>>

ResetSeq ==
    /\ reset.pc = "seq"
    /\ ring' = [ring EXCEPT ![reset.slot].seq = 0]
    /\ reset' = [reset EXCEPT !.pc = "name"]
    /\ UNCHANGED <<writePos, w, records, resets, reader, exported, excused>>

ResetName ==
    /\ reset.pc = "name"
    /\ ring' = [ring EXCEPT ![reset.slot].name = Null]
    /\ reset' = [reset EXCEPT !.pc = "rest"]
    /\ UNCHANGED <<writePos, w, records, resets, reader, exported, excused>>

ResetRest ==
    /\ reset.pc = "rest"
    /\ ring' = [ring EXCEPT ![reset.slot].rest = Null]
    /\ reset' = IF reset.slot + 1 = Capacity THEN [pc |-> "idle", slot |-> 0]
                ELSE [pc |-> "seq", slot |-> reset.slot + 1]
    /\ UNCHANGED <<writePos, w, records, resets, reader, exported, excused>>

---------------------------------------------------------------------------
(* export_chrome_json(): the surviving samples, oldest first, each read    *)
(* between two looks at its sequence.                                      *)
ExportBegin ==
    /\ ~Reading /\ writePos > 0 /\ exported = {}
    /\ reader' = [NoReader EXCEPT !.pc = "seq",
                    !.count = IF writePos < Capacity THEN writePos ELSE Capacity,
                    !.start = IF writePos > Capacity THEN writePos % Capacity ELSE 0]
    /\ excused' = IF Resetting THEN excused \cup {"reset"} ELSE excused
    /\ UNCHANGED <<writePos, ring, w, records, reset, resets, exported>>

ReadSlot == (reader.start + reader.i) % Capacity
NextSample(rd) ==
    IF rd.i + 1 = rd.count THEN NoReader ELSE [rd EXCEPT !.pc = "seq", !.i = @ + 1]

ExportSeq ==
    /\ reader.pc = "seq"
    /\ reader' = [reader EXCEPT !.pc = "name", !.seq = ring[ReadSlot].seq]
    /\ UNCHANGED <<writePos, ring, w, records, reset, resets, exported, excused>>

ExportName ==
    /\ reader.pc = "name"
    /\ reader' = IF reader.seq % 2 = 1 \/ ring[ReadSlot].name = Null
                 THEN NextSample(reader)
                 ELSE [reader EXCEPT !.pc = "rest", !.name = ring[ReadSlot].name]
    /\ UNCHANGED <<writePos, ring, w, records, reset, resets, exported, excused>>

ExportRest ==
    /\ reader.pc = "rest"
    /\ reader' = [reader EXCEPT !.pc = "check", !.rest = ring[ReadSlot].rest]
    /\ UNCHANGED <<writePos, ring, w, records, reset, resets, exported, excused>>

ChecksParity ==
    /\ reader.pc = "check"
    /\ exported' = IF ring[ReadSlot].seq % 2 = 0
                   THEN exported \cup {<<reader.name, reader.rest>>} ELSE exported
    /\ reader' = NextSample(reader)
    /\ UNCHANGED <<writePos, ring, w, records, reset, resets, excused>>

ExportCheck ==
    /\ reader.pc = "check"
    /\ exported' = IF ring[ReadSlot].seq = reader.seq
                   THEN exported \cup {<<reader.name, reader.rest>>} ELSE exported
    /\ reader' = NextSample(reader)
    /\ UNCHANGED <<writePos, ring, w, records, reset, resets, excused>>

---------------------------------------------------------------------------
Terminated ==
    /\ records = MaxRecords /\ resets = MaxResets /\ InFlight = {}
    /\ ~Resetting /\ ~Reading
    /\ UNCHANGED vars

Next ==
    \/ \E p \in Writers : \/ RecordClaim(p) \/ RecordOpen(p) \/ RecordName(p)
                          \/ RecordRest(p) \/ RecordClose(p)
    \/ ResetBegin \/ ResetSeq \/ ResetName \/ ResetRest
    \/ ExportBegin \/ ExportSeq \/ ExportName \/ ExportRest \/ ExportCheck
    \/ Terminated

Spec == Init /\ [][Next]_vars

---------------------------------------------------------------------------
(* Every sample the export writes was recorded by one record() call: its   *)
(* fields are never those of two calls.  Excepted are the lap record()'s   *)
(* design note accepts (a writer stalled for a whole turn of the ring) and *)
(* a reset() during the export.                                            *)
ExportIsWhole == excused = {} => \A e \in exported : e[1] = e[2]

(* Whatever the interleaving, a lap included, once no record() is in       *)
(* flight every slot is committed: its sequence is even, so an export      *)
(* does not lose it for good.                                              *)
QuietIsCommitted ==
    InFlight = {} => \A s \in Slots : ring[s].seq % 2 = 0

(* What an export may rely on.                                             *)
SamplesAreWhole == ExportIsWhole /\ QuietIsCommitted

(* reset() stores its fields atomically because "a cold-path export() may  *)
(* still be walking the buffer": an export across a reset() is whole too.  *)
WholeAcrossReset == "lapped" \notin excused => \A e \in exported : e[1] = e[2]
============================================================================
