--------------------------- MODULE ProfilerProofs ---------------------------
(***************************************************************************)
(* Proofs about Profiler, for any capacity of the ring, any finite set of  *)
(* writers and any number of record() and reset() calls.                   *)
(*                                                                         *)
(* The sequence of a slot counts the writers between its two increments,   *)
(* modulo 2.  While no writer was lapped there is at most one of them, so  *)
(* an even sequence means that nobody writes; and while no reset ran it    *)
(* never goes down, so a reader that finds the number it began with knows  *)
(* that nobody wrote in between.                                           *)
(***************************************************************************)
EXTENDS Profiler, FiniteSetTheorems, TLAPS

\* m_capacity is at least one, and threads are finitely many.
Sizes == Capacity \in Nat \ {0} /\ IsFiniteSet(Writers)

Field == Nat \cup {Null}

\* A slot of the ring, a record() call in progress, and an export in progress.
Sample == [seq : Nat, name : Field, rest : Field]
Call == [pc : {"idle", "open", "name", "rest", "close"}, slot : Slots, call : Nat]
Walk == [pc : {"idle", "seq", "name", "rest", "check"}, i : Nat, count : Nat, start : Nat,
         seq : Nat, name : Field, rest : Field]

Types ==
  /\ writePos \in Nat /\ records \in Nat
  /\ ring \in [Slots -> Sample]
  /\ w \in [Writers -> Call]
  /\ reset \in [pc : {"idle", "seq", "name", "rest"}, slot : Slots]
  /\ reader \in Walk
  /\ exported \subseteq Field \X Field

\* The writers between the two increments of the sequence of a slot.
OpenAt(s) == {p \in Writers : w[p].pc \in {"name", "rest", "close"} /\ w[p].slot = s}

Parity == \A s \in Slots : ring[s].seq % 2 = Cardinality(OpenAt(s)) % 2

\* reset() and record() exclude one another, by contract.
ResetAlone ==
  /\ Resetting => InFlight = {}
  /\ reset.pc = "rest" => ring[reset.slot].name = Null

\* The writers in flight are in different slots; what a writer stored stays its own; and the
\* fields of a slot differ only while its writer, or reset(), is between them.
Apart == \A p, q \in InFlight : w[p].slot = w[q].slot => p = q
Stored == \A p \in Writers : w[p].pc = "rest" => ring[w[p].slot].name = w[p].call
Agree ==
  \A s \in Slots : \/ ring[s].name = ring[s].rest
                   \/ \E p \in Writers : w[p].pc = "rest" /\ w[p].slot = s
                   \/ reset.pc = "rest" /\ reset.slot = s

\* This holds while nobody was lapped.
SlotsApart == "lapped" \notin excused => Apart /\ Stored /\ Agree

\* What a reader knows while the sequence of its slot is the one it began with.
Seen ==
  excused = {} /\ Reading =>
    /\ ~Resetting
    /\ reader.pc # "seq" => reader.seq <= ring[ReadSlot].seq
    /\ reader.pc \in {"rest", "check"} =>
         /\ reader.seq % 2 = 0
         /\ reader.seq = ring[ReadSlot].seq => reader.name = ring[ReadSlot].name
    /\ reader.pc = "check" /\ reader.seq = ring[ReadSlot].seq => reader.rest = ring[ReadSlot].rest

PInv == Types /\ Parity /\ ResetAlone /\ SlotsApart /\ Seen /\ ExportIsWhole

-----------------------------------------------------------------------------
(* Facts about slots and the sets OpenAt. *)

\* The slot an export is at is one of the ring.
LEMMA ReadSlotInRange == ASSUME Sizes, Types PROVE ReadSlot \in Slots
<1>1. reader.start + reader.i \in Nat
  BY DEF Types, Walk
<1> QED
  BY <1>1 DEF Sizes, ReadSlot, Slots

\* The writers between the increments of a slot are finitely many.
LEMMA OpenIsFinite ==
  ASSUME Sizes PROVE \A s : IsFiniteSet(OpenAt(s)) /\ Cardinality(OpenAt(s)) \in Nat
BY Zenon, FS_Subset, FS_CardinalityType DEF Sizes, OpenAt

\* An increment of the sequence and a writer more, or less, keep the parities equal.
LEMMA ParityFlips ==
  ASSUME NEW m \in Nat, NEW n \in Nat, m % 2 = n % 2
  PROVE  (m + 1) % 2 = (n + 1) % 2 /\ (m + 1) % 2 = (n - 1) % 2
OBVIOUS

\* Without a lap the sequence of a slot is odd exactly while its writer has it open.
LEMMA OddIsOpen ==
  ASSUME Sizes, Types, Parity, SlotsApart, "lapped" \notin excused, NEW s \in Slots
  PROVE  (ring[s].seq % 2 = 0) <=> OpenAt(s) = {}
<1>1. CASE OpenAt(s) = {}
  BY <1>1, FS_EmptySet DEF Parity
<1>2. CASE OpenAt(s) # {}
  <2>1. PICK p \in Writers : p \in OpenAt(s)
    BY Zenon, <1>2 DEF OpenAt
  <2>2. OpenAt(s) = {p}
    BY Zenon, <2>1 DEF OpenAt, SlotsApart, Apart, InFlight
  <2>3. Cardinality(OpenAt(s)) = 1
    BY Zenon, <2>2, FS_Singleton
  <2> QED
    BY <1>2, <2>3 DEF Parity
<1> QED
  BY Zenon, <1>1, <1>2

-----------------------------------------------------------------------------
(* Every step keeps the invariant, one conjunct at a time. *)

\* Every step keeps the types.
LEMMA TypesStep == ASSUME Sizes, Types, [Next]_vars PROVE Types'
<1> USE DEF Types, Sample, Call, Walk
<1>1. ASSUME NEW p \in Writers, RecordClaim(p) PROVE Types'
  <2>1. writePos % Capacity \in Slots
    BY DEF Sizes, Slots
  <2> QED
    BY <1>1, <2>1 DEF RecordClaim
<1>2. ASSUME NEW p \in Writers, RecordOpen(p) \/ RecordName(p) \/ RecordRest(p)
      PROVE  Types'
  <2>1. w' \in [Writers -> Call]
    BY <1>2 DEF RecordOpen, RecordName, RecordRest, Step
  <2>2. ring' \in [Slots -> Sample]
    BY <1>2 DEF RecordOpen, RecordName, RecordRest, Field
  <2> QED
    BY Zenon, <1>2, <2>1, <2>2 DEF RecordOpen, RecordName, RecordRest
<1>3. ASSUME NEW p \in Writers, RecordClose(p) PROVE Types'
  <2>1. Idle \in Call
    BY DEF Idle, Sizes, Slots
  <2>2. ring' \in [Slots -> Sample]
    BY <1>3 DEF RecordClose
  <2> QED
    BY Zenon, <1>3, <2>1, <2>2 DEF RecordClose
<1>4. CASE ResetBegin
  BY <1>4 DEF ResetBegin, Sizes, Slots
<1>5. CASE ResetSeq \/ ResetName
  BY <1>5 DEF ResetSeq, ResetName, Field
<1>6. CASE ResetRest
  <2>1. reset' \in [pc : {"idle", "seq", "name", "rest"}, slot : Slots]
    BY <1>6 DEF ResetRest, Sizes, Slots
  <2>2. ring' \in [Slots -> Sample]
    BY <1>6 DEF ResetRest, Field
  <2> QED
    BY Zenon, <1>6, <2>1, <2>2 DEF ResetRest
<1>7. CASE ExportBegin
  <2>1. writePos % Capacity \in Nat
    BY DEF Sizes
  <2> QED
    BY Zenon, <1>7, <2>1 DEF ExportBegin, NoReader, Sizes, Field
<1>8. CASE ExportSeq \/ ExportName \/ ExportRest \/ ExportCheck
  <2>1. ring[ReadSlot] \in Sample
    BY Zenon, ReadSlotInRange
  <2>2. NextSample(reader) \in Walk
    <3>1. NoReader \in Walk
      BY Zenon DEF NoReader, Field
    <3>2. reader.i + 1 \in Nat
      OBVIOUS
    <3>3. [reader EXCEPT !.pc = "seq", !.i = reader.i + 1] \in Walk
      BY Zenon, <3>2
    <3> QED
      BY Zenon, <3>1, <3>3 DEF NextSample
  <2>3. CASE ExportSeq
    BY Zenon, <2>1, <2>3 DEF ExportSeq
  <2>4. CASE ExportName
    BY Zenon, <2>1, <2>2, <2>4 DEF ExportName
  <2>5. CASE ExportRest
    BY Zenon, <2>1, <2>5 DEF ExportRest
  <2>6. CASE ExportCheck
    <3>1. exported' \subseteq Field \X Field
      BY <2>6 DEF ExportCheck
    <3> QED
      BY Zenon, <2>2, <2>6, <3>1 DEF ExportCheck
  <2> QED
    BY Zenon, <1>8, <2>3, <2>4, <2>5, <2>6
<1>9. CASE Terminated \/ UNCHANGED vars
  BY Zenon, <1>9 DEF Terminated, vars
<1> QED
  BY Zenon, <1>1, <1>2, <1>3, <1>4, <1>5, <1>6, <1>7, <1>8, <1>9 DEF Next

\* record(): each increment of a sequence opens or closes its slot for one writer.
LEMMA ParityStep ==
  ASSUME Sizes, Types, Parity, ResetAlone, [Next]_vars PROVE Parity'
<1> USE DEF Types, Sample, Call, Walk
<1>1. ASSUME NEW p \in Writers, RecordClaim(p) PROVE Parity'
  <2>1. ring' = ring
    BY Zenon, <1>1 DEF RecordClaim
  <2>2. \A s : OpenAt(s)' = OpenAt(s)
    BY Zenon, <1>1 DEF RecordClaim, OpenAt
  <2> QED
    BY Zenon, <2>1, <2>2 DEF Parity
<1>2. ASSUME NEW p \in Writers, RecordOpen(p) PROVE Parity'
  <2> SUFFICES ASSUME NEW s \in Slots
               PROVE  ring'[s].seq % 2 = Cardinality(OpenAt(s)') % 2
    BY Zenon DEF Parity
  <2>1. CASE s = w[p].slot
    <3>1. OpenAt(s)' = OpenAt(s) \cup {p} /\ p \notin OpenAt(s)
      BY <1>2, <2>1 DEF RecordOpen, Step, OpenAt
    <3>2. Cardinality(OpenAt(s)') = Cardinality(OpenAt(s)) + 1
      BY Zenon, <3>1, OpenIsFinite, FS_AddElement
    <3>3. ring'[s].seq = ring[s].seq + 1
      BY Zenon, <1>2, <2>1 DEF RecordOpen
    <3> DEFINE m == ring[s].seq
               n == Cardinality(OpenAt(s))
    <3>4. m \in Nat /\ n \in Nat /\ m % 2 = n % 2
      BY Zenon, OpenIsFinite DEF Parity
    <3> HIDE DEF m, n
    <3>5. (m + 1) % 2 = (n + 1) % 2 /\ (m + 1) % 2 = (n - 1) % 2
      BY Zenon, <3>4, ParityFlips
    <3> QED
      BY Zenon, <3>2, <3>3, <3>5 DEF m, n
  <2>2. CASE s # w[p].slot
    <3>1. OpenAt(s)' = OpenAt(s)
      BY Zenon, <1>2, <2>2 DEF RecordOpen, Step, OpenAt
    <3>2. ring'[s] = ring[s]
      BY Zenon, <1>2, <2>2 DEF RecordOpen
    <3> QED
      BY Zenon, <3>1, <3>2 DEF Parity
  <2> QED
    BY Zenon, <2>1, <2>2
<1>3. ASSUME NEW p \in Writers, RecordName(p) \/ RecordRest(p) PROVE Parity'
  <2>1. \A s \in Slots : ring'[s].seq = ring[s].seq
    <3>1. CASE RecordName(p)
      BY <3>1 DEF RecordName, Types
    <3>2. CASE RecordRest(p)
      BY <3>2 DEF RecordRest, Types
    <3> QED
      BY Zenon, <1>3, <3>1, <3>2
  <2>2. \A s : OpenAt(s)' = OpenAt(s)
    BY <1>3 DEF RecordName, RecordRest, Step, OpenAt
  <2> QED
    BY Zenon, <2>1, <2>2 DEF Parity
<1>4. ASSUME NEW p \in Writers, RecordClose(p) PROVE Parity'
  <2> SUFFICES ASSUME NEW s \in Slots
               PROVE  ring'[s].seq % 2 = Cardinality(OpenAt(s)') % 2
    BY Zenon DEF Parity
  <2>1. CASE s = w[p].slot
    <3>1. OpenAt(s)' = OpenAt(s) \ {p} /\ p \in OpenAt(s)
      BY Zenon, <1>4, <2>1 DEF RecordClose, Idle, OpenAt
    <3>2. Cardinality(OpenAt(s)') = Cardinality(OpenAt(s)) - 1
      BY Zenon, <3>1, OpenIsFinite, FS_RemoveElement
    <3>3. ring'[s].seq = ring[s].seq + 1
      BY Zenon, <1>4, <2>1 DEF RecordClose
    <3> DEFINE m == ring[s].seq
               n == Cardinality(OpenAt(s))
    <3>4. m \in Nat /\ n \in Nat /\ m % 2 = n % 2
      BY Zenon, OpenIsFinite DEF Parity
    <3> HIDE DEF m, n
    <3>5. (m + 1) % 2 = (n + 1) % 2 /\ (m + 1) % 2 = (n - 1) % 2
      BY Zenon, <3>4, ParityFlips
    <3> QED
      BY Zenon, <3>2, <3>3, <3>5 DEF m, n
  <2>2. CASE s # w[p].slot
    <3>1. OpenAt(s)' = OpenAt(s)
      BY Zenon, <1>4, <2>2 DEF RecordClose, Idle, OpenAt
    <3>2. ring'[s] = ring[s]
      BY Zenon, <1>4, <2>2 DEF RecordClose
    <3> QED
      BY Zenon, <3>1, <3>2 DEF Parity
  <2> QED
    BY Zenon, <2>1, <2>2
<1>5. CASE ResetSeq
  <2>1. \A s : OpenAt(s)' = OpenAt(s) /\ OpenAt(s) = {}
    BY Zenon, <1>5 DEF ResetSeq, ResetAlone, Resetting, InFlight, OpenAt
  <2>2. Cardinality({}) = 0
    BY Zenon, FS_EmptySet
  <2>3. \A s \in Slots : ring'[s].seq \in {0, ring[s].seq}
    BY Zenon, <1>5 DEF ResetSeq
  <2> QED
    BY Zenon, <2>1, <2>2, <2>3 DEF Parity
<1>6. CASE \/ ResetBegin \/ ResetName \/ ResetRest \/ Terminated \/ UNCHANGED vars
           \/ ExportBegin \/ ExportSeq \/ ExportName \/ ExportRest \/ ExportCheck
  <2>1. w' = w /\ \A s \in Slots : ring'[s].seq = ring[s].seq
    BY <1>6 DEF ResetBegin, ResetName, ResetRest, Terminated, vars,
                ExportBegin, ExportSeq, ExportName, ExportRest, ExportCheck
  <2>2. \A s : OpenAt(s)' = OpenAt(s)
    BY Zenon, <2>1 DEF OpenAt
  <2> QED
    BY Zenon, <2>1, <2>2 DEF Parity
<1> QED
  BY Zenon, <1>1, <1>2, <1>3, <1>4, <1>5, <1>6 DEF Next

\* reset() and record() stay apart.
LEMMA ResetAloneStep ==
  ASSUME Sizes, Types, ResetAlone, [Next]_vars PROVE ResetAlone'
<1> USE DEF Types, Sample, Call, ResetAlone, Resetting, InFlight
<1>1. ASSUME NEW p \in Writers, RecordClaim(p) PROVE ResetAlone'
  BY Zenon, <1>1 DEF RecordClaim
<1>2. ASSUME NEW p \in Writers,
             RecordOpen(p) \/ RecordName(p) \/ RecordRest(p) \/ RecordClose(p)
      PROVE  ResetAlone'
  <2>1. reset.pc = "idle" /\ reset' = reset
    BY Zenon, <1>2 DEF RecordOpen, RecordName, RecordRest, RecordClose
  <2> QED
    BY Zenon, <2>1
<1>3. CASE ResetBegin \/ ResetSeq \/ ResetName \/ ResetRest
  BY <1>3 DEF ResetBegin, ResetSeq, ResetName, ResetRest
<1>4. CASE \/ ExportBegin \/ ExportSeq \/ ExportName \/ ExportRest \/ ExportCheck
           \/ Terminated \/ UNCHANGED vars
  BY Zenon, <1>4 DEF ExportBegin, ExportSeq, ExportName, ExportRest, ExportCheck, Terminated, vars
<1> QED
  BY Zenon, <1>1, <1>2, <1>3, <1>4 DEF Next

\* What the export was exposed to is never forgotten.
LEMMA ExcusedGrows == ASSUME [Next]_vars PROVE excused \subseteq excused'
BY Zenon DEF Next, vars, RecordClaim, RecordOpen, RecordName, RecordRest, RecordClose, ResetBegin,
       ResetSeq, ResetName, ResetRest, ExportBegin, ExportSeq, ExportName, ExportRest,
       ExportCheck, Terminated

\* record(): while nobody is lapped, a slot is written by one call at a time.
LEMMA SlotsApartStep ==
  ASSUME Sizes, Types, ResetAlone, SlotsApart, [Next]_vars PROVE SlotsApart'
<1> SUFFICES ASSUME "lapped" \notin excused' PROVE Apart' /\ Stored' /\ Agree'
  BY Zenon DEF SlotsApart
<1>0. "lapped" \notin excused /\ Apart /\ Stored /\ Agree
  BY Zenon, ExcusedGrows DEF SlotsApart
<1> USE DEF Types, Sample, Call, Walk
<1>1. ASSUME NEW p \in Writers, RecordClaim(p) PROVE Apart' /\ Stored' /\ Agree'
  <2>1. \A q \in InFlight : w[q].slot # writePos % Capacity
    BY Zenon, <1>1 DEF RecordClaim
  <2>2. Apart'
    BY Zenon, <1>0, <1>1, <2>1 DEF RecordClaim, Apart, InFlight
  <2>3. Stored' /\ Agree'
    BY Zenon, <1>0, <1>1 DEF RecordClaim, Stored, Agree
  <2> QED
    BY Zenon, <2>2, <2>3
<1>2. ASSUME NEW p \in Writers, RecordOpen(p) PROVE Apart' /\ Stored' /\ Agree'
  <2>1. Apart'
    BY Zenon, <1>0, <1>2 DEF RecordOpen, Step, Apart, InFlight
  <2>2. Stored' /\ Agree'
    BY <1>0, <1>2 DEF RecordOpen, Step, Stored, Agree
  <2> QED
    BY Zenon, <2>1, <2>2
<1>3. ASSUME NEW p \in Writers, RecordName(p) PROVE Apart' /\ Stored' /\ Agree'
  <2>1. Apart'
    BY Zenon, <1>0, <1>3 DEF RecordName, Step, Apart, InFlight
  <2>2. Stored'
    BY <1>0, <1>3 DEF RecordName, Step, Stored, Apart, InFlight
  <2>3. Agree'
    BY <1>0, <1>3 DEF RecordName, Step, Agree
  <2> QED
    BY Zenon, <2>1, <2>2, <2>3
<1>4. ASSUME NEW p \in Writers, RecordRest(p) PROVE Apart' /\ Stored' /\ Agree'
  <2>1. Apart' /\ Stored'
    BY <1>0, <1>4 DEF RecordRest, Step, Apart, Stored, InFlight
  <2>2. Agree'
    BY <1>0, <1>4 DEF RecordRest, Step, Agree, Stored
  <2> QED
    BY Zenon, <2>1, <2>2
<1>5. ASSUME NEW p \in Writers, RecordClose(p) PROVE Apart' /\ Stored' /\ Agree'
  <2>1. Apart'
    BY Zenon, <1>0, <1>5 DEF RecordClose, Idle, Apart, InFlight
  <2>2. Stored' /\ Agree'
    BY <1>0, <1>5 DEF RecordClose, Idle, Stored, Agree
  <2> QED
    BY Zenon, <2>1, <2>2
<1>6. CASE ResetBegin \/ ResetSeq
  BY <1>0, <1>6 DEF ResetBegin, ResetSeq, Resetting, Apart, Stored, Agree, InFlight
<1>7. CASE ResetName \/ ResetRest
  BY <1>0, <1>7 DEF ResetName, ResetRest, ResetAlone, Resetting, Apart, Stored, Agree, InFlight
<1>8. CASE \/ ExportBegin \/ ExportSeq \/ ExportName \/ ExportRest \/ ExportCheck
           \/ Terminated \/ UNCHANGED vars
  <2>1. UNCHANGED <<ring, w, reset>>
    BY Zenon, <1>8 DEF ExportBegin, ExportSeq, ExportName, ExportRest, ExportCheck, Terminated, vars
  <2> QED
    BY Zenon, <1>0, <2>1 DEF Apart, Stored, Agree, InFlight
<1> QED
  BY Zenon, <1>1, <1>2, <1>3, <1>4, <1>5, <1>6, <1>7, <1>8 DEF Next

\* A store of a writer to the slot an export is reading: the reader can tell.
LEMMA SeenStep ==
  ASSUME Sizes, Types, Parity, ResetAlone, SlotsApart, Seen, [Next]_vars PROVE Seen'
<1> SUFFICES ASSUME excused' = {} PROVE Seen'
  BY Zenon DEF Seen
<1>0. excused = {}
  BY Zenon, ExcusedGrows
<1>r. ReadSlot \in Slots
  BY Zenon, ReadSlotInRange
<1> USE DEF Types, Sample, Call, Walk
<1>1. ASSUME NEW p \in Writers, RecordClaim(p) PROVE Seen'
  BY Zenon, <1>0, <1>1 DEF RecordClaim, Seen, Reading, Resetting, ReadSlot
<1>2. ASSUME NEW p \in Writers, RecordOpen(p) \/ RecordClose(p) PROVE Seen'
  <2>1. UNCHANGED <<reader, reset>> /\ ReadSlot' = ReadSlot
    BY Zenon, <1>2 DEF RecordOpen, RecordClose, ReadSlot
  <2>2. \/ ring'[ReadSlot] = ring[ReadSlot]
        \/ ring'[ReadSlot].seq = ring[ReadSlot].seq + 1
    BY <1>2, <1>r DEF RecordOpen, RecordClose
  <2> QED
    BY <1>0, <1>r, <2>1, <2>2 DEF Seen, Reading, Resetting
<1>3. ASSUME NEW p \in Writers, RecordName(p) \/ RecordRest(p) PROVE Seen'
  <2>1. UNCHANGED <<reader, reset>> /\ ReadSlot' = ReadSlot
    BY Zenon, <1>3 DEF RecordName, RecordRest, ReadSlot
  <2>2. ring'[ReadSlot].seq = ring[ReadSlot].seq
    BY <1>3, <1>r DEF RecordName, RecordRest
  <2>3. CASE ring'[ReadSlot] = ring[ReadSlot]
    BY Zenon, <1>0, <2>1, <2>3 DEF Seen, Reading, Resetting
  <2>4. CASE w[p].slot = ReadSlot
    <3>1. p \in OpenAt(ReadSlot)
      BY Zenon, <1>3, <2>4 DEF RecordName, RecordRest, OpenAt
    <3>2. ring[ReadSlot].seq % 2 # 0
      BY Zenon, <1>0, <1>r, <3>1, OddIsOpen
    <3> QED
      BY Zenon, <1>0, <2>1, <2>2, <3>2 DEF Seen, Reading, Resetting
  <2> QED
    BY Zenon, <1>3, <1>r, <2>3, <2>4 DEF RecordName, RecordRest
<1>4. CASE ResetBegin \/ ResetSeq \/ ResetName \/ ResetRest
  BY Zenon, <1>0, <1>4 DEF ResetBegin, ResetSeq, ResetName, ResetRest, Seen, Reading, Resetting
<1>5. CASE ExportBegin
  BY Zenon, <1>0, <1>5 DEF ExportBegin, NoReader, Seen, Reading, Resetting
<1>6. CASE ExportSeq \/ ExportName \/ ExportRest
  <2>1. \/ reader'.start = reader.start /\ reader'.i = reader.i
        \/ reader'.pc \in {"idle", "seq"}
    <3>1. CASE ExportSeq
      BY Zenon, <3>1 DEF ExportSeq
    <3>2. CASE ExportName
      BY Zenon, <3>2 DEF ExportName, NextSample, NoReader
    <3>3. CASE ExportRest
      BY Zenon, <3>3 DEF ExportRest
    <3> QED
      BY Zenon, <1>6, <3>1, <3>2, <3>3
  <2>2. CASE reader'.pc \in {"idle", "seq"}
    BY Zenon, <1>0, <1>6, <2>2 DEF ExportSeq, ExportName, ExportRest, Seen, Reading, Resetting
  <2>3. CASE ExportSeq /\ ReadSlot' = ReadSlot
    BY <1>0, <1>r, <2>3 DEF ExportSeq, Seen, Reading, Resetting
  <2>4. CASE ExportName /\ ReadSlot' = ReadSlot /\ reader'.pc \notin {"idle", "seq"}
    <3>1. /\ reader.seq % 2 # 1
          /\ reader' = [reader EXCEPT !.pc = "rest", !.name = ring[ReadSlot].name]
      BY Zenon, <2>4 DEF ExportName, NextSample, NoReader
    <3> DEFINE m == reader.seq
    <3>2. m \in Nat
      OBVIOUS
    <3>3. m % 2 = 0 \/ m % 2 = 1
      <4> HIDE DEF m
      <4> QED BY <3>2
    <3> QED
      BY Zenon, <1>0, <1>r, <2>4, <3>1, <3>3 DEF ExportName, Seen, Reading, Resetting
  <2>5. CASE ExportRest /\ ReadSlot' = ReadSlot
    BY Zenon, <1>0, <1>r, <2>5 DEF ExportRest, Seen, Reading, Resetting
  <2> QED
    BY Zenon, <1>6, <2>1, <2>2, <2>3, <2>4, <2>5 DEF ReadSlot
<1>7. CASE ExportCheck
  BY Zenon, <1>0, <1>7 DEF ExportCheck, NextSample, NoReader, Seen, Reading, Resetting
<1>8. CASE Terminated \/ UNCHANGED vars
  BY Zenon, <1>0, <1>8 DEF Terminated, vars, Seen, Reading, Resetting, ReadSlot
<1> QED
  BY Zenon, <1>1, <1>2, <1>3, <1>4, <1>5, <1>6, <1>7, <1>8 DEF Next

\* The second look at an even sequence that has not changed: the pair read is one call's.
LEMMA ExportIsWholeStep ==
  ASSUME Sizes, Types, Parity, SlotsApart, Seen, ExportIsWhole, [Next]_vars
  PROVE  ExportIsWhole'
<1> SUFFICES ASSUME excused' = {} PROVE \A e \in exported' : e[1] = e[2]
  BY Zenon DEF ExportIsWhole
<1>0. excused = {}
  BY Zenon, ExcusedGrows
<1>1. CASE ExportCheck
  <2> SUFFICES ASSUME ring[ReadSlot].seq = reader.seq PROVE reader.name = reader.rest
    BY <1>0, <1>1 DEF ExportCheck, ExportIsWhole
  <2>1. ReadSlot \in Slots
    BY Zenon, ReadSlotInRange
  <2>2. /\ ~Resetting /\ reader.seq % 2 = 0
        /\ reader.name = ring[ReadSlot].name /\ reader.rest = ring[ReadSlot].rest
    BY Zenon, <1>0, <1>1 DEF ExportCheck, Seen, Reading
  <2>3. OpenAt(ReadSlot) = {}
    BY Zenon, <1>0, <2>1, <2>2, OddIsOpen
  <2>4. ring[ReadSlot].name = ring[ReadSlot].rest
    BY Zenon, <1>0, <2>1, <2>2, <2>3 DEF SlotsApart, Agree, OpenAt, Resetting
  <2> QED
    BY Zenon, <2>2, <2>4
<1>2. CASE exported' = exported
  BY Zenon, <1>0, <1>2 DEF ExportIsWhole
<1> QED
  BY Zenon, <1>1, <1>2
  DEF Next, vars, RecordClaim, RecordOpen, RecordName, RecordRest, RecordClose, ResetBegin,
      ResetSeq, ResetName, ResetRest, ExportBegin, ExportSeq, ExportName, ExportRest, Terminated

-----------------------------------------------------------------------------

\* The ring begins empty.
LEMMA PInvInit == ASSUME Sizes, Init PROVE PInv
<1>1. Types
  BY DEF Sizes, Init, Types, Sample, Call, Walk, Slots, Idle, NoReader, Field
<1>2. \A s : OpenAt(s) = {}
  BY Zenon DEF Init, Idle, OpenAt
<1>3. Parity
  BY Zenon, <1>2, FS_EmptySet DEF Init, Parity
<1>4. ResetAlone /\ SlotsApart
  BY Zenon DEF Init, Idle, ResetAlone, SlotsApart, Apart, Stored, Agree, Resetting, InFlight
<1>5. Seen /\ ExportIsWhole
  BY Zenon DEF Init, NoReader, Seen, Reading, ExportIsWhole
<1> QED
  BY Zenon, <1>1, <1>3, <1>4, <1>5 DEF PInv

\* When nobody is between the two increments, every sequence is even.
LEMMA QuietIsEven == ASSUME PInv PROVE QuietIsCommitted
<1> SUFFICES ASSUME InFlight = {}, NEW s \in Slots PROVE ring[s].seq % 2 = 0
  BY Zenon DEF QuietIsCommitted
<1>1. OpenAt(s) = {}
  BY Zenon DEF OpenAt, InFlight
<1> QED
  BY <1>1, FS_EmptySet DEF PInv, Parity

\* profiler.cpp, record(), reset() and export_chrome_json(): whatever the capacity of the ring
\* and however many threads record, the export writes no sample whose fields come from two
\* calls, unless a writer was lapped or a reset() ran during the export; and lapped or not, a
\* quiet ring holds committed samples only.
THEOREM SamplesStayWhole == ASSUME Sizes PROVE Spec => []SamplesAreWhole
<1>1. Init => PInv
  BY Zenon, PInvInit
<1>2. PInv /\ [Next]_vars => PInv'
  BY Zenon, TypesStep, ParityStep, ResetAloneStep, SlotsApartStep, SeenStep, ExportIsWholeStep DEF PInv
<1>3. PInv => SamplesAreWhole
  BY Zenon, QuietIsEven DEF PInv, SamplesAreWhole
<1> QED
  BY <1>1, <1>2, <1>3, PTL DEF Spec
=============================================================================
