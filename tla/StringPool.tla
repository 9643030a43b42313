----------------------------- MODULE StringPool -----------------------------
(***************************************************************************)
(* The strings behind long log messages (StringPool and LogMessage in       *)
(* internal/async_logger.cpp).                                              *)
(*                                                                         *)
(* A LogMessage too long for its buffer owns a string: a slot of a block of *)
(* the pool, or one of the heap when the pool is full or the message too    *)
(* long for it.  Messages are constructed, moved and destroyed by any       *)
(* thread; an object is used by one thread at a time, which the ring sees   *)
(* to (MPMCQueue, SlotExclusion).  Every allocation may fail.               *)
(***************************************************************************)
EXTENDS Naturals, Sequences, SequencesExt, FiniteSets

CONSTANTS
    Threads,
    Objects,       \* LogMessage objects: locals, slots of the ring, batches
    SlotsPerBlock, \* POOL_SLOTS_PER_BLOCK
    MaxBlocks,     \* MEMORY_POOL_BLOCK_COUNT
    MaxTexts,      \* how many messages are logged
    None

VARIABLES
    blocks,    \* the free list of each block, oldest block first
    str,       \* what each string of the pool or the heap holds; 0 is nothing
    m_heap_fallback_count,
    m_pool_mutex,
    obj,       \* the objects: dead, or [overflow, text]; text is what was logged
    job,       \* per thread: what it is in the middle of
    texts      \* messages logged so far

vars == <<blocks, str, m_heap_fallback_count, m_pool_mutex, obj, job, texts>>

Slots == (1 .. MaxBlocks) \X (1 .. SlotsPerBlock)
Heap == {0} \X (1 .. MaxTexts)
Live == {p \in Heap : str[p] # None}

Dead == [alive |-> FALSE, overflow |-> None, text |-> 0]
Empty == [alive |-> TRUE, overflow |-> None, text |-> 0]
Idle == [pc |-> "idle", obj |-> None, from |-> None, ptr |-> None, text |-> 0]

Fresh(b) == [i \in 1 .. SlotsPerBlock |-> <<b, i>>]

\* The constructor of the pool grows it, if there is memory.
Init ==
    /\ blocks \in {<<>>, <<Fresh(1)>>}
    /\ str = [p \in Slots \cup Heap |-> IF p \in Slots THEN 0 ELSE None]
    /\ m_heap_fallback_count = 0
    /\ m_pool_mutex = None
    /\ obj = [o \in Objects |-> Dead]
    /\ job = [t \in Threads |-> Idle]
    /\ texts = 0

-----------------------------------------------------------------------------
(* The pool.                                                               *)

\* claim_free_slot: of the newest block that has one.
Claimable == {b \in DOMAIN blocks : blocks[b] # <<>>}
Newest == CHOOSE b \in Claimable : \A c \in Claimable : c <= b

\* A heap string that is not in use.
Unused == CHOOSE p \in Heap : str[p] = None

Goto(t, pc, ptr) == job' = [job EXCEPT ![t].pc = pc, ![t].ptr = ptr]

\* allocate(size <= MAX_POOLED_STRING_SIZE), under the mutex: a free slot, one of
\* a new block (grow_pool_locked, which may find no memory), or the heap.
AllocatePooled(t) ==
    /\ job[t].pc = "allocate"
    /\ m_pool_mutex = None
    /\ \/ /\ Claimable # {}
          /\ blocks' = [blocks EXCEPT ![Newest] = Tail(@)]
          /\ Goto(t, "assign", Head(blocks[Newest]))
          /\ str' = [str EXCEPT ![Head(blocks[Newest])] = 0]
          /\ UNCHANGED m_heap_fallback_count
       \/ /\ Claimable = {}
          /\ Len(blocks) < MaxBlocks
          /\ blocks' = Append(blocks, Tail(Fresh(Len(blocks) + 1)))
          /\ Goto(t, "assign", Fresh(Len(blocks) + 1)[1])
          /\ UNCHANGED <<str, m_heap_fallback_count>>
       \/ /\ Claimable = {}
          /\ str' = [str EXCEPT ![Unused] = 0]
          /\ m_heap_fallback_count' = m_heap_fallback_count + 1
          /\ Goto(t, "assign", Unused)
          /\ UNCHANGED blocks
       \/ /\ Claimable = {}
          /\ Goto(t, "assign", None)
          /\ UNCHANGED <<blocks, str, m_heap_fallback_count>>
    /\ UNCHANGED <<m_pool_mutex, obj, texts>>

\* allocate of a longer one: the heap, without the mutex.
AllocateHeap(t) ==
    /\ job[t].pc = "new"
    /\ \/ str' = [str EXCEPT ![Unused] = 0] /\ Goto(t, "count", Unused)
       \/ Goto(t, "assign", None) /\ UNCHANGED str
    /\ UNCHANGED <<blocks, m_heap_fallback_count, m_pool_mutex, obj, texts>>

CountHeap(t) ==
    /\ job[t].pc = "count"
    /\ m_heap_fallback_count' = m_heap_fallback_count + 1
    /\ Goto(t, "assign", job[t].ptr)
    /\ UNCHANGED <<blocks, str, m_pool_mutex, obj, texts>>

\* Where a thread goes on once its string is returned: the constructor that
\* could not fill it, a move assignment, or the destructor.
After(j) ==
    CASE j.pc = "unassigned" -> "construct"
      [] j.pc = "replace" -> "take"
      [] j.pc = "destroy" -> "die"

Returning == {"unassigned", "replace", "destroy"}

\* deallocate, under the mutex: a slot goes back to its block, and a heap string
\* is deleted and uncounted.
Deallocate(t) ==
    LET p == job[t].ptr
    IN  /\ job[t].pc \in Returning
        /\ p # None
        /\ m_pool_mutex = None
        /\ \/ /\ p \in Slots
              /\ str' = [str EXCEPT ![p] = 0]
              /\ blocks' = [blocks EXCEPT ![p[1]] = <<p>> \o @]
              /\ Goto(t, After(job[t]), None)
              /\ UNCHANGED m_pool_mutex
           \/ /\ p \in Heap
              /\ str' = [str EXCEPT ![p] = None]
              /\ IF m_heap_fallback_count > 0
                 THEN m_pool_mutex' = t /\ Goto(t, job[t].pc, None)
                 ELSE Goto(t, After(job[t]), None) /\ UNCHANGED m_pool_mutex
              /\ UNCHANGED blocks
    /\ UNCHANGED <<m_heap_fallback_count, obj, texts>>

Uncount(t) ==
    /\ m_pool_mutex = t
    /\ m_heap_fallback_count' = m_heap_fallback_count - 1
    /\ m_pool_mutex' = None
    /\ Goto(t, After(job[t]), None)
    /\ UNCHANGED <<blocks, str, obj, texts>>

\* deallocate(nullptr), and reset of a message without a string.
NothingToReturn(t) ==
    /\ job[t].pc \in Returning
    /\ m_pool_mutex # t
    /\ job[t].ptr = None
    /\ Goto(t, After(job[t]), None)
    /\ UNCHANGED <<blocks, str, m_heap_fallback_count, m_pool_mutex, obj, texts>>

-----------------------------------------------------------------------------
(* The messages.                                                           *)

Free(o) == \A t \in Threads : job[t].pc # "idle" => o \notin {job[t].obj, job[t].from}

\* LogMessage(level, msg): short, for the pool, or too long for it.
Construct(t, o) ==
    /\ job[t].pc = "idle"
    /\ ~obj[o].alive
    /\ Free(o)
    /\ texts < MaxTexts
    /\ texts' = texts + 1
    /\ \/ /\ obj' = [obj EXCEPT ![o] = [Empty EXCEPT !.text = texts + 1]]
          /\ UNCHANGED job
       \/ \E pc \in {"allocate", "new"} :
            /\ job' = [job EXCEPT ![t] = [Idle EXCEPT !.pc = pc, !.obj = o, !.text = texts + 1]]
            /\ UNCHANGED obj
    /\ UNCHANGED <<blocks, str, m_heap_fallback_count, m_pool_mutex>>

\* overflow->assign, which may throw; without a string the message is empty.
Assign(t) ==
    /\ job[t].pc = "assign"
    /\ \/ /\ job[t].ptr # None
          /\ str' = [str EXCEPT ![job[t].ptr] = job[t].text]
          /\ obj' = [obj EXCEPT ![job[t].obj] =
                       [Empty EXCEPT !.overflow = job[t].ptr, !.text = job[t].text]]
          /\ job' = [job EXCEPT ![t] = Idle]
       \/ /\ Goto(t, "unassigned", job[t].ptr)
          /\ UNCHANGED <<str, obj>>
    /\ UNCHANGED <<blocks, m_heap_fallback_count, m_pool_mutex, texts>>

\* The constructor returns a message it could not store.
ConstructEmpty(t) ==
    /\ job[t].pc = "construct"
    /\ obj' = [obj EXCEPT ![job[t].obj] = Empty]
    /\ job' = [job EXCEPT ![t] = Idle]
    /\ UNCHANGED <<blocks, str, m_heap_fallback_count, m_pool_mutex, texts>>

\* LogMessage(LogMessage&&)
MoveConstruct(t, from, to) ==
    /\ job[t].pc = "idle"
    /\ obj[from].alive /\ ~obj[to].alive
    /\ Free(from) /\ Free(to)
    /\ obj' = [obj EXCEPT ![to] = obj[from], ![from] = Empty]
    /\ UNCHANGED <<blocks, str, m_heap_fallback_count, m_pool_mutex, job, texts>>

\* Mutant: the source keeps its pointer.
TakeShared(t) ==
    /\ job[t].pc = "take"
    /\ obj' = [obj EXCEPT ![job[t].obj] = obj[job[t].from]]
    /\ job' = [job EXCEPT ![t] = Idle]
    /\ UNCHANGED <<blocks, str, m_heap_fallback_count, m_pool_mutex, texts>>

\* operator=(LogMessage&&), once reset() has returned the string it had.
Take(t) ==
    /\ job[t].pc = "take"
    /\ obj' = [obj EXCEPT ![job[t].obj] = obj[job[t].from], ![job[t].from] = Empty]
    /\ job' = [job EXCEPT ![t] = Idle]
    /\ UNCHANGED <<blocks, str, m_heap_fallback_count, m_pool_mutex, texts>>

\* operator=(LogMessage&&) begins with reset(), unless it moves to itself.
MoveAssign(t, from, to) ==
    /\ job[t].pc = "idle"
    /\ from # to
    /\ obj[from].alive /\ obj[to].alive
    /\ Free(from) /\ Free(to)
    /\ job' = [job EXCEPT ![t] = [Idle EXCEPT !.pc = "replace", !.obj = to, !.from = from,
                                    !.ptr = obj[to].overflow]]
    /\ obj' = [obj EXCEPT ![to] = Empty]
    /\ UNCHANGED <<blocks, str, m_heap_fallback_count, m_pool_mutex, texts>>

\* ~LogMessage is reset().
Destroy(t, o) ==
    /\ job[t].pc = "idle"
    /\ obj[o].alive
    /\ Free(o)
    /\ job' = [job EXCEPT ![t] = [Idle EXCEPT !.pc = "destroy", !.obj = o,
                                    !.ptr = obj[o].overflow]]
    /\ obj' = [obj EXCEPT ![o] = Empty]
    /\ UNCHANGED <<blocks, str, m_heap_fallback_count, m_pool_mutex, texts>>

Die(t) ==
    /\ job[t].pc = "die"
    /\ obj' = [obj EXCEPT ![job[t].obj] = Dead]
    /\ job' = [job EXCEPT ![t] = Idle]
    /\ UNCHANGED <<blocks, str, m_heap_fallback_count, m_pool_mutex, texts>>

Step(t) ==
    \/ AllocatePooled(t) \/ AllocateHeap(t) \/ CountHeap(t)
    \/ Deallocate(t) \/ Uncount(t) \/ NothingToReturn(t)
    \/ Assign(t) \/ ConstructEmpty(t) \/ Take(t) \/ Die(t)
    \/ \E o \in Objects : Construct(t, o) \/ Destroy(t, o)
    \/ \E from, to \in Objects : MoveConstruct(t, from, to) \/ MoveAssign(t, from, to)

Next == \E t \in Threads : Step(t)

Spec == Init /\ [][Next]_vars

-----------------------------------------------------------------------------
(* Properties.                                                             *)

\* Who has a string: objects, and threads that are handing one over.
Owners(p) ==
    {o \in Objects : obj[o].overflow = p} \cup {t \in Threads : job[t].ptr = p}

InUse(b) == {p \in Slots : p[1] = b /\ Owners(p) # {}}

TypeOK ==
    /\ Len(blocks) <= MaxBlocks
    /\ m_heap_fallback_count \in 0 .. MaxTexts
    /\ m_pool_mutex \in Threads \cup {None}
    /\ \A t \in Threads : job[t].ptr \in Slots \cup Heap \cup {None}

\* StringPool and LogMessage: a string has one owner or none, and a slot without
\* one is once in the free list of its own block, so that nothing is returned
\* twice, leaked or handed out while in use, whatever is moved where.
OneOwner ==
    /\ \A p \in Slots \cup Heap : Cardinality(Owners(p)) <= 1
    /\ \A b \in DOMAIN blocks :
         /\ IsInjective(blocks[b])
         /\ Range(blocks[b]) = {p \in Slots : p[1] = b} \ InUse(b)
    /\ \A p \in Heap : Owners(p) # {} <=> p \in Live

\* A message that is alive and owns a string reads what was logged into it.
TextIsKept ==
    \A o \in Objects : obj[o].overflow # None => str[obj[o].overflow] = obj[o].text

\* m_heap_fallback_count, which the pool reports as leaked when it is destroyed:
\* the heap strings that exist, but for one being created and one being deleted.
HeapCountIsExact ==
    m_heap_fallback_count + Cardinality({t \in Threads : job[t].pc = "count"})
      = Cardinality(Live) + (IF m_pool_mutex = None THEN 0 ELSE 1)

\* async_logger.cpp, StringPool and LogMessage: every string is owned once, kept
\* intact while it is, and accounted for.
StringsAreOwned == TypeOK /\ OneOwner /\ TextIsKept /\ HeapCountIsExact
=============================================================================
