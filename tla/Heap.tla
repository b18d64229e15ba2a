--------------------------------- MODULE Heap ---------------------------------
(***************************************************************************)
(* The kernel heap: heapAllocate, heapExpand and heapFree (heap.cpp) over  *)
(* the first-fit list of k_freelist_allocator (freelist_allocator.cpp).    *)
(*                                                                         *)
(* The list is the sequence of its chunk headers from "head" along "next": *)
(* addr is where the header lies, size and used are its fields; the        *)
(* payload is the size bytes that follow the header.  The merge loop is    *)
(* taken one iteration at a time; no other operation starts before the     *)
(* running one is over (one processor, interrupts off).                    *)
(***************************************************************************)
EXTENDS Lists

CONSTANTS
  Header,        \* sizeof(k_chunk_header)
  PageSize,      \* PAGE_SIZE
  HeapStart,     \* K_CONST_HEAP_DEFAULT_START
  InitialEnd,    \* K_CONST_HEAP_DEFAULT_END
  Step,          \* K_HEAP_EXPANSION_STEP
  MaxExpansion,  \* K_CONST_HEAP_MAX_EXPANSION
  Frames,        \* physical pages the machine has for the heap
  Sizes          \* the sizes callers ask for (heapAllocate(0) changes nothing)

ASSUME HeapConstants ==
  /\ Header \in Nat \ {0} /\ PageSize \in Nat \ {0} /\ 2 * Header <= PageSize
  /\ HeapStart \in Nat /\ InitialEnd \in Nat /\ HeapStart < InitialEnd
  /\ (InitialEnd - HeapStart) % PageSize = 0
  /\ Step \in Nat \ {0} /\ MaxExpansion \in Nat
  /\ Sizes \subseteq Nat \ {0}
  /\ Frames \in Nat /\ Frames >= (InitialEnd - HeapStart) \div PageSize + 1

VARIABLES
  chunks,   \* the chunk list
  heapEnd, heapUsed,
  mappedTo, \* first address above the pages mapped for the heap
  frames,   \* physical pages left
  pc,       \* "idle", "expand", "merge", "retry", "panic"
  curr,     \* mergeChunks: index of the chunk the loop is at
  op        \* the call the merge belongs to: freeing op.size bytes, or expanding
            \* for a request of op.size bytes

vars == <<chunks, heapEnd, heapUsed, mappedTo, frames, pc, curr, op>>

Chunk == [addr : Nat, size : Nat, used : BOOLEAN]
EndOf(c) == c.addr + Header + c.size

PagesIn(bytes) == bytes \div PageSize

MutantInitialPages == PagesIn(InitialEnd - HeapStart)

\* heapInitialize maps one page more than the heap has.
InitialPages == PagesIn(InitialEnd - HeapStart) + 1

Init ==
  /\ chunks = <<[addr |-> HeapStart, size |-> InitialEnd - HeapStart, used |-> FALSE]>>
  /\ heapEnd = InitialEnd
  /\ heapUsed = 0
  /\ mappedTo = HeapStart + PageSize * InitialPages
  /\ frames = Frames - InitialPages
  /\ pc = "idle"
  /\ curr = 1
  /\ op = [kind |-> "free", size |-> 0]

-------------------------------------------------------------------------------
Fits(c, size) == ~c.used /\ c.size >= Header + size

FirstFit(i, size) ==
  /\ Fits(chunks[i], size)
  /\ \A j \in 1..(i - 1) : ~Fits(chunks[j], size)

Cut(c, size) == [addr |-> c.addr, size |-> size, used |-> TRUE]

MutantRest(c, size) ==
  [addr |-> c.addr + size, size |-> c.size - (Header + size), used |-> FALSE]

Rest(c, size) ==
  [addr |-> c.addr + Header + size, size |-> c.size - (Header + size), used |-> FALSE]

\* The list after chunk i has been cut to size and its rest made a free chunk.
Split(i, size) ==
  InsertAt([chunks EXCEPT ![i] = Cut(chunks[i], size)], i + 1, Rest(chunks[i], size))

MutantTryAllocate(size) ==
  /\ \E i \in DOMAIN chunks : FirstFit(i, size) /\ chunks' = Split(i, size)
  /\ heapUsed' = heapUsed + Header + size
  /\ pc' = "idle"
  /\ UNCHANGED <<heapEnd, mappedTo, frames, curr, op>>

\* k_freelist_allocator::allocate, and heapAllocate around it.
TryAllocate(size) ==
  \/ \E i \in DOMAIN chunks :
       /\ FirstFit(i, size)
       /\ chunks' = Split(i, size)
       /\ heapUsed' = heapUsed + size
       /\ pc' = "idle"
       /\ UNCHANGED <<heapEnd, mappedTo, frames, curr, op>>
  \/ /\ \A i \in DOMAIN chunks : ~Fits(chunks[i], size)
     /\ pc' = "expand"
     /\ op' = [kind |-> "expand", size |-> size]
     /\ UNCHANGED <<chunks, heapEnd, heapUsed, mappedTo, frames, curr>>

HeapAllocate(size) == pc = "idle" /\ TryAllocate(size)

\* heapAllocate calls itself again after heapExpand has succeeded.
RetryAllocate == pc = "retry" /\ TryAllocate(op.size)

\* A frame is taken for every page from heapStart on, though the pages below
\* heapEnd are mapped already and keep their frames.
FramesToExpand == PagesIn(heapEnd + Step - HeapStart + PageSize - 1)

\* Where the mapped pages end once n pages from heapStart on have been mapped.
MappedBy(n) ==
  IF mappedTo > HeapStart + PageSize * n THEN mappedTo ELSE HeapStart + PageSize * n

\* heapExpand up to and including the new tail chunk of k_freelist_allocator::expand.
HeapExpand ==
  /\ pc = "expand"
  /\ heapEnd + Step <= MaxExpansion
  /\ frames >= FramesToExpand
  /\ frames' = frames - FramesToExpand
  /\ mappedTo' = MappedBy(FramesToExpand)
  /\ chunks' = Append(chunks, [addr |-> EndOf(Last(chunks)), size |-> Step, used |-> FALSE])
  /\ pc' = "merge"
  /\ curr' = 1
  /\ UNCHANGED <<heapEnd, heapUsed, op>>

\* heapExpand returns false (no room, or the frames ran out on the way) and
\* heapAllocate calls kernelPanic, which never returns.
ExpandFails ==
  /\ pc = "expand"
  /\ heapEnd + Step > MaxExpansion \/ frames < FramesToExpand
  /\ IF heapEnd + Step > MaxExpansion THEN UNCHANGED <<mappedTo, frames>>
     ELSE mappedTo' = MappedBy(frames) /\ frames' = 0
  /\ pc' = "panic"
  /\ UNCHANGED <<chunks, heapEnd, heapUsed, curr, op>>

\* heapFree of the payload of chunk i; freeing a free chunk returns at once.
HeapFree(i) ==
  /\ pc = "idle"
  /\ chunks[i].used
  /\ chunks' = [chunks EXCEPT ![i] = [addr |-> @.addr, size |-> @.size, used |-> FALSE]]
  /\ op' = [kind |-> "free", size |-> chunks[i].size]
  /\ pc' = "merge"
  /\ curr' = 1
  /\ UNCHANGED <<heapEnd, heapUsed, mappedTo, frames>>

-------------------------------------------------------------------------------
(* mergeChunks, one iteration, and what follows its return.                *)

MutantMergeableNonEmpty(c, d) == ~c.used /\ ~d.used /\ d.size > 0

Mergeable(c, d) == ~c.used /\ ~d.used

MutantJoin(c, d) == [addr |-> c.addr, size |-> c.size + Header + d.size, used |-> c.used]

\* The header of d is not added: its bytes belong to no chunk any more.
Join(c, d) == [addr |-> c.addr, size |-> c.size + d.size, used |-> c.used]

\* The list after chunk i has taken in its successor.
Merged(i) ==
  RemoveAt([chunks EXCEPT ![i] = Join(chunks[i], chunks[i + 1])], i + 1)

MutantMergeNext ==
  /\ pc = "merge"
  /\ curr < Len(chunks)
  /\ chunks' = IF Mergeable(chunks[curr], chunks[curr + 1]) THEN Merged(curr) ELSE chunks
  /\ UNCHANGED <<heapEnd, heapUsed, mappedTo, frames, pc, curr, op>>

MutantMergeNextInto ==
  /\ pc = "merge"
  /\ curr < Len(chunks)
  /\ IF ~chunks[curr + 1].used
     THEN chunks' = Merged(curr) /\ UNCHANGED curr
     ELSE curr' = curr + 1 /\ UNCHANGED chunks
  /\ UNCHANGED <<heapEnd, heapUsed, mappedTo, frames, pc, op>>

MergeNext ==
  /\ pc = "merge"
  /\ curr < Len(chunks)
  /\ IF Mergeable(chunks[curr], chunks[curr + 1])
     THEN /\ chunks' = Merged(curr)
          /\ UNCHANGED curr
     ELSE /\ curr' = curr + 1
          /\ UNCHANGED chunks
  /\ UNCHANGED <<heapEnd, heapUsed, mappedTo, frames, pc, op>>

AtTail == curr = Len(chunks)

MergeDone ==
  /\ pc = "merge"
  /\ AtTail
  /\ \/ /\ op.kind = "free"
        /\ heapUsed' = heapUsed - op.size
        /\ pc' = "idle"
        /\ UNCHANGED heapEnd
     \/ /\ op.kind = "expand"
        /\ heapEnd' = heapEnd + Step
        /\ pc' = "retry"
        /\ UNCHANGED heapUsed
  /\ UNCHANGED <<chunks, mappedTo, frames, curr, op>>

Next ==
  \/ \E size \in Sizes : HeapAllocate(size)
  \/ RetryAllocate
  \/ HeapExpand
  \/ ExpandFails
  \/ \E i \in DOMAIN chunks : HeapFree(i)
  \/ MergeNext
  \/ MergeDone

Spec == Init /\ [][Next]_vars

\* A call that has started runs to its end: nothing preempts it.
FairSpec == Spec /\ WF_vars(RetryAllocate \/ HeapExpand \/ ExpandFails \/ MergeNext \/ MergeDone)
-------------------------------------------------------------------------------
(* Correctness.                                                            *)

\* The variables have their types: no size is negative, and the merge loop stays
\* in the list.
TypeOK ==
  /\ chunks \in Seq(Chunk) /\ chunks # <<>>
  /\ heapEnd \in Nat /\ heapUsed \in Int /\ mappedTo \in Nat /\ frames \in Nat
  /\ pc \in {"idle", "expand", "merge", "retry", "panic"}
  /\ curr \in 1..Len(chunks)
  /\ op \in [kind : {"free", "expand"}, size : Nat]

\* No chunk (header and payload) overlaps a later one, so no two callers of
\* heapAllocate share a byte and no payload reaches into a header: splitting in
\* allocate, merging in mergeChunks and appending in expand keep the list in order.
ChunksDisjoint ==
  \A i, j \in DOMAIN chunks : i < j => EndOf(chunks[i]) <= chunks[j].addr

\* Every payload handed out lies below heapEnd, although init gives the first
\* chunk a header more than there is: allocate always leaves a free tail chunk,
\* and the excess is only ever that chunk's.
PayloadsInHeap ==
  \A i \in DOMAIN chunks :
     chunks[i].used => HeapStart <= chunks[i].addr /\ EndOf(chunks[i]) <= heapEnd

\* Between calls no two neighbours are free: mergeChunks leaves nothing to merge
\* and allocate never creates a free chunk next to another.
NoFreeNeighbours ==
  pc \in {"idle", "expand", "retry"} =>
    \A i \in 1..(Len(chunks) - 1) : ~Mergeable(chunks[i], chunks[i + 1])

\* The payload bytes of the used chunks of a list s.
UsedBytes(s) == Total([i \in 1..Len(s) |-> IF s[i].used THEN s[i].size ELSE 0], Len(s))

\* heapUsed is the number of payload bytes in use, whatever was split, merged,
\* expanded and retried in between (heapAllocate adds once per call, heapFree
\* subtracts what free found in the header).
HeapUsedExact == pc # "merge" => heapUsed = UsedBytes(chunks)

\* Until the heap has been expanded every header the allocator writes lies in
\* mapped memory, even when the heap is full to the last byte: heapInitialize
\* maps a page more than the heap has.
HeadersMappedUntilExpanded ==
  heapEnd = InitialEnd => \A i \in DOMAIN chunks : chunks[i].addr + Header <= mappedTo

UsedChunks == {chunks[i] : i \in {j \in DOMAIN chunks : chunks[j].used}}

\* A chunk in use is moved, resized or taken away by no step but the heapFree
\* of it, in particular not by the merging and expanding done for other callers.
OnlyFreeTakesAway ==
  [][UsedChunks \subseteq UsedChunks' \/ \E i \in DOMAIN chunks : HeapFree(i)
       /\ UsedChunks \ {chunks[i]} \subseteq UsedChunks']_vars

Payload(c) == [base |-> c.addr + Header, size |-> c.size]

Promise == INSTANCE BlockAllocator
             WITH Floor <- HeapStart, live <- {Payload(c) : c \in UsedChunks}, limit <- heapEnd

\* The heap is an allocator: seen through its payloads in use, every step of
\* allocate, free, mergeChunks and expand is a step of BlockAllocator or none.
HeapIsAllocator == Promise!Spec

\* heapAllocate and heapFree return or panic: mergeChunks reaches the end of the
\* list and heapAllocate does not expand and retry for ever.
CallsReturn == (pc # "idle") ~> (pc \in {"idle", "panic"})
=============================================================================
