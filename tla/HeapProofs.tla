------------------------------ MODULE HeapProofs ------------------------------
(* The kernel heap hands out disjoint memory inside the heap: proofs.      *)
EXTENDS Heap, ListLemmas

USE SMTT(20), ZenonT(20)  \* the provers of a leaf that names none

\* The tail chunk is free and ends at most one header above heapEnd; while
\* heapExpand merges the chunk it has appended, at most two above the new end,
\* and then the chunk before it is free, so that the loop will merge the two.
TailInv ==
  /\ ~chunks[Len(chunks)].used
  /\ IF pc = "merge" /\ op.kind = "expand"
     THEN IF curr < Len(chunks)
          THEN /\ ~chunks[Len(chunks) - 1].used
               /\ EndOf(chunks[Len(chunks)]) <= heapEnd + Step + Header + Header
          ELSE EndOf(chunks[Len(chunks)]) <= heapEnd + Step + Header
     ELSE EndOf(chunks[Len(chunks)]) <= heapEnd + Header

\* No free neighbours, but behind the place the merge loop has reached.
MergedSoFar ==
  \A i \in 1..(Len(chunks) - 1) :
     pc # "merge" \/ i < curr => ~Mergeable(chunks[i], chunks[i + 1])

RequestInv ==
  /\ op.kind = "expand" => op.size \in Sizes
  /\ pc \in {"expand", "retry"} => op.kind = "expand"

AboveStart == \A i \in DOMAIN chunks : HeapStart <= chunks[i].addr

PositiveUsed == \A i \in DOMAIN chunks : chunks[i].used => chunks[i].size > 0

IInv ==
  /\ TypeOK /\ ChunksDisjoint /\ PayloadsInHeap
  /\ TailInv /\ MergedSoFar /\ RequestInv /\ AboveStart /\ PositiveUsed

-------------------------------------------------------------------------------
\* The fields of a listed chunk are numbers; its end lies behind its header.
LEMMA ChunkFacts ==
  ASSUME TypeOK, NEW j \in DOMAIN chunks
  PROVE  /\ chunks[j] \in Chunk /\ chunks[j].addr \in Nat /\ chunks[j].size \in Nat
         /\ EndOf(chunks[j]) \in Nat /\ EndOf(chunks[j]) = chunks[j].addr + Header + chunks[j].size
         /\ chunks[j].used \in BOOLEAN
<1>1. chunks[j] \in Chunk
  BY DEF TypeOK
<1> QED
  BY <1>1, HeapConstants DEF Chunk, EndOf

\* Split(i, size), element by element: allocate cuts chunk i in two.
LEMMA SplitElements ==
  ASSUME TypeOK, NEW size \in Nat, NEW i \in DOMAIN chunks, Fits(chunks[i], size)
  PROVE  /\ Split(i, size) \in Seq(Chunk)
         /\ Len(Split(i, size)) = Len(chunks) + 1
         /\ \A j \in 1..(i - 1) : Split(i, size)[j] = chunks[j]
         /\ Split(i, size)[i] = Cut(chunks[i], size)
         /\ Split(i, size)[i + 1] = Rest(chunks[i], size)
         /\ \A j \in (i + 2)..(Len(chunks) + 1) : Split(i, size)[j] = chunks[j - 1]
<1> DEFINE cut == [chunks EXCEPT ![i] = Cut(chunks[i], size)]
<1>1. chunks \in Seq(Chunk) /\ i \in 1..Len(chunks) /\ chunks[i] \in Chunk
  BY DEF TypeOK
<1>2. /\ cut \in Seq(Chunk) /\ Len(cut) = Len(chunks)
      /\ cut[i] = Cut(chunks[i], size)
      /\ \A j \in 1..Len(chunks) : j # i => cut[j] = chunks[j]
  <2>1. Cut(chunks[i], size) \in Chunk
    BY <1>1 DEF Cut, Chunk
  <2> QED
    BY <1>1, <2>1
<1>3. Rest(chunks[i], size) \in Chunk
  BY <1>1, HeapConstants DEF Rest, Fits, Chunk
<1> DEFINE rest == Rest(chunks[i], size)  k == i + 1  new == InsertAt(cut, k, rest)
<1>4. Split(i, size) = new
  BY DEF Split
<1>5. cut \in Seq(Chunk) /\ rest \in Chunk /\ k \in 1..(Len(cut) + 1)
  BY <1>1, <1>2, <1>3
<1> HIDE DEF cut, rest, k
<1>6. /\ new \in Seq(Chunk)
      /\ Len(new) = Len(cut) + 1
      /\ \A j \in 1..(k - 1) : new[j] = cut[j]
      /\ new[k] = rest
      /\ \A j \in (k + 1)..(Len(cut) + 1) : new[j] = cut[j - 1]
  <2>1. Inserted(Chunk, cut, k, rest, new)
    BY <1>5, InsertAtElements, Zenon
  <2> QED
    BY <2>1, Zenon DEF Inserted
<1> HIDE DEF new
<1>7. /\ new \in Seq(Chunk) /\ Len(new) = Len(chunks) + 1
      /\ new[i] = Cut(chunks[i], size) /\ new[i + 1] = rest
      /\ \A j \in 1..(i - 1) : new[j] = chunks[j]
  BY <1>1, <1>2, <1>6 DEF k
<1>8. ASSUME NEW j \in (i + 2)..(Len(chunks) + 1)
      PROVE  new[j] = chunks[j - 1]
  <2>1. j \in (k + 1)..(Len(cut) + 1)
    BY <1>1, <1>2 DEF k
  <2>2. j - 1 \in 1..Len(chunks) /\ j - 1 # i
    BY <1>1
  <2> QED
    BY <1>2, <1>6, <2>1, <2>2
<1> QED
  BY <1>4, <1>7, <1>8 DEF rest

\* Merged(i), element by element: mergeChunks joins chunk i with the next.
LEMMA MergedElements ==
  ASSUME TypeOK, NEW i \in 1..(Len(chunks) - 1)
  PROVE  /\ Merged(i) \in Seq(Chunk)
         /\ Len(Merged(i)) = Len(chunks) - 1
         /\ \A j \in 1..(i - 1) : Merged(i)[j] = chunks[j]
         /\ Merged(i)[i] = Join(chunks[i], chunks[i + 1])
         /\ \A j \in (i + 1)..(Len(chunks) - 1) : Merged(i)[j] = chunks[j + 1]
<1> DEFINE new == Join(chunks[i], chunks[i + 1])
<1>1. /\ chunks \in Seq(Chunk) /\ i \in 1..Len(chunks) /\ i + 1 \in 1..Len(chunks)
      /\ chunks[i] \in Chunk /\ chunks[i + 1] \in Chunk
  BY DEF TypeOK
<1>2. new \in Chunk
  <2>1. \A c, d \in Chunk : Join(c, d) \in Chunk
    BY DEF Join, Chunk
  <2> QED
    BY <1>1, <2>1
<1>3. Merged(i) = JoinAt(chunks, i, new)
  BY DEF Merged, JoinAt
<1> HIDE DEF new
<1>4. chunks \in Seq(Chunk) /\ new \in Chunk /\ i \in 1..(Len(chunks) - 1)
  BY <1>1, <1>2
<1>5. /\ JoinAt(chunks, i, new) \in Seq(Chunk)
      /\ Len(JoinAt(chunks, i, new)) = Len(chunks) - 1
      /\ \A j \in 1..(i - 1) : JoinAt(chunks, i, new)[j] = chunks[j]
      /\ JoinAt(chunks, i, new)[i] = new
      /\ \A j \in (i + 1)..(Len(chunks) - 1) : JoinAt(chunks, i, new)[j] = chunks[j + 1]
  BY <1>4, JoinElements
<1> QED
  BY <1>3, <1>5 DEF new
-------------------------------------------------------------------------------
\* The heap as heapInitialize leaves it satisfies the invariant.
LEMMA InitIInv == Init => IInv
<1> SUFFICES ASSUME Init PROVE IInv
  OBVIOUS
<1>1. /\ Len(chunks) = 1 /\ chunks[1].addr = HeapStart /\ ~chunks[1].used
      /\ chunks[1].size = InitialEnd - HeapStart /\ chunks[1] \in Chunk
      /\ chunks \in Seq(Chunk) /\ chunks # <<>>
  BY HeapConstants DEF Init, Chunk
<1>2. mappedTo \in Nat /\ frames \in Nat
  <2>1. InitialPages \in Nat /\ InitialPages <= Frames
    BY HeapConstants DEF InitialPages, PagesIn
  <2> QED
    BY <2>1, HeapConstants DEF Init
<1>3. TypeOK
  BY <1>1, <1>2, HeapConstants DEF Init, TypeOK
<1> QED
  BY <1>1, <1>3, HeapConstants
  DEF Init, IInv, ChunksDisjoint, PayloadsInHeap, TailInv, MergedSoFar, RequestInv,
      AboveStart, PositiveUsed, EndOf

\* A placed request keeps the invariant: the cut chunk ends a header below
\* where the tail may end, and the free rest has a used chunk on either side.
LEMMA PlaceIInv ==
  ASSUME IInv, NEW size \in Sizes, pc \in {"idle", "retry"},
         NEW i \in DOMAIN chunks, Fits(chunks[i], size),
         chunks' = Split(i, size), heapUsed' = heapUsed + size, pc' = "idle",
         UNCHANGED <<heapEnd, mappedTo, frames, curr, op>>
  PROVE  IInv'
<1>0. /\ size \in Nat /\ size > 0 /\ TypeOK
      /\ Header \in Nat /\ Header > 0 /\ HeapStart \in Nat
  BY HeapConstants DEF IInv
<1>1. /\ chunks' \in Seq(Chunk)
      /\ Len(chunks') = Len(chunks) + 1
      /\ \A j \in 1..(i - 1) : chunks'[j] = chunks[j]
      /\ chunks'[i] = Cut(chunks[i], size)
      /\ chunks'[i + 1] = Rest(chunks[i], size)
      /\ \A j \in (i + 2)..(Len(chunks) + 1) : chunks'[j] = chunks[j - 1]
  BY <1>0, SplitElements
<1>2. /\ Len(chunks) \in Nat /\ i \in 1..Len(chunks) /\ chunks[i] \in Chunk
      /\ \A j \in 1..Len(chunks) : chunks[j] \in Chunk
      /\ DOMAIN chunks' = 1..(Len(chunks) + 1) /\ DOMAIN chunks = 1..Len(chunks)
      /\ heapEnd \in Nat
  BY <1>0, <1>1 DEF TypeOK
<1>a. \A j \in 1..Len(chunks) :
         /\ chunks[j].addr \in Nat /\ chunks[j].size \in Nat /\ EndOf(chunks[j]) \in Nat
         /\ EndOf(chunks[j]) = chunks[j].addr + Header + chunks[j].size
  BY <1>0, <1>2, ChunkFacts
<1>b. \A j, k \in 1..Len(chunks) : j < k => EndOf(chunks[j]) <= chunks[k].addr
  BY <1>2 DEF IInv, ChunksDisjoint
<1>3. /\ Cut(chunks[i], size).addr = chunks[i].addr /\ Cut(chunks[i], size).size = size
      /\ Cut(chunks[i], size).used
      /\ Rest(chunks[i], size).addr = chunks[i].addr + Header + size
      /\ Rest(chunks[i], size).size = chunks[i].size - (Header + size)
      /\ ~Rest(chunks[i], size).used
      /\ ~chunks[i].used /\ chunks[i].size >= Header + size
  BY <1>2 DEF Cut, Rest, Fits
<1>4. TypeOK'
  BY <1>0, <1>1, <1>2 DEF TypeOK
<1>5. ASSUME NEW j \in (i + 2)..(Len(chunks) + 1)
      PROVE  /\ j - 1 \in 1..Len(chunks) /\ j - 1 > i /\ chunks'[j] = chunks[j - 1]
             /\ chunks[j - 1].addr >= EndOf(chunks[i])
  <2>1. j - 1 \in 1..Len(chunks) /\ j - 1 > i
    BY <1>2
  <2> QED
    BY <1>1, <1>2, <2>1 DEF IInv, ChunksDisjoint
<1>6. ASSUME NEW j \in 1..(i - 1)
      PROVE  /\ j \in 1..Len(chunks) /\ chunks'[j] = chunks[j]
             /\ EndOf(chunks[j]) <= chunks[i].addr
  BY <1>1, <1>2 DEF IInv, ChunksDisjoint
<1>7. /\ chunks'[i].addr = chunks[i].addr
      /\ EndOf(chunks'[i]) = chunks[i].addr + Header + size
      /\ chunks'[i + 1].addr = chunks[i].addr + Header + size
      /\ EndOf(chunks'[i + 1]) = EndOf(chunks[i])
      /\ chunks'[i].used /\ ~chunks'[i + 1].used
      /\ chunks[i].addr \in Nat /\ chunks[i].size \in Nat
  BY <1>0, <1>1, <1>2, <1>3 DEF EndOf, Chunk
<1>c. /\ EndOf(chunks[i]) = chunks[i].addr + Header + chunks[i].size
      /\ EndOf(chunks[i]) \in Nat /\ EndOf(chunks'[i]) \in Nat /\ EndOf(chunks'[i + 1]) \in Nat
      /\ EndOf(chunks'[i]) + Header <= EndOf(chunks[i])
      /\ chunks[i].addr <= chunks'[i + 1].addr /\ chunks'[i + 1].addr \in Nat
      /\ EndOf(chunks'[i]) = chunks'[i + 1].addr
  BY <1>0, <1>3, <1>7 DEF EndOf
<1>8. ChunksDisjoint'
  <2> SUFFICES ASSUME NEW a \in 1..(Len(chunks) + 1), NEW b \in 1..(Len(chunks) + 1), a < b
               PROVE  EndOf(chunks'[a]) <= chunks'[b].addr
    BY <1>2 DEF ChunksDisjoint, EndOf
  <2>1. CASE a \in 1..(i - 1) /\ b \in 1..(i - 1)
    BY <2>1, <1>2, <1>b, <1>6
  <2>2. CASE a \in 1..(i - 1) /\ b \in {i, i + 1}
    <3>1. EndOf(chunks'[a]) \in Nat /\ EndOf(chunks'[a]) <= chunks[i].addr
      BY <2>2, <1>a, <1>6
    <3> QED
      BY <2>2, <3>1, <1>7, <1>c
  <2>3. CASE a \in 1..(i - 1) /\ b \in (i + 2)..(Len(chunks) + 1)
    <3>1. b - 1 \in 1..Len(chunks) /\ a < b - 1 /\ chunks'[b] = chunks[b - 1]
      BY <2>3, <1>2, <1>5
    <3> QED
      BY <2>3, <3>1, <1>b, <1>6
  <2>4. CASE a = i /\ b = i + 1
    BY <2>4, <1>0, <1>7
  <2>5. CASE a \in {i, i + 1} /\ b \in (i + 2)..(Len(chunks) + 1)
    <3>1. /\ b - 1 \in 1..Len(chunks) /\ chunks'[b] = chunks[b - 1]
          /\ EndOf(chunks[i]) <= chunks[b - 1].addr
      BY <2>5, <1>2, <1>5
    <3>2. EndOf(chunks'[a]) <= EndOf(chunks[i]) /\ EndOf(chunks'[a]) \in Nat
      <4>1. CASE a = i
        BY <4>1, <1>0, <1>c
      <4>2. CASE a = i + 1
        BY <4>2, <1>7, <1>c
      <4> QED
        BY <2>5, <4>1, <4>2
    <3>3. chunks[b - 1].addr \in Nat
      BY <3>1, <1>a
    <3> QED
      BY <3>1, <3>2, <3>3, <1>c
  <2>6. CASE a \in (i + 2)..(Len(chunks) + 1) /\ b \in (i + 2)..(Len(chunks) + 1)
    <3>1. /\ a - 1 \in 1..Len(chunks) /\ b - 1 \in 1..Len(chunks) /\ a - 1 < b - 1
          /\ chunks'[a] = chunks[a - 1] /\ chunks'[b] = chunks[b - 1]
      BY <2>6, <1>2, <1>5
    <3> QED
      BY <3>1, <1>b
  <2> QED
    BY <1>2, <2>1, <2>2, <2>3, <2>4, <2>5, <2>6
<1>9. EndOf(chunks[i]) <= heapEnd + Header
  <2>1. EndOf(chunks[Len(chunks)]) <= heapEnd + Header
    BY DEF IInv, TailInv
  <2>2. i = Len(chunks) \/ EndOf(chunks[i]) <= chunks[Len(chunks)].addr
    BY <1>2, <1>b
  <2> DEFINE n == Len(chunks)
  <2>3. /\ chunks[n].addr \in Nat /\ chunks[n].size \in Nat
        /\ EndOf(chunks[n]) = chunks[n].addr + Header + chunks[n].size
    BY <1>2, <1>a
  <2>4. EndOf(chunks[i]) \in Nat /\ heapEnd \in Nat /\ Header \in Nat
    BY <1>0, <1>2, <1>a
  <2> HIDE DEF n
  <2> QED
    BY <2>1, <2>2, <2>3, <2>4 DEF n
<1>10. PayloadsInHeap' /\ AboveStart' /\ PositiveUsed'
  <2> SUFFICES ASSUME NEW a \in 1..(Len(chunks) + 1)
               PROVE  /\ HeapStart <= chunks'[a].addr
                      /\ chunks'[a].used => EndOf(chunks'[a]) <= heapEnd /\ chunks'[a].size > 0
    BY <1>2 DEF PayloadsInHeap, AboveStart, PositiveUsed, EndOf
  <2>1. CASE a \in 1..(i - 1)
    BY <2>1, <1>2, <1>6 DEF IInv, PayloadsInHeap, AboveStart, PositiveUsed
  <2>2. CASE a \in {i, i + 1}
    <3>1. HeapStart <= chunks[i].addr
      BY DEF IInv, AboveStart
    <3> QED
      <4>1. CASE a = i
        <5>1. chunks'[i].size > 0
          BY <1>0, <1>1, <1>3
        <5>2. EndOf(chunks'[i]) <= heapEnd
          BY <1>0, <1>2, <1>9, <1>c
        <5> QED
          BY <4>1, <5>1, <5>2, <3>1, <1>7
      <4>2. CASE a = i + 1
        BY <4>2, <3>1, <1>0, <1>7, <1>c
      <4> QED
        BY <2>2, <4>1, <4>2
  <2>3. CASE a \in (i + 2)..(Len(chunks) + 1)
    BY <2>3, <1>2, <1>5 DEF IInv, PayloadsInHeap, AboveStart, PositiveUsed
  <2> QED
    BY <1>2, <2>1, <2>2, <2>3
<1>11. TailInv'
  <2>1. CASE i = Len(chunks)
    BY <2>1, <1>1, <1>2, <1>7, <1>9 DEF TailInv, EndOf
  <2>2. CASE i < Len(chunks)
    <3>1. chunks'[Len(chunks')] = chunks[Len(chunks)]
      BY <2>2, <1>1, <1>2, <1>5
    <3> QED
      BY <3>1 DEF IInv, TailInv, EndOf
  <2> QED
    BY <1>2, <2>1, <2>2
<1>12. MergedSoFar'
  <2> SUFFICES ASSUME NEW a \in 1..Len(chunks)
               PROVE  ~Mergeable(chunks'[a], chunks'[a + 1])
    BY <1>1, <1>2 DEF MergedSoFar, Mergeable
  <2>1. CASE a < i - 1
    <3>1. a \in 1..(i - 1) /\ a + 1 \in 1..(i - 1) /\ a \in 1..(Len(chunks) - 1)
      BY <2>1, <1>2
    <3> QED
      BY <3>1, <1>6 DEF IInv, MergedSoFar
  <2>2. CASE a = i - 1 \/ a = i
    BY <2>2, <1>2, <1>7 DEF Mergeable
  <2>3. CASE a = i + 1
    <3>1. i \in 1..(Len(chunks) - 1) /\ a + 1 \in (i + 2)..(Len(chunks) + 1)
      BY <2>3, <1>2
    <3>2. chunks'[a + 1] = chunks[i + 1]
      BY <3>1, <2>3, <1>2, <1>5
    <3> QED
      BY <3>1, <3>2, <1>3 DEF IInv, MergedSoFar, Mergeable
  <2>4. CASE a > i + 1
    <3>1. /\ a \in (i + 2)..(Len(chunks) + 1) /\ a + 1 \in (i + 2)..(Len(chunks) + 1)
          /\ a - 1 \in 1..(Len(chunks) - 1)
      BY <2>4, <1>2
    <3>2. chunks'[a] = chunks[a - 1] /\ chunks'[a + 1] = chunks[(a - 1) + 1]
      BY <3>1, <1>2, <1>5
    <3> QED
      BY <3>1, <3>2 DEF IInv, MergedSoFar
  <2> QED
    BY <1>2, <2>1, <2>2, <2>3, <2>4
<1>13. RequestInv'
  BY DEF IInv, RequestInv
<1> QED
  BY <1>4, <1>8, <1>10, <1>11, <1>12, <1>13 DEF IInv
\* One merge of mergeChunks keeps the invariant: the joined chunk ends no later
\* than the second of the two did, a header earlier at the least.
LEMMA MergeIInv ==
  ASSUME IInv, pc = "merge", curr < Len(chunks),
         Mergeable(chunks[curr], chunks[curr + 1]), chunks' = Merged(curr),
         UNCHANGED <<heapEnd, heapUsed, mappedTo, frames, pc, curr, op>>
  PROVE  IInv'
<1> DEFINE n == Len(chunks)
<1>0. /\ TypeOK /\ Header \in Nat /\ Header > 0 /\ HeapStart \in Nat /\ Step \in Nat
      /\ n \in Nat /\ curr \in 1..(n - 1) /\ DOMAIN chunks = 1..n /\ heapEnd \in Nat
  BY HeapConstants DEF IInv, TypeOK
<1>1. /\ chunks' \in Seq(Chunk)
      /\ Len(chunks') = n - 1 /\ DOMAIN chunks' = 1..(n - 1)
      /\ \A j \in 1..(curr - 1) : chunks'[j] = chunks[j]
      /\ chunks'[curr] = Join(chunks[curr], chunks[curr + 1])
      /\ \A j \in (curr + 1)..(n - 1) : chunks'[j] = chunks[j + 1]
  <2>1. /\ Merged(curr) \in Seq(Chunk) /\ Len(Merged(curr)) = n - 1
        /\ \A j \in 1..(curr - 1) : Merged(curr)[j] = chunks[j]
        /\ Merged(curr)[curr] = Join(chunks[curr], chunks[curr + 1])
        /\ \A j \in (curr + 1)..(n - 1) : Merged(curr)[j] = chunks[j + 1]
    BY <1>0, MergedElements, Zenon
  <2> QED
    BY <2>1
<1>a. \A j \in 1..n :
         /\ chunks[j].addr \in Nat /\ chunks[j].size \in Nat /\ EndOf(chunks[j]) \in Nat
         /\ EndOf(chunks[j]) = chunks[j].addr + Header + chunks[j].size
  BY <1>0, ChunkFacts
<1>b. \A j, k \in 1..n : j < k => EndOf(chunks[j]) <= chunks[k].addr
  BY <1>0 DEF IInv, ChunksDisjoint
<1> HIDE DEF n
<1>c. /\ chunks'[curr].addr = chunks[curr].addr /\ chunks[curr].addr \in Nat
      /\ EndOf(chunks'[curr]) = chunks[curr].addr + Header + (chunks[curr].size + chunks[curr + 1].size)
      /\ EndOf(chunks'[curr]) \in Nat
      /\ ~chunks'[curr].used /\ ~chunks[curr].used /\ ~chunks[curr + 1].used
      /\ EndOf(chunks'[curr]) + Header <= EndOf(chunks[curr + 1])
  <2>1. /\ curr \in 1..n /\ curr + 1 \in 1..n
        /\ EndOf(chunks[curr]) <= chunks[curr + 1].addr
    BY <1>0, <1>b
  <2>2. /\ chunks[curr].addr \in Nat /\ chunks[curr].size \in Nat
        /\ EndOf(chunks[curr]) = chunks[curr].addr + Header + chunks[curr].size
        /\ chunks[curr + 1].addr \in Nat /\ chunks[curr + 1].size \in Nat
        /\ EndOf(chunks[curr + 1]) = chunks[curr + 1].addr + Header + chunks[curr + 1].size
    BY <2>1, <1>a
  <2>3. /\ chunks'[curr].addr = chunks[curr].addr /\ chunks'[curr].used = chunks[curr].used
        /\ chunks'[curr].size = chunks[curr].size + chunks[curr + 1].size
    BY <1>1 DEF Join
  <2>4. EndOf(chunks'[curr]) = chunks[curr].addr + Header + (chunks[curr].size + chunks[curr + 1].size)
    BY <2>3 DEF EndOf
  <2>5. ~chunks[curr].used /\ ~chunks[curr + 1].used
    BY DEF Mergeable
  <2>6. ~chunks'[curr].used
    BY <2>3, <2>5
  <2>7. EndOf(chunks'[curr]) \in Nat /\ EndOf(chunks'[curr]) + Header <= EndOf(chunks[curr + 1])
    <3> DEFINE a == chunks[curr].addr  s == chunks[curr].size
               b == chunks[curr + 1].addr  t == chunks[curr + 1].size
    <3>1. /\ a \in Nat /\ s \in Nat /\ b \in Nat /\ t \in Nat /\ Header \in Nat
          /\ a + Header + s <= b
          /\ EndOf(chunks'[curr]) = a + Header + (s + t)
          /\ EndOf(chunks[curr + 1]) = b + Header + t
      BY <1>0, <2>1, <2>2, <2>4
    <3> HIDE DEF a, b, s, t
    <3> QED
      BY <3>1
  <2> QED
    BY <2>2, <2>3, <2>4, <2>5, <2>6, <2>7
<1>2. TypeOK'
  BY <1>0, <1>1 DEF IInv, TypeOK
<1>3. ASSUME NEW j \in 1..(curr - 1)
      PROVE  /\ j \in 1..n /\ j \in DOMAIN chunks /\ chunks'[j] = chunks[j]
             /\ EndOf(chunks[j]) \in Nat /\ EndOf(chunks[j]) <= chunks[curr].addr
  BY <1>0, <1>1, <1>a, <1>b
<1>4. ASSUME NEW j \in (curr + 1)..(n - 1)
      PROVE  /\ j + 1 \in 1..n /\ j + 1 \in DOMAIN chunks /\ chunks'[j] = chunks[j + 1]
             /\ chunks[j + 1].addr \in Nat /\ EndOf(chunks[curr + 1]) \in Nat
             /\ EndOf(chunks[curr + 1]) <= chunks[j + 1].addr
  <2>1. j + 1 \in 1..n /\ curr + 1 \in 1..n /\ curr + 1 < j + 1
    BY <1>0
  <2> QED
    BY <1>0, <1>1, <1>a, <1>b, <2>1
<1>5. ChunksDisjoint'
  <2> SUFFICES ASSUME NEW a \in 1..(n - 1), NEW b \in 1..(n - 1), a < b
               PROVE  EndOf(chunks'[a]) <= chunks'[b].addr
    BY <1>1 DEF ChunksDisjoint, EndOf
  <2>1. CASE b \in 1..(curr - 1)
    BY <2>1, <1>0, <1>3, <1>b
  <2>2. CASE b = curr
    BY <2>2, <1>0, <1>3, <1>c
  <2>3. CASE a \in 1..(curr - 1) /\ b \in (curr + 1)..(n - 1)
    <3>1. a < b + 1
      BY <2>3, <1>0
    <3> QED
      BY <2>3, <3>1, <1>3, <1>4, <1>b
  <2>4. CASE a = curr /\ b \in (curr + 1)..(n - 1)
    BY <2>4, <1>0, <1>4, <1>c
  <2>5. CASE a \in (curr + 1)..(n - 1) /\ b \in (curr + 1)..(n - 1)
    <3>1. a + 1 < b + 1
      BY <2>5, <1>0
    <3> QED
      BY <2>5, <3>1, <1>4, <1>b
  <2> QED
    BY <1>0, <2>1, <2>2, <2>3, <2>4, <2>5
<1>6. PayloadsInHeap' /\ AboveStart' /\ PositiveUsed'
  <2> SUFFICES ASSUME NEW a \in 1..(n - 1)
               PROVE  /\ HeapStart <= chunks'[a].addr
                      /\ chunks'[a].used => EndOf(chunks'[a]) <= heapEnd /\ chunks'[a].size > 0
    BY <1>1 DEF PayloadsInHeap, AboveStart, PositiveUsed, EndOf
  <2>1. CASE a \in 1..(curr - 1)
    BY <2>1, <1>3 DEF IInv, PayloadsInHeap, AboveStart, PositiveUsed
  <2>2. CASE a = curr
    BY <2>2, <1>0, <1>c DEF IInv, AboveStart
  <2>3. CASE a \in (curr + 1)..(n - 1)
    BY <2>3, <1>4 DEF IInv, PayloadsInHeap, AboveStart, PositiveUsed
  <2> QED
    BY <1>0, <2>1, <2>2, <2>3
<1>7. TailInv'
  <2>1. CASE curr + 1 = n
    <3>1. chunks'[Len(chunks')] = chunks'[curr] /\ ~(curr < Len(chunks'))
      BY <2>1, <1>0, <1>1
    <3>2. EndOf(chunks'[curr]) + Header <= EndOf(chunks[n])
      BY <2>1, <1>c
    <3>3. EndOf(chunks[n]) \in Nat
      BY <1>0, <1>a
    <3>4. CASE op.kind = "expand"
      <4>1. EndOf(chunks[n]) <= heapEnd + Step + Header + Header
        BY <2>1, <1>0, <3>4 DEF IInv, TailInv, n
      <4> QED
        BY <3>1, <3>2, <3>3, <3>4, <4>1, <1>0, <1>c DEF TailInv, EndOf
    <3>5. CASE op.kind # "expand"
      <4>1. EndOf(chunks[n]) <= heapEnd + Header
        BY <3>5 DEF IInv, TailInv, n
      <4> QED
        <5>1. EndOf(chunks'[curr]) <= heapEnd + Header /\ ~chunks'[curr].used
          BY <3>2, <3>3, <4>1, <1>0, <1>c
        <5> QED
          BY <3>1, <3>5, <5>1 DEF TailInv, EndOf
    <3> QED
      BY <3>4, <3>5
  <2>2. CASE curr + 1 < n
    <3>1. n - 1 \in (curr + 1)..(n - 1) /\ (n - 1) + 1 = n /\ curr < n - 1
      BY <2>2, <1>0
    <3>2. chunks'[Len(chunks')] = chunks[n]
      BY <3>1, <1>1, <1>4
    <3>3. ~chunks[n - 1].used => ~chunks'[Len(chunks') - 1].used
      <4>1. CASE curr = n - 2
        BY <4>1, <1>0, <1>1, <1>c
      <4>2. CASE curr < n - 2
        <5>1. n - 2 \in (curr + 1)..(n - 1) /\ (n - 2) + 1 = n - 1 /\ (n - 1) - 1 = n - 2
          BY <4>2, <1>0
        <5> QED
          BY <5>1, <1>1, <1>4
      <4> QED
        BY <2>2, <1>0, <4>1, <4>2
    <3> QED
      BY <3>1, <3>2, <3>3, <1>1, <1>0 DEF IInv, TailInv, EndOf, n
  <2> QED
    BY <1>0, <2>1, <2>2
<1>8. MergedSoFar'
  <2> SUFFICES ASSUME NEW a \in 1..(n - 1 - 1), a < curr
               PROVE  ~Mergeable(chunks'[a], chunks'[a + 1])
    BY <1>1 DEF MergedSoFar, Mergeable
  <2>1. /\ a \in 1..(n - 1) /\ chunks'[a] = chunks[a] /\ ~Mergeable(chunks[a], chunks[a + 1])
    BY <1>0, <1>3 DEF IInv, MergedSoFar, n
  <2>2. chunks'[a + 1].used = chunks[a + 1].used
    <3>1. CASE a + 1 = curr
      BY <3>1, <1>1 DEF Join
    <3>2. CASE a + 1 < curr
      BY <3>2, <1>0, <1>3
    <3> QED
      BY <1>0, <3>1, <3>2
  <2> QED
    BY <2>1, <2>2 DEF Mergeable
<1>9. RequestInv'
  BY DEF IInv, RequestInv
<1> QED
  BY <1>2, <1>5, <1>6, <1>7, <1>8, <1>9 DEF IInv
\* A step of the merge loop that only moves on keeps the invariant.
LEMMA AdvanceIInv ==
  ASSUME IInv, pc = "merge", curr < Len(chunks),
         ~Mergeable(chunks[curr], chunks[curr + 1]), curr' = curr + 1,
         UNCHANGED <<chunks, heapEnd, heapUsed, mappedTo, frames, pc, op>>
  PROVE  IInv'
<1> DEFINE n == Len(chunks)
<1>0. TypeOK /\ n \in Nat /\ curr \in 1..(n - 1)
  BY DEF IInv, TypeOK
<1>1. TypeOK'
  BY <1>0 DEF TypeOK
<1>2. TailInv'
  <2>1. CASE op.kind = "expand"
    <3>1. ~chunks[n].used /\ ~chunks[n - 1].used
          /\ EndOf(chunks[n]) <= heapEnd + Step + Header + Header
      BY <2>1 DEF IInv, TailInv
    <3>2. curr + 1 < n
      BY <1>0, <3>1 DEF Mergeable
    <3> QED
      BY <2>1, <3>1, <3>2 DEF TailInv, EndOf
  <2>2. CASE op.kind # "expand"
    BY <2>2 DEF IInv, TailInv, EndOf
  <2> QED
    BY <2>1, <2>2
<1>3. MergedSoFar'
  <2> SUFFICES ASSUME NEW i \in 1..(n - 1), i < curr + 1
               PROVE  ~Mergeable(chunks[i], chunks[i + 1])
    BY DEF MergedSoFar, Mergeable
  <2>1. CASE i = curr
    BY <2>1
  <2>2. CASE i < curr
    BY <2>2 DEF IInv, MergedSoFar
  <2> QED
    BY <1>0, <2>1, <2>2
<1>4. ChunksDisjoint' /\ PayloadsInHeap' /\ RequestInv' /\ AboveStart' /\ PositiveUsed'
  BY DEF IInv, ChunksDisjoint, PayloadsInHeap, RequestInv, AboveStart, PositiveUsed, EndOf
<1> QED
  BY <1>1, <1>2, <1>3, <1>4 DEF IInv

\* heapExpand's new tail chunk starts where the free old tail ends.
LEMMA ExpandIInv ==
  ASSUME IInv, HeapExpand
  PROVE  IInv'
<1> DEFINE n == Len(chunks)
           new == [addr |-> EndOf(chunks[n]), size |-> Step, used |-> FALSE]
<1>0. /\ TypeOK /\ n \in Nat /\ n >= 1 /\ Header \in Nat /\ Step \in Nat /\ HeapStart \in Nat
      /\ PageSize \in Nat \ {0} /\ DOMAIN chunks = 1..n /\ heapEnd \in Nat /\ pc = "expand"
  BY HeapConstants DEF IInv, TypeOK, HeapExpand
<1>a. \A j \in 1..n :
         /\ chunks[j].addr \in Nat /\ chunks[j].size \in Nat /\ EndOf(chunks[j]) \in Nat
         /\ EndOf(chunks[j]) = chunks[j].addr + Header + chunks[j].size
  BY <1>0, ChunkFacts
<1>1. new \in Chunk /\ new.addr = EndOf(chunks[n]) /\ ~new.used /\ new.size = Step
  BY <1>0, <1>a DEF Chunk
<1>2. chunks' = Append(chunks, new)
  BY DEF HeapExpand, Last
<1>3. ~chunks[n].used /\ EndOf(chunks[n]) <= heapEnd + Header
  BY <1>0 DEF IInv, TailInv
<1> HIDE DEF new
<1>4. /\ chunks' \in Seq(Chunk) /\ Len(chunks') = n + 1 /\ DOMAIN chunks' = 1..(n + 1)
      /\ \A j \in 1..n : chunks'[j] = chunks[j]
      /\ chunks'[n + 1] = new
  BY <1>0, <1>1, <1>2 DEF TypeOK
<1> HIDE DEF n
<1>5. FramesToExpand \in Int
  BY <1>0 DEF FramesToExpand, PagesIn
<1>6. mappedTo' \in Nat /\ frames' \in Nat
  <2>1. mappedTo \in Nat /\ frames \in Nat /\ frames >= FramesToExpand
    BY <1>0 DEF TypeOK, HeapExpand
  <2>2. FramesToExpand >= 0
    <3>1. heapEnd + Step - HeapStart + PageSize - 1 \in Nat
      <4>1. HeapStart <= chunks[n].addr /\ EndOf(chunks[n]) <= heapEnd + Header
            /\ EndOf(chunks[n]) = chunks[n].addr + Header + chunks[n].size
            /\ chunks[n].addr \in Nat /\ chunks[n].size \in Nat
        BY <1>0, <1>3, <1>a DEF IInv, AboveStart
      <4> QED
        BY <4>1, <1>0
    <3> QED
      BY <3>1, <1>0 DEF FramesToExpand, PagesIn
  <2> QED
    BY <1>0, <1>5, <2>1, <2>2 DEF HeapExpand, MappedBy
<1>7. TypeOK'
  BY <1>0, <1>4, <1>6 DEF TypeOK, HeapExpand
<1>8. ChunksDisjoint'
  <2> SUFFICES ASSUME NEW a \in 1..(n + 1), NEW b \in 1..(n + 1), a < b
               PROVE  EndOf(chunks'[a]) <= chunks'[b].addr
    BY <1>4 DEF ChunksDisjoint, EndOf
  <2>1. CASE b \in 1..n
    BY <2>1, <1>0, <1>4 DEF IInv, ChunksDisjoint
  <2>2. CASE b = n + 1 /\ a = n
    BY <2>2, <1>0, <1>1, <1>4, <1>a
  <2>3. CASE b = n + 1 /\ a < n
    <3>1. EndOf(chunks[a]) <= chunks[n].addr
      BY <2>3, <1>0 DEF IInv, ChunksDisjoint
    <3>2. /\ EndOf(chunks[a]) \in Nat /\ chunks[n].addr \in Nat /\ chunks[n].size \in Nat
          /\ EndOf(chunks[n]) = chunks[n].addr + Header + chunks[n].size
          /\ chunks'[a] = chunks[a]
      BY <2>3, <1>0, <1>4, <1>a
    <3> QED
      BY <2>3, <3>1, <3>2, <1>0, <1>1, <1>4
  <2> QED
    BY <1>0, <2>1, <2>2, <2>3
<1>9. PayloadsInHeap' /\ AboveStart' /\ PositiveUsed'
  <2> SUFFICES ASSUME NEW a \in 1..(n + 1)
               PROVE  /\ HeapStart <= chunks'[a].addr
                      /\ chunks'[a].used => EndOf(chunks'[a]) <= heapEnd /\ chunks'[a].size > 0
    BY <1>4 DEF PayloadsInHeap, AboveStart, PositiveUsed, EndOf, HeapExpand
  <2>1. CASE a \in 1..n
    BY <2>1, <1>0, <1>4 DEF IInv, PayloadsInHeap, AboveStart, PositiveUsed
  <2>2. CASE a = n + 1
    <3>1. HeapStart <= chunks[n].addr
      BY <1>0 DEF IInv, AboveStart
    <3> QED
      BY <2>2, <3>1, <1>0, <1>1, <1>4, <1>a
  <2> QED
    BY <1>0, <2>1, <2>2
<1>10. TailInv'
  <2>1. EndOf(chunks'[n + 1]) = EndOf(chunks[n]) + Header + Step
    BY <1>1, <1>4 DEF EndOf
  <2>2. /\ ~chunks'[n + 1].used /\ ~chunks'[(n + 1) - 1].used /\ 1 < n + 1
        /\ EndOf(chunks'[n + 1]) <= heapEnd + Step + Header + Header
    BY <2>1, <1>0, <1>1, <1>3, <1>4, <1>a
  <2>3. pc' = "merge" /\ curr' = 1 /\ heapEnd' = heapEnd /\ op' = op /\ op.kind = "expand"
    BY <1>0 DEF HeapExpand, IInv, RequestInv
  <2> QED
    BY <2>2, <2>3, <1>4 DEF TailInv, EndOf
<1>11. MergedSoFar' /\ RequestInv'
  BY <1>0, <1>4 DEF MergedSoFar, RequestInv, HeapExpand, IInv
<1> QED
  BY <1>7, <1>8, <1>9, <1>10, <1>11 DEF IInv
\* heapFree's first step only clears a used flag, and not the tail's.
LEMMA FreeIInv ==
  ASSUME IInv, NEW i \in DOMAIN chunks, HeapFree(i)
  PROVE  IInv'
<1> DEFINE n == Len(chunks)
           freed == [addr |-> chunks[i].addr, size |-> chunks[i].size, used |-> FALSE]
<1>0. TypeOK /\ n \in Nat /\ i \in 1..n /\ DOMAIN chunks = 1..n /\ pc = "idle" /\ chunks[i].used
  BY DEF IInv, TypeOK, HeapFree
<1>1. chunks[i] \in Chunk /\ chunks[i].size \in Nat /\ freed \in Chunk
  BY <1>0, ChunkFacts DEF Chunk
<1>2. /\ chunks' \in Seq(Chunk) /\ Len(chunks') = n /\ DOMAIN chunks' = 1..n /\ chunks' # <<>>
      /\ chunks'[i] = freed
      /\ \A j \in 1..n : j # i => chunks'[j] = chunks[j]
  BY <1>0, <1>1 DEF TypeOK, HeapFree
<1>a. \A j \in 1..n : chunks'[j].addr = chunks[j].addr /\ chunks'[j].size = chunks[j].size
  BY <1>2
<1>3. \A j \in 1..n : /\ chunks'[j].used => chunks[j].used /\ j # i
                     /\ j # i => chunks'[j].used = chunks[j].used
  BY <1>2
<1> HIDE DEF freed
<1>4. \A j \in 1..n : EndOf(chunks'[j]) = EndOf(chunks[j])
  BY <1>a DEF EndOf
<1>5. TypeOK'
  <2>1. op' \in [kind : {"free", "expand"}, size : Nat]
    BY <1>1 DEF HeapFree
  <2> QED
    BY <1>0, <1>2, <2>1 DEF TypeOK, HeapFree
<1>6. ChunksDisjoint'
  <2> SUFFICES ASSUME NEW j \in 1..n, NEW k \in 1..n, j < k
               PROVE  EndOf(chunks'[j]) <= chunks'[k].addr
    BY <1>2 DEF ChunksDisjoint, EndOf
  <2>1. EndOf(chunks[j]) <= chunks[k].addr
    BY <1>0 DEF IInv, ChunksDisjoint
  <2> QED
    BY <2>1, <1>4, <1>a
<1>7. PayloadsInHeap' /\ AboveStart' /\ PositiveUsed'
  BY <1>0, <1>2, <1>3, <1>a, <1>4 DEF IInv, PayloadsInHeap, AboveStart, PositiveUsed, EndOf, HeapFree
<1>8. TailInv'
  <2>1. ~chunks[n].used /\ EndOf(chunks[n]) <= heapEnd + Header /\ n \in 1..n
    BY <1>0 DEF IInv, TailInv
  <2>2. ~chunks'[n].used /\ EndOf(chunks'[n]) <= heapEnd + Header
    <3>1. EndOf(chunks'[n]) = EndOf(chunks[n])
      BY <2>1, <1>4
    <3>2. chunks'[n] = chunks[n]
      BY <1>0, <1>2, <2>1
    <3> QED
      BY <2>1, <3>1, <3>2
  <2>3. pc' = "merge" /\ op'.kind = "free" /\ heapEnd' = heapEnd
    BY DEF HeapFree
  <2> QED
    BY <1>2, <2>2, <2>3 DEF TailInv, EndOf
<1>9. MergedSoFar' /\ RequestInv'
  BY <1>0, <1>2 DEF MergedSoFar, RequestInv, HeapFree
<1> QED
  BY <1>5, <1>6, <1>7, <1>8, <1>9 DEF IInv

\* The end of the merge loop: heapFree returns, or heapExpand moves heapEnd.
LEMMA DoneIInv ==
  ASSUME IInv, MergeDone
  PROVE  IInv'
<1> DEFINE n == Len(chunks)
<1>0. /\ TypeOK /\ n \in Nat /\ n >= 1 /\ Step \in Nat /\ Header \in Nat /\ heapEnd \in Nat
      /\ pc = "merge" /\ curr = n /\ chunks' = chunks /\ op' = op /\ curr' = curr
  BY HeapConstants DEF IInv, TypeOK, MergeDone, AtTail
<1>1. heapEnd' \in Nat /\ heapEnd <= heapEnd' /\ heapUsed' \in Int
  BY <1>0 DEF MergeDone, TypeOK
<1>2. TypeOK'
  BY <1>0, <1>1 DEF MergeDone, TypeOK
<1>3. ChunksDisjoint' /\ AboveStart' /\ PositiveUsed'
  BY <1>0 DEF IInv, ChunksDisjoint, AboveStart, PositiveUsed, EndOf
<1>4. PayloadsInHeap'
  <2> SUFFICES ASSUME NEW i \in DOMAIN chunks, chunks[i].used
               PROVE  HeapStart <= chunks[i].addr /\ EndOf(chunks[i]) <= heapEnd'
    BY <1>0 DEF PayloadsInHeap, EndOf
  <2>1. HeapStart <= chunks[i].addr /\ EndOf(chunks[i]) <= heapEnd /\ EndOf(chunks[i]) \in Nat
    BY <1>0, ChunkFacts DEF IInv, PayloadsInHeap
  <2> QED
    BY <1>0, <1>1, <2>1
<1>5. TailInv'
  <2>1. CASE op.kind = "free"
    BY <2>1, <1>0 DEF IInv, TailInv, MergeDone, EndOf
  <2>2. CASE op.kind = "expand"
    <3>1. ~chunks[n].used /\ EndOf(chunks[n]) <= heapEnd + Step + Header
      BY <2>2, <1>0 DEF IInv, TailInv
    <3>2. heapEnd' = heapEnd + Step /\ pc' = "retry"
      BY <2>2 DEF MergeDone
    <3> QED
      BY <3>1, <3>2, <1>0 DEF TailInv, EndOf
  <2> QED
    BY <2>1, <2>2 DEF MergeDone
<1>6. MergedSoFar'
  BY <1>0 DEF IInv, MergedSoFar, MergeDone, Mergeable
<1>7. RequestInv'
  BY <1>0 DEF IInv, RequestInv, MergeDone
<1> QED
  BY <1>2, <1>3, <1>4, <1>5, <1>6, <1>7 DEF IInv

\* Every step of the heap keeps the invariant.
LEMMA NextIInv == IInv /\ [Next]_vars => IInv'
<1> SUFFICES ASSUME IInv, [Next]_vars PROVE IInv'
  OBVIOUS
<1>1. ASSUME NEW size \in Sizes, pc \in {"idle", "retry"}, TryAllocate(size) PROVE IInv'
  <2>1. CASE \E i \in DOMAIN chunks :
               /\ FirstFit(i, size) /\ chunks' = Split(i, size) /\ heapUsed' = heapUsed + size
               /\ pc' = "idle" /\ UNCHANGED <<heapEnd, mappedTo, frames, curr, op>>
    BY <2>1, <1>1, PlaceIInv DEF FirstFit
  <2>2. CASE /\ pc' = "expand" /\ op' = [kind |-> "expand", size |-> size]
             /\ UNCHANGED <<chunks, heapEnd, heapUsed, mappedTo, frames, curr>>
    <3>1. op'.kind = "expand" /\ op'.size = size
          /\ op' \in [kind : {"free", "expand"}, size : Nat]
      BY <2>2, HeapConstants
    <3>2. TypeOK'
      BY <2>2, <3>1 DEF IInv, TypeOK
    <3>3. ChunksDisjoint' /\ PayloadsInHeap' /\ AboveStart' /\ PositiveUsed'
      BY <2>2 DEF IInv, ChunksDisjoint, PayloadsInHeap, AboveStart, PositiveUsed, EndOf
    <3>4. TailInv' /\ MergedSoFar' /\ RequestInv'
      BY <1>1, <2>2, <3>1 DEF IInv, TailInv, MergedSoFar, RequestInv, EndOf, Mergeable
    <3> QED
      BY <3>2, <3>3, <3>4 DEF IInv
  <2> QED
    BY <1>1, <2>1, <2>2 DEF TryAllocate
<1>2. ASSUME NEW size \in Sizes, HeapAllocate(size) PROVE IInv'
  BY <1>1, <1>2 DEF HeapAllocate
<1>3. CASE RetryAllocate
  BY <1>1, <1>3 DEF RetryAllocate, IInv, RequestInv
<1>4. CASE HeapExpand
  BY <1>4, ExpandIInv
<1>5. CASE ExpandFails
  <2>1. TypeOK'
    BY <1>5, HeapConstants DEF ExpandFails, MappedBy, IInv, TypeOK
  <2>2. ChunksDisjoint' /\ PayloadsInHeap' /\ AboveStart' /\ PositiveUsed'
    BY <1>5 DEF ExpandFails, IInv, ChunksDisjoint, PayloadsInHeap, AboveStart, PositiveUsed, EndOf
  <2>3. TailInv' /\ MergedSoFar' /\ RequestInv'
    BY <1>5 DEF ExpandFails, IInv, TailInv, MergedSoFar, RequestInv, EndOf, Mergeable
  <2> QED
    BY <2>1, <2>2, <2>3 DEF IInv
<1>6. ASSUME NEW i \in DOMAIN chunks, HeapFree(i) PROVE IInv'
  BY <1>6, FreeIInv
<1>7. CASE MergeNext
  BY <1>7, MergeIInv, AdvanceIInv DEF MergeNext
<1>8. CASE MergeDone
  BY <1>8, DoneIInv
<1>9. CASE UNCHANGED vars
  BY <1>9 DEF vars, IInv, TypeOK, ChunksDisjoint, PayloadsInHeap, TailInv, MergedSoFar,
              RequestInv, AboveStart, PositiveUsed, EndOf, Mergeable
<1> QED
  BY <1>2, <1>3, <1>4, <1>5, <1>6, <1>7, <1>8, <1>9 DEF Next

\* The inductive invariant holds throughout.
LEMMA Invariant == Spec => []IInv
<1> QED
  BY InitIInv, NextIInv, PTL DEF Spec

\* The heap's variables keep their types: no size or address is ever negative,
\* so the unsigned subtractions of allocate and heapExpand never wrap.
THEOREM HeapTypes == Spec => []TypeOK
<1>1. IInv => TypeOK
  BY DEF IInv
<1> QED
  BY <1>1, Invariant, PTL

\* No two chunks of the kernel heap ever overlap, header or payload, whatever
\* is allocated, freed, merged and expanded in whatever order.
THEOREM HeapDisjoint == Spec => []ChunksDisjoint
<1>1. IInv => ChunksDisjoint
  BY DEF IInv
<1> QED
  BY <1>1, Invariant, PTL

\* No payload of the kernel heap reaches above heapEnd.
THEOREM HeapPayloads == Spec => []PayloadsInHeap
<1>1. IInv => PayloadsInHeap
  BY DEF IInv
<1> QED
  BY <1>1, Invariant, PTL

\* Between calls mergeChunks has left no two free neighbours.
THEOREM HeapMerged == Spec => []NoFreeNeighbours
<1>1. IInv => NoFreeNeighbours
  BY DEF IInv, MergedSoFar, NoFreeNeighbours
<1> QED
  BY <1>1, Invariant, PTL
-------------------------------------------------------------------------------
(* Refinement: the heap implements BlockAllocator.                         *)

\* Membership in UsedChunks, spelt out.
LEMMA UsedElements ==
  \A x : x \in UsedChunks <=> \E j \in DOMAIN chunks : chunks[j].used /\ x = chunks[j]
  BY DEF UsedChunks

\* allocate adds the chunk it has cut to those in use, and changes no other.
LEMMA PlaceUsed ==
  ASSUME IInv, NEW size \in Sizes, NEW i \in DOMAIN chunks, Fits(chunks[i], size),
         chunks' = Split(i, size)
  PROVE  UsedChunks' = UsedChunks \cup {Cut(chunks[i], size)}
<1> DEFINE n == Len(chunks)  cut == Cut(chunks[i], size)
<1>0. /\ TypeOK /\ size \in Nat /\ n \in Nat /\ i \in 1..n /\ DOMAIN chunks = 1..n
      /\ cut.used /\ ~Rest(chunks[i], size).used /\ ~chunks[i].used
  BY HeapConstants DEF IInv, TypeOK, Cut, Rest, Fits
<1>1. /\ DOMAIN chunks' = 1..(n + 1)
      /\ \A j \in 1..(i - 1) : chunks'[j] = chunks[j]
      /\ chunks'[i] = cut /\ chunks'[i + 1] = Rest(chunks[i], size)
      /\ \A j \in (i + 2)..(n + 1) : chunks'[j] = chunks[j - 1]
  BY <1>0, SplitElements
<1> HIDE DEF cut
<1>2. ASSUME NEW x \in UsedChunks' PROVE x \in UsedChunks \cup {cut}
  <2>1. PICK j \in 1..(n + 1) : chunks'[j].used /\ x = chunks'[j]
    BY <1>1, <1>2 DEF UsedChunks
  <2>2. CASE j \in 1..(i - 1)
    BY <2>1, <2>2, <1>0, <1>1, UsedElements
  <2>3. CASE j = i \/ j = i + 1
    BY <2>1, <2>3, <1>0, <1>1
  <2>4. CASE j \in (i + 2)..(n + 1)
    <3>1. j - 1 \in 1..n /\ chunks'[j] = chunks[j - 1]
      BY <2>4, <1>0, <1>1
    <3> QED
      BY <3>1, <2>1, <1>0, UsedElements
  <2> QED
    BY <2>2, <2>3, <2>4, <1>0
<1>3. ASSUME NEW x \in UsedChunks PROVE x \in UsedChunks'
  <2>1. PICK j \in 1..n : chunks[j].used /\ x = chunks[j]
    BY <1>0, <1>3, UsedElements
  <2>2. CASE j \in 1..(i - 1)
    <3>1. j \in 1..(n + 1) /\ chunks'[j] = chunks[j]
      BY <2>2, <1>0, <1>1
    <3> QED
      BY <3>1, <2>1, <1>1, Zenon DEF UsedChunks
  <2>3. CASE j \in (i + 1)..n
    <3>1. j + 1 \in (i + 2)..(n + 1) /\ (j + 1) - 1 = j
      BY <2>3, <1>0
    <3>2. j + 1 \in 1..(n + 1) /\ chunks'[j + 1] = chunks[j]
      BY <3>1, <1>0, <1>1
    <3> QED
      BY <3>2, <2>1, <1>1 DEF UsedChunks
  <2>4. j # i
    BY <2>1, <1>0
  <2> QED
    BY <2>2, <2>3, <2>4, <1>0
<1>4. cut \in UsedChunks'
  BY <1>0, <1>1 DEF UsedChunks
<1> QED
  BY <1>2, <1>3, <1>4 DEF cut

\* mergeChunks changes no chunk in use.
LEMMA MergeUsed ==
  ASSUME IInv, NEW i \in 1..(Len(chunks) - 1), Mergeable(chunks[i], chunks[i + 1]),
         chunks' = Merged(i)
  PROVE  UsedChunks' = UsedChunks
<1> DEFINE n == Len(chunks)
<1>0. /\ TypeOK /\ n \in Nat /\ i \in 1..(n - 1) /\ DOMAIN chunks = 1..n
      /\ ~Join(chunks[i], chunks[i + 1]).used /\ ~chunks[i].used /\ ~chunks[i + 1].used
  BY DEF IInv, TypeOK, Join, Mergeable
<1>1. /\ DOMAIN chunks' = 1..(n - 1)
      /\ \A j \in 1..(i - 1) : chunks'[j] = chunks[j]
      /\ chunks'[i] = Join(chunks[i], chunks[i + 1])
      /\ \A j \in (i + 1)..(n - 1) : chunks'[j] = chunks[j + 1]
  <2> DEFINE new == Merged(i)
  <2>1. /\ new \in Seq(Chunk) /\ Len(new) = n - 1
        /\ \A j \in 1..(i - 1) : new[j] = chunks[j]
        /\ new[i] = Join(chunks[i], chunks[i + 1])
        /\ \A j \in (i + 1)..(n - 1) : new[j] = chunks[j + 1]
    BY <1>0, MergedElements, Zenon
  <2>2. chunks' = new
    OBVIOUS
  <2> HIDE DEF new
  <2> QED
    BY <2>1, <2>2
<1>2. ASSUME NEW x \in UsedChunks' PROVE x \in UsedChunks
  <2>1. PICK j \in 1..(n - 1) : chunks'[j].used /\ x = chunks'[j]
    BY <1>1, <1>2 DEF UsedChunks
  <2>2. CASE j \in 1..(i - 1)
    <3>1. j \in 1..n /\ chunks'[j] = chunks[j]
      BY <2>2, <1>0, <1>1
    <3> QED
      BY <3>1, <2>1, <1>0, UsedElements
  <2>3. CASE j \in (i + 1)..(n - 1)
    <3>1. j + 1 \in 1..n /\ chunks'[j] = chunks[j + 1]
      BY <2>3, <1>0, <1>1
    <3> QED
      BY <3>1, <2>1, <1>0, UsedElements
  <2>4. j # i
    BY <2>1, <1>0, <1>1
  <2> QED
    BY <2>2, <2>3, <2>4, <1>0
<1>3. ASSUME NEW x \in UsedChunks PROVE x \in UsedChunks'
  <2>1. PICK j \in 1..n : chunks[j].used /\ x = chunks[j]
    BY <1>0, <1>3, UsedElements
  <2>2. CASE j \in 1..(i - 1)
    <3>1. j \in 1..(n - 1) /\ chunks'[j] = chunks[j]
      BY <2>2, <1>0, <1>1
    <3> QED
      BY <3>1, <2>1, <1>1 DEF UsedChunks
  <2>3. CASE j \in (i + 2)..n
    <3>1. j - 1 \in (i + 1)..(n - 1) /\ (j - 1) + 1 = j
      BY <2>3, <1>0
    <3>2. j - 1 \in 1..(n - 1) /\ chunks'[j - 1] = chunks[j]
      BY <3>1, <1>0, <1>1
    <3> QED
      BY <3>2, <2>1, <1>1 DEF UsedChunks
  <2>4. j # i /\ j # i + 1
    BY <2>1, <1>0
  <2> QED
    BY <2>2, <2>3, <2>4, <1>0
<1> QED
  BY <1>2, <1>3, Zenon

\* expand's new tail chunk is free.
LEMMA ExpandUsed ==
  ASSUME IInv, HeapExpand
  PROVE  UsedChunks' = UsedChunks
<1> DEFINE n == Len(chunks)  new == [addr |-> EndOf(Last(chunks)), size |-> Step, used |-> FALSE]
<1>0. n \in Nat /\ DOMAIN chunks = 1..n /\ chunks' = Append(chunks, new) /\ ~new.used
  BY DEF IInv, TypeOK, HeapExpand
<1> HIDE DEF new
<1>1. /\ DOMAIN chunks' = 1..(n + 1) /\ chunks'[n + 1] = new
      /\ \A j \in 1..n : chunks'[j] = chunks[j]
  BY <1>0 DEF IInv, TypeOK
<1>2. \A j \in 1..(n + 1) : j \in 1..n \/ j = n + 1
  BY <1>0
<1>3. \A j \in 1..n : j \in 1..(n + 1)
  BY <1>0
<1> QED
  BY <1>0, <1>1, <1>2, <1>3 DEF UsedChunks

\* heapFree takes the chunk freed, and no other, from those in use.
LEMMA FreeUsed ==
  ASSUME IInv, NEW i \in DOMAIN chunks, HeapFree(i)
  PROVE  UsedChunks' = UsedChunks \ {chunks[i]}
<1> DEFINE n == Len(chunks)
<1>0. TypeOK /\ n \in Nat /\ DOMAIN chunks = 1..n /\ i \in 1..n
  BY DEF IInv, TypeOK
<1>1. /\ DOMAIN chunks' = 1..n /\ ~chunks'[i].used
      /\ \A j \in 1..n : j # i => chunks'[j] = chunks[j]
  BY <1>0 DEF HeapFree, TypeOK
<1>2. ASSUME NEW j \in 1..n, j # i PROVE chunks[j] # chunks[i]
  <2>1. chunks[j].addr # chunks[i].addr
    <3>1. /\ chunks[j].addr \in Nat /\ chunks[j].size \in Nat
          /\ chunks[i].addr \in Nat /\ chunks[i].size \in Nat
          /\ EndOf(chunks[j]) = chunks[j].addr + Header + chunks[j].size
          /\ EndOf(chunks[i]) = chunks[i].addr + Header + chunks[i].size
      BY <1>0, ChunkFacts
    <3>2. EndOf(chunks[j]) <= chunks[i].addr \/ EndOf(chunks[i]) <= chunks[j].addr
      BY <1>0, <1>2 DEF IInv, ChunksDisjoint
    <3>3. Header \in Nat /\ Header > 0
      BY HeapConstants
    <3> QED
      BY <3>1, <3>2, <3>3
  <2> QED
    BY <2>1
<1> QED
  BY <1>0, <1>1, <1>2 DEF UsedChunks

Live == {Payload(c) : c \in UsedChunks}

\* A payload just placed is apart from every payload in use.
LEMMA PlacedApart ==
  ASSUME IInv, NEW size \in Sizes, NEW i \in DOMAIN chunks, Fits(chunks[i], size),
         NEW a \in Live
  PROVE  Promise!Apart(a, Payload(Cut(chunks[i], size)))
<1> DEFINE c == chunks[i]
<1>1. PICK j \in DOMAIN chunks : chunks[j].used /\ a = Payload(chunks[j])
  BY DEF Live, UsedChunks
<1> DEFINE d == chunks[j]
<1>2. /\ c.addr \in Nat /\ c.size \in Nat /\ EndOf(c) = c.addr + Header + c.size
      /\ d.addr \in Nat /\ d.size \in Nat /\ EndOf(d) = d.addr + Header + d.size
  BY ChunkFacts DEF IInv
<1>3. EndOf(c) <= d.addr \/ EndOf(d) <= c.addr
  <2>1. i # j
    BY <1>1 DEF Fits
  <2> QED
    BY <2>1 DEF IInv, ChunksDisjoint, TypeOK
<1>4. c.size >= Header + size /\ size \in Nat /\ Header \in Nat
  BY HeapConstants DEF Fits
<1>5. /\ a.base = d.addr + Header /\ a.size = d.size
      /\ Payload(Cut(c, size)).base = c.addr + Header /\ Payload(Cut(c, size)).size = size
  BY <1>1 DEF Payload, Cut
<1> HIDE DEF c, d
<1>6. d.addr + Header + d.size <= c.addr + Header \/ c.addr + Header + size <= d.addr + Header
  BY <1>2, <1>3, <1>4
<1> QED
  BY <1>5, <1>6 DEF Promise!Apart, c

\* allocate is an Allocate of the promise.
LEMMA PlaceImplements ==
  ASSUME IInv, IInv', NEW size \in Sizes, NEW i \in DOMAIN chunks, Fits(chunks[i], size),
         chunks' = Split(i, size), heapEnd' = heapEnd
  PROVE  Promise!Allocate
<1> DEFINE cut == Cut(chunks[i], size)  b == Payload(cut)
<1>1. UsedChunks' = UsedChunks \cup {cut}
  BY PlaceUsed
<1>2. Live' = Live \cup {b} /\ b \in Live'
  BY <1>1 DEF Live
<1>3. \A a \in Live : Promise!Apart(a, b)
  BY PlacedApart
<1>4. PICK k \in DOMAIN chunks' : chunks'[k].used /\ cut = chunks'[k]
  BY <1>1 DEF UsedChunks
<1>5. HeapStart <= cut.addr /\ EndOf(cut) <= heapEnd
  BY <1>4 DEF IInv, PayloadsInHeap, EndOf
<1>6. cut.addr \in Nat /\ cut.size \in Nat /\ cut.size > 0 /\ Header \in Nat /\ HeapStart \in Nat
  <2>1. chunks[i].addr \in Nat
    BY ChunkFacts DEF IInv
  <2>2. size \in Nat /\ size > 0
    BY HeapConstants
  <2>3. cut.addr = chunks[i].addr /\ cut.size = size
    BY DEF Cut
  <2> HIDE DEF cut
  <2> QED
    BY <2>1, <2>2, <2>3, HeapConstants
<1>7. b.base = cut.addr + Header /\ b.size = cut.size /\ EndOf(cut) = cut.addr + Header + cut.size
  BY DEF Payload, EndOf
<1> HIDE DEF b, cut
<1>8. b.size > 0 /\ HeapStart <= b.base /\ b.base + b.size <= heapEnd
  BY <1>5, <1>6, <1>7
<1> QED
  BY <1>2, <1>3, <1>8 DEF Promise!Allocate, Live

\* Every step of the heap is a step of the promise, or leaves the payloads in
\* use and the end of the heap alone.
LEMMA StepImplements ==
  IInv /\ IInv' /\ [Next]_vars => [Promise!Next]_(<<Live, heapEnd>>)
<1> SUFFICES ASSUME IInv, IInv', [Next]_vars
             PROVE  Promise!Next \/ (Live' = Live /\ heapEnd' = heapEnd)
  OBVIOUS
<1>1. ASSUME NEW size \in Sizes, TryAllocate(size)
      PROVE  Promise!Next \/ (Live' = Live /\ heapEnd' = heapEnd)
  <2>1. ASSUME NEW i \in DOMAIN chunks, Fits(chunks[i], size), chunks' = Split(i, size),
               heapEnd' = heapEnd
        PROVE  Promise!Next
    BY <2>1, PlaceImplements DEF Promise!Next
  <2> QED
    BY <1>1, <2>1 DEF TryAllocate, FirstFit, Live, UsedChunks
<1>2. ASSUME NEW size \in Sizes, HeapAllocate(size)
      PROVE  Promise!Next \/ (Live' = Live /\ heapEnd' = heapEnd)
  BY <1>1, <1>2 DEF HeapAllocate
<1>3. CASE RetryAllocate
  BY <1>1, <1>3 DEF RetryAllocate, IInv, RequestInv
<1>4. CASE HeapExpand
  BY <1>4, ExpandUsed DEF HeapExpand, Live
<1>5. CASE ExpandFails
  BY <1>5 DEF ExpandFails, Live, UsedChunks
<1>6. ASSUME NEW i \in DOMAIN chunks, HeapFree(i) PROVE Promise!Next
  <2>1. UsedChunks' = UsedChunks \ {chunks[i]} /\ chunks[i] \in UsedChunks
    BY <1>6, FreeUsed, Zenon DEF HeapFree, UsedChunks
  <2>2. ASSUME NEW c \in UsedChunks, NEW d \in UsedChunks, Payload(c) = Payload(d) PROVE c = d
    <3>1. c \in Chunk /\ d \in Chunk /\ c.used /\ d.used
      BY ChunkFacts DEF UsedChunks, IInv
    <3>2. c.addr + Header = d.addr + Header /\ c.size = d.size
      <4>1. Payload(c).base = Payload(d).base /\ Payload(c).size = Payload(d).size
        BY <2>2
      <4> QED
        BY <4>1 DEF Payload
    <3>3. c.addr \in Nat /\ d.addr \in Nat /\ Header \in Nat
      BY <3>1, HeapConstants DEF Chunk
    <3>4. c.addr = d.addr
      BY <3>2, <3>3
    <3>5. c.used = TRUE /\ d.used = TRUE
      BY <3>1 DEF Chunk
    <3> QED
      BY <3>1, <3>2, <3>4, <3>5 DEF Chunk
  <2>3. Live' = Live \ {Payload(chunks[i])} /\ Payload(chunks[i]) \in Live
    BY <2>1, <2>2 DEF Live
  <2>4. heapEnd' = heapEnd
    BY <1>6 DEF HeapFree
  <2> QED
    BY <2>3, <2>4 DEF Promise!Next, Promise!Free, Live
<1>7. CASE MergeNext
  <2>1. curr \in 1..(Len(chunks) - 1)
    BY <1>7 DEF MergeNext, IInv, TypeOK
  <2> QED
    BY <1>7, <2>1, MergeUsed, Zenon DEF MergeNext, Live, UsedChunks
<1>8. CASE MergeDone
  <2>1. heapEnd' = heapEnd \/ (heapEnd' \in Nat /\ heapEnd' > heapEnd)
    BY <1>8, HeapConstants DEF MergeDone, IInv, TypeOK
  <2>2. Live' = Live
    BY <1>8 DEF MergeDone, Live, UsedChunks
  <2> QED
    BY <2>1, <2>2 DEF Promise!Next, Promise!Grow, Live
<1>9. CASE UNCHANGED vars
  BY <1>9 DEF vars, Live, UsedChunks
<1> QED
  BY <1>2, <1>3, <1>4, <1>5, <1>6, <1>7, <1>8, <1>9 DEF Next

\* The kernel heap implements the abstract allocator, for every page size,
\* header size, expansion step, limit and choice of request sizes.
THEOREM HeapImplementsAllocator == Spec => HeapIsAllocator
<1>1. Init => Promise!Init
  BY HeapConstants DEF Init, Promise!Init, UsedChunks
<1>2. IInv /\ IInv' /\ [Next]_vars
        => [Promise!Next]_(<<{Payload(c) : c \in UsedChunks}, heapEnd>>)
  BY StepImplements DEF Live
<1> QED
  BY <1>1, <1>2, Invariant, PTL DEF Spec, HeapIsAllocator, Promise!Spec

\* No step but the heapFree of it moves, resizes or takes away a chunk in use.
THEOREM HeapOnlyFreeTakesAway == Spec => OnlyFreeTakesAway
<1> DEFINE A == UsedChunks \subseteq UsedChunks' \/ \E i \in DOMAIN chunks : HeapFree(i)
                  /\ UsedChunks \ {chunks[i]} \subseteq UsedChunks'
<1>1. IInv /\ [Next]_vars => [A]_vars
  <2> SUFFICES ASSUME IInv, Next PROVE A
    OBVIOUS
  <2>1. ASSUME NEW size \in Sizes, TryAllocate(size) PROVE UsedChunks \subseteq UsedChunks'
    BY <2>1, PlaceUsed DEF TryAllocate, FirstFit, UsedChunks
  <2>2. CASE (\E size \in Sizes : HeapAllocate(size)) \/ RetryAllocate
    BY <2>1, <2>2 DEF HeapAllocate, RetryAllocate, IInv, RequestInv
  <2>3. CASE HeapExpand \/ ExpandFails \/ MergeDone
    BY <2>3, ExpandUsed DEF ExpandFails, MergeDone, UsedChunks
  <2>4. ASSUME NEW i \in DOMAIN chunks, HeapFree(i) PROVE A
    BY <2>4, FreeUsed
  <2>5. CASE MergeNext
    <3>1. curr \in 1..(Len(chunks) - 1)
      BY <2>5 DEF MergeNext, IInv, TypeOK
    <3> QED
      BY <2>5, <3>1, MergeUsed, Zenon DEF MergeNext, UsedChunks
  <2> QED
    BY <2>2, <2>3, <2>4, <2>5 DEF Next
<1> QED
  BY <1>1, Invariant, PTL DEF Spec, OnlyFreeTakesAway

-------------------------------------------------------------------------------
(* The header of the tail chunk and the pages mapped for it.               *)

\* Whole pages are counted exactly.
LEMMA PagesExact ==
  ASSUME NEW x \in Nat, x % PageSize = 0
  PROVE  PagesIn(x) \in Nat /\ PageSize * PagesIn(x) = x
  BY HeapConstants DEF PagesIn

\* The tail chunk begins at most a header above heapEnd, also the one that
\* heapExpand has appended and not counted yet; the page above the initial end
\* stays mapped.
MappedInv ==
  /\ chunks[Len(chunks)].addr <= heapEnd + Header
  /\ InitialEnd + PageSize <= mappedTo

\* heapInitialize establishes it.
LEMMA InitMapped == Init => MappedInv
<1> SUFFICES ASSUME Init PROVE MappedInv
  OBVIOUS
<1>1. InitialEnd - HeapStart \in Nat
  BY HeapConstants
<1> DEFINE q == PagesIn(InitialEnd - HeapStart)
<1>2. q \in Nat /\ PageSize * q = InitialEnd - HeapStart
  BY <1>1, HeapConstants, PagesExact
<1>3. mappedTo = HeapStart + PageSize * (q + 1)
  BY DEF Init, InitialPages
<1> HIDE DEF q
<1>4. PageSize * (q + 1) = PageSize * q + PageSize
  BY <1>2, HeapConstants
<1>5. mappedTo = InitialEnd + PageSize
  BY <1>2, <1>3, <1>4, HeapConstants
<1>6. Len(chunks) = 1 /\ chunks[1].addr = HeapStart /\ heapEnd = InitialEnd
  BY DEF Init
<1> QED
  BY <1>5, <1>6, HeapConstants DEF MappedInv

\* No step unmaps a page.
LEMMA MappedGrows ==
  ASSUME IInv, [Next]_vars
  PROVE  mappedTo <= mappedTo'
<1>1. mappedTo \in Nat /\ frames \in Nat /\ PageSize \in Nat /\ HeapStart \in Nat
  BY HeapConstants DEF IInv, TypeOK
<1>2. CASE HeapExpand \/ ExpandFails
  <2>1. mappedTo' = mappedTo \/ \E n : mappedTo' = MappedBy(n)
    BY <1>2 DEF HeapExpand, ExpandFails
  <2>2. IInv'
    BY NextIInv
  <2> QED
    BY <1>1, <2>1, <2>2 DEF MappedBy, IInv, TypeOK
<1>3. CASE mappedTo' = mappedTo
  BY <1>1, <1>3
<1> QED
  BY <1>2, <1>3 DEF Next, vars, HeapAllocate, RetryAllocate, TryAllocate, HeapFree, MergeNext, MergeDone

\* Every step keeps it.
LEMMA NextMapped ==
  ASSUME IInv, MappedInv, [Next]_vars
  PROVE  MappedInv'
<1>0. Header \in Nat /\ PageSize \in Nat /\ InitialEnd \in Nat
  BY HeapConstants
<1>1. IInv' /\ TypeOK /\ TypeOK' /\ mappedTo <= mappedTo'
  BY NextIInv, MappedGrows DEF IInv
<1>2. mappedTo \in Nat /\ mappedTo' \in Nat /\ heapEnd \in Nat /\ heapEnd' \in Nat
  BY <1>1 DEF TypeOK
<1>3. InitialEnd + PageSize <= mappedTo'
  BY <1>0, <1>1, <1>2 DEF MappedInv
<1> DEFINE n == Len(chunks)
<1>4. n \in Nat /\ n >= 1 /\ DOMAIN chunks = 1..n /\ n \in DOMAIN chunks
  BY <1>1 DEF TypeOK
<1>5. /\ chunks[n].addr \in Nat /\ EndOf(chunks[n]) \in Nat /\ chunks[n].size \in Nat
      /\ EndOf(chunks[n]) = chunks[n].addr + Header + chunks[n].size
  BY <1>1, <1>4, ChunkFacts
<1>6. chunks'[Len(chunks')].addr <= heapEnd' + Header
  <2>1. CASE ~(pc' = "merge" /\ op'.kind = "expand")
    <3>1. EndOf(chunks'[Len(chunks')]) <= heapEnd' + Header
      BY <1>1, <2>1 DEF IInv, TailInv, EndOf
    <3>2. chunks'[Len(chunks')] \in Chunk
      BY <1>1 DEF TypeOK
    <3>3. chunks'[Len(chunks')].addr \in Nat /\ chunks'[Len(chunks')].size \in Nat
      BY <3>2 DEF Chunk
    <3> QED
      BY <1>0, <1>2, <3>1, <3>3 DEF EndOf
  <2>2. CASE HeapExpand
    <3> DEFINE new == [addr |-> EndOf(Last(chunks)), size |-> Step, used |-> FALSE]
    <3>1. chunks' = Append(chunks, new) /\ new.addr = EndOf(chunks[n]) /\ heapEnd' = heapEnd
      BY <2>2 DEF HeapExpand, Last
    <3> HIDE DEF new
    <3>2. chunks'[Len(chunks')] = new
      BY <1>1, <3>1 DEF TypeOK
    <3>3. pc # "merge"
      BY <2>2 DEF HeapExpand
    <3>4. EndOf(chunks[n]) <= heapEnd + Header
      BY <3>3 DEF IInv, TailInv
    <3> QED
      BY <3>1, <3>2, <3>4
  <2>3. CASE MergeNext
    <3>1. heapEnd' = heapEnd /\ curr \in 1..(n - 1)
      BY <1>1, <2>3 DEF MergeNext, TypeOK
    <3>2. CASE chunks' = chunks
      BY <3>1, <3>2 DEF MappedInv
    <3>3. CASE chunks' = Merged(curr)
      <4>1. /\ Len(chunks') = n - 1 /\ chunks'[curr] = Join(chunks[curr], chunks[curr + 1])
            /\ \A j \in (curr + 1)..(n - 1) : chunks'[j] = chunks[j + 1]
        <5>1. /\ Len(Merged(curr)) = n - 1
              /\ Merged(curr)[curr] = Join(chunks[curr], chunks[curr + 1])
              /\ \A j \in (curr + 1)..(n - 1) : Merged(curr)[j] = chunks[j + 1]
          BY <1>1, <3>1, MergedElements, Zenon
        <5> QED
          BY <3>3, <5>1, Zenon
      <4>2. CASE curr = n - 1
        <5>1. chunks'[Len(chunks')].addr = chunks[curr].addr
          BY <4>1, <4>2 DEF Join
        <5>2. curr \in DOMAIN chunks /\ n \in DOMAIN chunks /\ curr < n
          BY <1>4, <3>1
        <5>3. EndOf(chunks[curr]) <= chunks[n].addr
          BY <5>2 DEF IInv, ChunksDisjoint
        <5>4. /\ chunks[curr].addr \in Nat /\ chunks[curr].size \in Nat
              /\ EndOf(chunks[curr]) = chunks[curr].addr + Header + chunks[curr].size
          BY <1>1, <5>2, ChunkFacts
        <5>5. chunks[curr].addr <= chunks[n].addr
          BY <1>0, <1>5, <5>3, <5>4
        <5> QED
          BY <1>0, <1>2, <1>5, <3>1, <5>1, <5>4, <5>5 DEF MappedInv
      <4>3. CASE curr # n - 1
        <5>1. n - 1 \in (curr + 1)..(n - 1) /\ (n - 1) + 1 = n
          <6>1. ASSUME NEW m \in Nat, NEW k \in 1..(m - 1), k # m - 1
                PROVE  m - 1 \in (k + 1)..(m - 1) /\ (m - 1) + 1 = m
            BY <6>1
          <6> HIDE DEF n
          <6> QED
            BY <1>4, <3>1, <4>3, <6>1
        <5>2. chunks'[n - 1] = chunks[n]
          BY <4>1, <5>1
        <5> QED
          BY <3>1, <4>1, <5>2 DEF MappedInv
      <4> QED
        BY <4>2, <4>3
    <3> QED
      BY <2>3, <3>2, <3>3 DEF MergeNext
  <2>4. CASE UNCHANGED vars
    BY <2>4 DEF vars, MappedInv
  <2>5. CASE ExpandFails \/ (\E i \in DOMAIN chunks : HeapFree(i)) \/ MergeDone
             \/ (\E size \in Sizes : HeapAllocate(size)) \/ RetryAllocate
    <3>1. ~(pc' = "merge" /\ op'.kind = "expand")
      BY <2>5 DEF ExpandFails, HeapFree, MergeDone, HeapAllocate, RetryAllocate, TryAllocate
    <3> QED
      BY <2>1, <3>1
  <2> QED
    BY <2>2, <2>3, <2>4, <2>5 DEF Next
<1> QED
  BY <1>3, <1>6 DEF MappedInv

\* Until the heap is expanded for the first time every header of the list lies
\* in the pages heapInitialize has mapped, the one behind the last byte included.
THEOREM HeadersAlwaysMapped == Spec => []HeadersMappedUntilExpanded
<1>1. IInv /\ MappedInv => HeadersMappedUntilExpanded
  <2> SUFFICES ASSUME IInv, MappedInv, heapEnd = InitialEnd, NEW i \in DOMAIN chunks
               PROVE  chunks[i].addr + Header <= mappedTo
    BY DEF HeadersMappedUntilExpanded
  <2> DEFINE n == Len(chunks)
  <2>1. /\ TypeOK /\ n \in Nat /\ n \in DOMAIN chunks /\ i \in 1..n /\ mappedTo \in Nat
        /\ Header \in Nat /\ PageSize \in Nat /\ InitialEnd \in Nat /\ 2 * Header <= PageSize
    BY HeapConstants DEF IInv, TypeOK
  <2>2. /\ chunks[i].addr \in Nat /\ chunks[i].size \in Nat /\ chunks[n].addr \in Nat
        /\ EndOf(chunks[i]) = chunks[i].addr + Header + chunks[i].size
    BY <2>1, ChunkFacts
  <2>3. chunks[i].addr <= chunks[n].addr
    <3>1. CASE i = n
      BY <2>2, <3>1
    <3>2. CASE i # n
      <4>1. EndOf(chunks[i]) <= chunks[n].addr
        BY <2>1, <3>2 DEF IInv, ChunksDisjoint
      <4> QED
        BY <2>1, <2>2, <4>1
    <3> QED
      BY <3>1, <3>2
  <2> QED
    BY <2>1, <2>2, <2>3 DEF MappedInv
<1> QED
  BY <1>1, InitMapped, NextMapped, Invariant, PTL DEF Spec

-------------------------------------------------------------------------------
(* heapUsed.                                                               *)

\* What the chunks of s add to heapUsed, one by one.
Bytes(s) == [i \in 1..Len(s) |-> IF s[i].used THEN s[i].size ELSE 0]

\* They are numbers, and so are their sums.
LEMMA BytesType ==
  ASSUME NEW s \in Seq(Chunk)
  PROVE  /\ \A i \in 1..Len(s) : Bytes(s)[i] \in Nat
         /\ \A n \in 0..Len(s) : Total(Bytes(s), n) \in Nat
         /\ UsedBytes(s) = Total(Bytes(s), Len(s)) /\ UsedBytes(s) \in Nat
<1>1. ASSUME NEW i \in 1..Len(s) PROVE Bytes(s)[i] \in Nat
  <2>1. s[i] \in Chunk
    OBVIOUS
  <2>2. s[i].size \in Nat
    BY <2>1 DEF Chunk
  <2> QED
    BY <2>2 DEF Bytes
<1>2. ASSUME NEW n \in 0..Len(s) PROVE Total(Bytes(s), n) \in Nat
  <2>1. n \in Nat /\ \A i \in 1..n : Bytes(s)[i] \in Nat
    BY <1>1
  <2> QED
    BY <2>1, TotalType
<1>3. UsedBytes(s) = Total(Bytes(s), Len(s))
  BY DEF UsedBytes, Bytes
<1>4. Len(s) \in 0..Len(s)
  OBVIOUS
<1> QED
  BY <1>1, <1>2, <1>3, <1>4

\* Lists s and t agree up to place a and, d places apart, behind place b of s.
Around(s, t, a, b, d) ==
  /\ s \in Seq(Chunk) /\ t \in Seq(Chunk) /\ d \in Nat /\ Len(t) = Len(s) + d
  /\ a \in Nat /\ b \in Nat /\ a <= b /\ b <= Len(s)
  /\ \A j \in 1..a : t[j] = s[j]
  /\ \A j \in (b + 1)..Len(s) : t[j + d] = s[j]

\* Then they differ in the bytes of the places between only.
LEMMA BytesAround ==
  ASSUME NEW s, NEW t, NEW a, NEW b, NEW d, Around(s, t, a, b, d)
  PROVE  /\ Total(Bytes(t), a) = Total(Bytes(s), a)
         /\ UsedBytes(t) - Total(Bytes(t), b + d) = UsedBytes(s) - Total(Bytes(s), b)
<1>0. /\ s \in Seq(Chunk) /\ t \in Seq(Chunk) /\ d \in Nat /\ Len(t) = Len(s) + d
      /\ a \in Nat /\ b \in Nat /\ a <= b /\ b <= Len(s)
      /\ \A j \in 1..a : t[j] = s[j]
      /\ \A j \in (b + 1)..Len(s) : t[j + d] = s[j]
  BY DEF Around
<1> USE <1>0
<1> DEFINE v == Bytes(t)  w == Bytes(s)  n == Len(s)
<1>1. /\ \A j \in 1..n : w[j] \in Nat
      /\ \A j \in 1..(n + d) : v[j] \in Nat
      /\ UsedBytes(s) = Total(w, n) /\ UsedBytes(t) = Total(v, n + d)
  BY BytesType, Zenon
<1>2. n \in Nat
  OBVIOUS
<1>3. \A j \in 1..a : v[j + 0] = w[j]
  BY DEF Bytes
<1>4. \A j \in (b + 1)..n : v[j + d] = w[j]
  BY DEF Bytes
<1> HIDE DEF v, w, n
<1>5. Total(v, n + d) - Total(v, b + d) = Total(w, n) - Total(w, b)
  <2>1. b <= n
    BY DEF n
  <2>2. Shifted(v, w, b, n, d)
    BY <1>1, <1>2, <1>4, <2>1 DEF Shifted
  <2> QED
    BY <2>2, TotalShift
<1>6. Total(v, a) = Total(w, a)
  <2>1. /\ \A j \in 1..a : w[j] \in Nat
        /\ \A j \in 1..(a + 0) : v[j] \in Nat
        /\ \A j \in (0 + 1)..a : v[j + 0] = w[j]
    <3>1. a <= n
      BY DEF n
    <3> QED
      BY <1>1, <1>2, <1>3, <3>1
  <2>a. Shifted(v, w, 0, a, 0)
    BY <2>1 DEF Shifted
  <2>2. Total(v, a + 0) - Total(v, 0 + 0) = Total(w, a) - Total(w, 0)
    BY <2>a, TotalShift
  <2>3. Total(v, 0) = 0 /\ Total(w, 0) = 0
    BY TotalStep
  <2>4. Total(v, a) \in Nat /\ Total(w, a) \in Nat
    BY <2>1, TotalType
  <2> QED
    BY <2>2, <2>3, <2>4
<1> QED
  BY <1>1, <1>5, <1>6 DEF v, w

\* The sum up to a place, from the sum up to the one before.
LEMMA BytesStep ==
  ASSUME NEW s \in Seq(Chunk), NEW i \in 1..Len(s)
  PROVE  Total(Bytes(s), i) = Total(Bytes(s), i - 1) + (IF s[i].used THEN s[i].size ELSE 0)
<1>1. i - 1 \in Nat /\ (i - 1) + 1 = i
  OBVIOUS
<1>2. Total(Bytes(s), (i - 1) + 1) = Total(Bytes(s), i - 1) + Bytes(s)[(i - 1) + 1]
  BY <1>1, TotalStep, Zenon
<1> QED
  BY <1>1, <1>2 DEF Bytes

\* What chunk i of s adds.
BytesAt(s, i) == IF s[i].used THEN s[i].size ELSE 0

\* t is s with its free chunk i in two pieces, the second of them free.
CutAt(s, t, i) ==
  /\ s \in Seq(Chunk) /\ t \in Seq(Chunk) /\ i \in 1..Len(s) /\ Len(t) = Len(s) + 1
  /\ \A j \in 1..(i - 1) : t[j] = s[j]
  /\ \A j \in (i + 2)..(Len(s) + 1) : t[j] = s[j - 1]
  /\ ~s[i].used /\ ~t[i + 1].used

\* The first piece adds what it has if it is used.
LEMMA CutBytes ==
  ASSUME NEW s, NEW t, NEW i, CutAt(s, t, i)
  PROVE  UsedBytes(t) = UsedBytes(s) + BytesAt(t, i)
<1>1. /\ s \in Seq(Chunk) /\ t \in Seq(Chunk) /\ i \in 1..Len(s)
      /\ i \in 1..Len(t) /\ i + 1 \in 1..Len(t) /\ (i + 1) - 1 = i
  BY DEF CutAt
<1>2. Around(s, t, i - 1, i, 1)
  <2>1. \A j \in (i + 1)..Len(s) : t[j + 1] = s[j]
    BY DEF CutAt
  <2> QED
    BY <2>1 DEF CutAt, Around
<1>3. /\ Total(Bytes(t), i - 1) = Total(Bytes(s), i - 1)
      /\ UsedBytes(t) - Total(Bytes(t), i + 1) = UsedBytes(s) - Total(Bytes(s), i)
  BY <1>2, BytesAround
<1>4. Total(Bytes(s), i) = Total(Bytes(s), i - 1) + BytesAt(s, i)
  BY <1>1, BytesStep DEF BytesAt
<1>5. Total(Bytes(t), i) = Total(Bytes(t), i - 1) + BytesAt(t, i)
  BY <1>1, BytesStep DEF BytesAt
<1>6. Total(Bytes(t), i + 1) = Total(Bytes(t), i) + BytesAt(t, i + 1)
  BY <1>1, BytesStep DEF BytesAt
<1>7. BytesAt(s, i) = 0 /\ BytesAt(t, i + 1) = 0
  BY DEF CutAt, BytesAt
<1>8. /\ UsedBytes(s) \in Nat /\ UsedBytes(t) \in Nat /\ Total(Bytes(s), i - 1) \in Nat
      /\ Total(Bytes(t), i + 1) \in Nat /\ Total(Bytes(t), i) \in Nat /\ Total(Bytes(s), i) \in Nat
  <2>1. i - 1 \in 0..Len(s) /\ i \in 0..Len(s) /\ i \in 0..Len(t) /\ i + 1 \in 0..Len(t)
    BY <1>1
  <2> QED
    BY <1>1, <2>1, BytesType
<1>9. BytesAt(t, i) \in Nat
  BY <1>1, BytesType, Zenon DEF Bytes, BytesAt
<1> QED
  BY <1>3, <1>4, <1>5, <1>6, <1>7, <1>8, <1>9

\* t is s with its used chunk i free.
FreedAt(s, t, i) ==
  /\ s \in Seq(Chunk) /\ t \in Seq(Chunk) /\ i \in 1..Len(s) /\ Len(t) = Len(s)
  /\ \A j \in 1..Len(s) : j # i => t[j] = s[j]
  /\ s[i].used /\ ~t[i].used

\* Freeing a chunk takes its size away.
LEMMA FreedBytes ==
  ASSUME NEW s, NEW t, NEW i, FreedAt(s, t, i)
  PROVE  UsedBytes(s) = UsedBytes(t) + s[i].size
<1>1. s \in Seq(Chunk) /\ t \in Seq(Chunk) /\ i \in 1..Len(s) /\ i \in 1..Len(t) /\ i + 0 = i
  BY DEF FreedAt
<1>2. Around(s, t, i - 1, i, 0)
  <2>1. (\A j \in 1..(i - 1) : t[j] = s[j]) /\ \A j \in (i + 1)..Len(s) : t[j + 0] = s[j]
    BY DEF FreedAt
  <2>2. i - 1 \in Nat /\ i \in Nat /\ i - 1 <= i /\ i <= Len(s) /\ Len(t) = Len(s) + 0
    BY DEF FreedAt
  <2> QED
    BY <1>1, <2>1, <2>2 DEF Around
<1>3. /\ Total(Bytes(t), i - 1) = Total(Bytes(s), i - 1)
      /\ UsedBytes(t) - Total(Bytes(t), i) = UsedBytes(s) - Total(Bytes(s), i)
  BY <1>1, <1>2, BytesAround
<1>4. Total(Bytes(s), i) = Total(Bytes(s), i - 1) + BytesAt(s, i)
  BY <1>1, BytesStep DEF BytesAt
<1>5. Total(Bytes(t), i) = Total(Bytes(t), i - 1) + BytesAt(t, i)
  BY <1>1, BytesStep DEF BytesAt
<1>6. BytesAt(s, i) = s[i].size /\ BytesAt(t, i) = 0
  BY DEF FreedAt, BytesAt
<1>7. /\ UsedBytes(s) \in Nat /\ UsedBytes(t) \in Nat /\ Total(Bytes(s), i - 1) \in Nat
      /\ Total(Bytes(t), i) \in Nat /\ Total(Bytes(s), i) \in Nat
  <2>1. i - 1 \in 0..Len(s) /\ i \in 0..Len(s) /\ i \in 0..Len(t)
    BY <1>1
  <2> QED
    BY <1>1, <2>1, BytesType
<1>8. BytesAt(s, i) \in Nat
  BY <1>1, BytesType, Zenon DEF Bytes, BytesAt
<1>9. UsedBytes(s) = UsedBytes(t) + BytesAt(s, i)
  <2>1. Total(Bytes(t), i) = Total(Bytes(s), i - 1)
    BY <1>3, <1>5, <1>6, <1>7
  <2>2. UsedBytes(t) - Total(Bytes(s), i - 1) = UsedBytes(s) - (Total(Bytes(s), i - 1) + BytesAt(s, i))
    BY <1>3, <1>4, <2>1
  <2> DEFINE us == UsedBytes(s)  ut == UsedBytes(t)  k == Total(Bytes(s), i - 1)  z == BytesAt(s, i)
  <2>3. us \in Nat /\ ut \in Nat /\ k \in Nat /\ z \in Nat /\ ut - k = us - (k + z)
    BY <1>7, <1>8, <2>2
  <2> HIDE DEF us, ut, k, z
  <2>4. us = ut + z
    BY <2>3
  <2> QED
    BY <2>4 DEF us, ut, z
<1> QED
  BY <1>6, <1>9

\* A free chunk appended adds nothing.
LEMMA AppendBytes ==
  ASSUME NEW s \in Seq(Chunk), NEW c \in Chunk, ~c.used
  PROVE  UsedBytes(Append(s, c)) = UsedBytes(s)
<1> DEFINE t == Append(s, c)  n == Len(s)
<1>1. /\ t \in Seq(Chunk) /\ Len(t) = n + 1 /\ n \in Nat /\ t[n + 1] = c
      /\ (\A j \in 1..n : t[j] = s[j]) /\ n <= n
  OBVIOUS
<1>2. n + 1 \in 1..Len(t) /\ (n + 1) - 1 = n /\ \A j \in (n + 1)..n : t[j + 1] = s[j]
  BY <1>1
<1> HIDE DEF t
<1>3. Total(Bytes(t), n) = Total(Bytes(s), n)
  <2>1. Around(s, t, n, n, 1)
    BY <1>1, <1>2 DEF Around
  <2> QED
    BY <2>1, BytesAround
<1>4. Total(Bytes(t), n + 1) = Total(Bytes(t), n) + 0
  BY <1>1, <1>2, BytesStep
<1>5. UsedBytes(s) = Total(Bytes(s), n) /\ UsedBytes(s) \in Nat /\ UsedBytes(t) = Total(Bytes(t), n + 1)
  BY <1>1, BytesType
<1>6. UsedBytes(t) = UsedBytes(s)
  BY <1>3, <1>4, <1>5
<1> QED
  BY <1>6 DEF t

\* heapUsed counts the used chunks, and the one being freed until heapFree has
\* merged the list.
UsedInv ==
  heapUsed = UsedBytes(chunks) + (IF pc = "merge" /\ op.kind = "free" THEN op.size ELSE 0)

\* The heap starts with nothing used.
LEMMA InitUsed == Init => UsedInv
<1> SUFFICES ASSUME Init PROVE UsedInv
  OBVIOUS
<1>1. chunks \in Seq(Chunk) /\ 1 \in 1..Len(chunks) /\ Len(chunks) = 1 /\ ~chunks[1].used
  BY HeapConstants DEF Init, Chunk
<1>2. Total(Bytes(chunks), 1) = Total(Bytes(chunks), 1 - 1) + 0
  BY <1>1, BytesStep, Zenon
<1>3. Total(Bytes(chunks), 0) = 0
  BY TotalStep
<1>4. UsedBytes(chunks) = 0
  <2>1. UsedBytes(chunks) = Total(Bytes(chunks), 1)
    BY <1>1, BytesType, ZenonT(30)
  <2>2. 1 - 1 = 0
    OBVIOUS
  <2> QED
    BY <1>2, <1>3, <2>1, <2>2
<1> QED
  BY <1>4 DEF Init, UsedInv

\* Every step keeps it: allocate adds what it has cut, free what it will take
\* away, and merging and appending nothing.
LEMMA NextUsed ==
  ASSUME IInv, UsedInv, [Next]_vars
  PROVE  UsedInv'
<1>1. IInv' /\ TypeOK /\ chunks \in Seq(Chunk) /\ chunks' \in Seq(Chunk) /\ DOMAIN chunks = 1..Len(chunks)
  BY NextIInv DEF IInv, TypeOK
<1>2. heapUsed \in Int /\ UsedBytes(chunks) \in Nat /\ UsedBytes(chunks') \in Nat
  BY <1>1, BytesType DEF TypeOK
<1>3. ASSUME NEW size \in Sizes, TryAllocate(size), pc # "merge" PROVE UsedInv'
  <2>1. CASE chunks' = chunks /\ heapUsed' = heapUsed /\ pc' = "expand"
    BY <1>3, <2>1 DEF UsedInv
  <2>2. ASSUME NEW i \in DOMAIN chunks, FirstFit(i, size), chunks' = Split(i, size),
               heapUsed' = heapUsed + size, pc' = "idle"
        PROVE  UsedInv'
    <3>1. size \in Nat /\ Fits(chunks[i], size)
      BY <2>2, HeapConstants DEF FirstFit
    <3>2. /\ Len(chunks') = Len(chunks) + 1
          /\ \A j \in 1..(i - 1) : chunks'[j] = chunks[j]
          /\ chunks'[i] = Cut(chunks[i], size) /\ chunks'[i + 1] = Rest(chunks[i], size)
          /\ \A j \in (i + 2)..(Len(chunks) + 1) : chunks'[j] = chunks[j - 1]
      BY <1>1, <2>2, <3>1, SplitElements
    <3>3. chunks'[i].used /\ chunks'[i].size = size /\ ~chunks'[i + 1].used
      BY <3>2 DEF Cut, Rest
    <3>4. CutAt(chunks, chunks', i)
      BY <1>1, <2>2, <3>1, <3>2, <3>3 DEF CutAt, Fits
    <3>5. UsedBytes(chunks') = UsedBytes(chunks) + size
      BY <3>3, <3>4, CutBytes DEF BytesAt
    <3> QED
      BY <1>2, <1>3, <2>2, <3>1, <3>5 DEF UsedInv
  <2> QED
    BY <1>3, <2>1, <2>2 DEF TryAllocate
<1>4. ASSUME NEW size \in Sizes, HeapAllocate(size) PROVE UsedInv'
  BY <1>3, <1>4 DEF HeapAllocate
<1>5. CASE RetryAllocate
  BY <1>3, <1>5 DEF RetryAllocate, IInv, RequestInv
<1>6. CASE HeapExpand
  <2> DEFINE new == [addr |-> EndOf(Last(chunks)), size |-> Step, used |-> FALSE]
  <2>1. /\ chunks' = Append(chunks, new) /\ ~new.used /\ heapUsed' = heapUsed /\ op' = op
        /\ pc = "expand" /\ op.kind = "expand"
    BY <1>6 DEF HeapExpand, IInv, RequestInv
  <2>2. new \in Chunk
    <3>1. EndOf(Last(chunks)) \in Nat
      BY <1>1, ChunkFacts DEF TypeOK, Last
    <3> QED
      BY <3>1, HeapConstants DEF Chunk
  <2> HIDE DEF new
  <2>3. UsedBytes(chunks') = UsedBytes(chunks)
    BY <1>1, <2>1, <2>2, AppendBytes
  <2> QED
    BY <2>1, <2>3 DEF UsedInv
<1>7. CASE ExpandFails
  BY <1>7 DEF ExpandFails, UsedInv
<1>8. ASSUME NEW i \in DOMAIN chunks, HeapFree(i) PROVE UsedInv'
  <2> DEFINE freed == [addr |-> chunks[i].addr, size |-> chunks[i].size, used |-> FALSE]
  <2>1. /\ chunks' = [chunks EXCEPT ![i] = freed] /\ ~freed.used /\ chunks[i].used
        /\ op'.kind = "free" /\ op'.size = chunks[i].size /\ pc' = "merge" /\ pc = "idle"
        /\ heapUsed' = heapUsed
    BY <1>8 DEF HeapFree
  <2> HIDE DEF freed
  <2>2. FreedAt(chunks, chunks', i)
    BY <1>1, <2>1 DEF FreedAt
  <2>3. UsedBytes(chunks) = UsedBytes(chunks') + chunks[i].size
    BY <2>2, FreedBytes
  <2>4. chunks[i].size \in Nat
    BY <1>1, ChunkFacts
  <2> QED
    BY <1>2, <2>1, <2>3, <2>4 DEF UsedInv
<1>9. CASE MergeNext
  <2>1. CASE chunks' = chunks
    BY <1>9, <2>1 DEF MergeNext, UsedInv
  <2>2. CASE Mergeable(chunks[curr], chunks[curr + 1]) /\ chunks' = Merged(curr)
    <3>1. curr \in 1..(Len(chunks) - 1) /\ curr \in DOMAIN chunks /\ curr + 1 \in DOMAIN chunks
      <4>1. curr \in 1..Len(chunks)
        BY <1>1 DEF TypeOK
      <4>2. curr < Len(chunks)
        BY <1>9 DEF MergeNext
      <4> QED
        BY <1>1, <4>1, <4>2
    <3>2. /\ Len(chunks') = Len(chunks) - 1
          /\ \A j \in 1..(curr - 1) : chunks'[j] = chunks[j]
          /\ chunks'[curr] = Join(chunks[curr], chunks[curr + 1])
          /\ \A j \in (curr + 1)..(Len(chunks) - 1) : chunks'[j] = chunks[j + 1]
      BY <1>1, <2>2, <3>1, MergedElements, Zenon
    <3>3. ~chunks[curr].used /\ ~chunks[curr + 1].used /\ ~chunks'[curr].used
      BY <2>2, <3>2 DEF Mergeable, Join
    <3>4. CutAt(chunks', chunks, curr)
      BY <1>1, <3>1, <3>2, <3>3 DEF CutAt
    <3>5. UsedBytes(chunks) = UsedBytes(chunks') + 0
      BY <3>3, <3>4, CutBytes DEF BytesAt
    <3>6. UsedBytes(chunks') = UsedBytes(chunks)
      BY <1>2, <3>5
    <3> QED
      BY <1>9, <3>6 DEF MergeNext, UsedInv
  <2> QED
    BY <1>9, <2>1, <2>2 DEF MergeNext
<1>10. CASE MergeDone
  <2>1. /\ chunks' = chunks /\ pc = "merge" /\ pc' # "merge" /\ op' = op /\ op.size \in Nat
        /\ \/ op.kind = "free" /\ heapUsed' = heapUsed - op.size
           \/ op.kind = "expand" /\ heapUsed' = heapUsed
    BY <1>1, <1>10 DEF MergeDone, TypeOK
  <2> QED
    BY <1>2, <2>1 DEF UsedInv
<1>11. CASE UNCHANGED vars
  BY <1>11 DEF vars, UsedInv
<1> QED
  BY <1>4, <1>5, <1>6, <1>7, <1>8, <1>9, <1>10, <1>11 DEF Next

\* Between calls heapUsed is the sum of the payloads in use, whatever was
\* allocated, freed, merged and expanded before.
THEOREM HeapUsedAlwaysExact == Spec => []HeapUsedExact
<1>1. IInv /\ UsedInv => HeapUsedExact
  <2> SUFFICES ASSUME IInv, UsedInv, pc # "merge" PROVE heapUsed = UsedBytes(chunks)
    BY DEF HeapUsedExact
  <2>1. UsedBytes(chunks) \in Nat
    BY BytesType DEF IInv, TypeOK
  <2> QED
    BY <2>1 DEF UsedInv
<1> QED
  BY <1>1, InitUsed, NextUsed, Invariant, PTL DEF Spec
=============================================================================
