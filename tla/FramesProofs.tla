----------------------------- MODULE FramesProofs -----------------------------
(***************************************************************************)
(* The bitmap allocator, for any memory map: its counters count after      *)
(* initialize and go on counting with every frame that is taken and given  *)
(* back, and a frame that is out is never handed out again.                *)
(***************************************************************************)
EXTENDS Frames, ListLemmas, FiniteSetTheorems

USE SMTT(20), ZenonT(20)  \* the provers of a leaf that names none

\* There are Blocks frames; a set of frames is finite.
LEMMA FramesFinite ==
  /\ IsFiniteSet(Block) /\ Cardinality(Block) = Blocks
  /\ \A S \in SUBSET Block : IsFiniteSet(S) /\ Cardinality(S) \in Nat
<1>1. Blocks \in Nat /\ 0 \in Int /\ Blocks - 1 \in Int
  BY FramesAssumption
<1>2. /\ IsFiniteSet(0..(Blocks - 1))
      /\ Cardinality(0..(Blocks - 1)) = IF 0 > Blocks - 1 THEN 0 ELSE (Blocks - 1) - 0 + 1
  BY <1>1, FS_Interval, Zenon
<1>3. IsFiniteSet(Block) /\ Cardinality(Block) = Blocks
  BY <1>1, <1>2 DEF Block
<1>4. ASSUME NEW S \in SUBSET Block PROVE IsFiniteSet(S) /\ Cardinality(S) \in Nat
  BY <1>3, FS_Subset, FS_CardinalityType
<1> QED BY <1>3, <1>4

\* _nextBlock finds the lowest free frame it walks over.
LEMMA NextFound ==
  ASSUME NEW p \in Phys, p.free \cap Scanned # {}
  PROVE  /\ NextBlock(p) \in p.free \cap Scanned
         /\ \A j \in p.free \cap Scanned : NextBlock(p) <= j
<1> DEFINE found == p.free \cap Scanned
<1>1. found \in SUBSET Nat /\ found # {}
  BY DEF Scanned
<1> HIDE DEF found
<1>2. \E i \in found : \A j \in found : i <= j
  BY <1>1, Least
<1>3. /\ (CHOOSE i \in found : \A j \in found : i <= j) \in found
      /\ \A j \in found : (CHOOSE i \in found : \A k \in found : i <= k) <= j
  BY <1>2, Zenon
<1>4. NextBlock(p) = CHOOSE i \in found : \A j \in found : i <= j
  BY <1>1 DEF NextBlock, found
<1> QED BY <1>3, <1>4 DEF found

-------------------------------------------------------------------------------
\* After initialize, which locks the frames of the bitmap, the counters count: no
\* frame is out, and free, used and reserved memory add up to the memory map, also
\* when it has holes and the bitmap is too short for its last frames.
THEOREM BootAccounted == BootPhys \in Phys /\ Accounted(BootPhys, {})
<1> DEFINE place == CHOOSE p \in Places : \A q \in Places : p <= q
           bitmap == Tracked \cap (place .. place + BitmapPages - 1)
<1>1. BootPhys = [free |-> Tracked \ bitmap,
                  freeMemory |-> Cardinality(Usable) - Cardinality(bitmap),
                  usedMemory |-> Cardinality(bitmap)]
  BY DEF BootPhys
<1>2. /\ bitmap \in SUBSET Tracked /\ Tracked = Usable \cap Bits
      /\ Usable \in SUBSET Mapped /\ Mapped \in SUBSET Block
  BY FramesAssumption DEF Tracked
<1> HIDE DEF bitmap
<1>3. /\ IsFiniteSet(Usable) /\ IsFiniteSet(bitmap) /\ IsFiniteSet(Mapped) /\ IsFiniteSet(Tracked)
      /\ Cardinality(Usable) \in Nat /\ Cardinality(bitmap) \in Nat
      /\ Cardinality(Mapped) \in Nat /\ Cardinality(Tracked) \in Nat
  <2>1. bitmap \in SUBSET Block /\ Usable \in SUBSET Block /\ Tracked \in SUBSET Block BY <1>2
  <2> QED BY <1>2, <2>1, FramesFinite
<1>4. Cardinality(Tracked \ bitmap) = Cardinality(Tracked) - Cardinality(bitmap)
  <2>1. Tracked \cap bitmap = bitmap BY <1>2
  <2> QED BY <1>3, <2>1, FS_Difference, Zenon
<1>5. Cardinality(Usable \ Bits) = Cardinality(Usable) - Cardinality(Tracked)
  <2>1. Usable \cap Tracked = Tracked /\ Usable \ Tracked = Usable \ Bits BY <1>2
  <2>2. Cardinality(Usable \ Tracked) = Cardinality(Usable) - Cardinality(Usable \cap Tracked)
    BY <1>3, FS_Difference, Zenon
  <2> QED BY <2>1, <2>2
<1>6. reservedMemory = Cardinality(Mapped) - Cardinality(Usable)
  <2>1. Mapped \cap Usable = Usable BY <1>2
  <2>2. Cardinality(Mapped \ Usable) = Cardinality(Mapped) - Cardinality(Mapped \cap Usable)
    BY <1>3, FS_Difference, Zenon
  <2> QED BY <2>1, <2>2 DEF reservedMemory
<1>7. Tracked \ (Tracked \ bitmap) = bitmap
  BY <1>2
<1>8. Cardinality({}) = 0
  BY FS_EmptySet
<1>9. /\ BootPhys.free = Tracked \ bitmap
      /\ BootPhys.freeMemory = Cardinality(Usable) - Cardinality(bitmap)
      /\ BootPhys.usedMemory = Cardinality(bitmap)
  BY <1>1
<1>10. BootPhys \in Phys
  <2>1. Tracked \ bitmap \in SUBSET Block BY <1>2
  <2> QED BY <1>1, <1>3, <2>1 DEF Phys
<1>11. Accounted(BootPhys, {})
  <2>1. Cardinality(Tracked \ BootPhys.free) = Cardinality(bitmap)
    BY <1>7, <1>9
  <2>2. BootPhys.freeMemory = Cardinality(BootPhys.free) + Cardinality(Usable \ Bits)
    BY <1>3, <1>4, <1>5, <1>9
  <2>3. /\ BootPhys.usedMemory = Cardinality({}) + Cardinality(Tracked \ BootPhys.free)
        /\ BootPhys.freeMemory + BootPhys.usedMemory + reservedMemory = memorySize
    BY <1>3, <1>6, <1>8, <1>9, <2>1 DEF memorySize
  <2> QED BY <1>9, <2>2, <2>3 DEF Accounted
<1> QED BY <1>10, <1>11

\* allocatePage with a free frame in sight takes the lowest one, which nobody
\* holds, and the counters go on counting.
THEOREM AllocateAccounted ==
  ASSUME NEW p \in Phys, NEW out \in SUBSET Block, Accounted(p, out),
         p.free \cap Scanned # {}
  PROVE  /\ AllocatePage(p).page \in p.free \ out
         /\ \A j \in p.free \cap Scanned : AllocatePage(p).page <= j
         /\ AllocatePage(p).phys \in Phys
         /\ Accounted(AllocatePage(p).phys, out \cup {AllocatePage(p).page})
<1> DEFINE b == NextBlock(p)  r == LockBlock(p, b)
<1>1. b \in p.free /\ \A j \in p.free \cap Scanned : b <= j
  BY NextFound
<1>2. /\ p.free \in SUBSET Block /\ p.freeMemory \in Int /\ p.usedMemory \in Int
      /\ p.freeMemory = Cardinality(p.free) + Cardinality(Usable \ Bits)
      /\ p.usedMemory = Cardinality(out) + Cardinality(Tracked \ BootPhys.free)
      /\ p.freeMemory + p.usedMemory + reservedMemory = memorySize
      /\ out \cap p.free = {}
  BY DEF Phys, Accounted
<1>3. AllocatePage(p).page = b /\ AllocatePage(p).phys = r
  BY DEF AllocatePage
<1> HIDE DEF b
<1>4. /\ r.free = p.free \ {b} /\ r.freeMemory = p.freeMemory - 1
      /\ r.usedMemory = p.usedMemory + 1 /\ r \in Phys
  BY <1>1, <1>2 DEF LockBlock, Phys
<1>5. b \notin out /\ (out \cup {b}) \cap (p.free \ {b}) = {}
  BY <1>1, <1>2
<1>6. IsFiniteSet(p.free) /\ IsFiniteSet(out) /\ Cardinality(out) \in Nat /\ Cardinality(p.free) \in Nat
  BY <1>2, FramesFinite
<1>7. /\ Cardinality(p.free \ {b}) = Cardinality(p.free) - 1
      /\ Cardinality(out \cup {b}) = Cardinality(out) + 1
  <2>1. Cardinality(p.free \ {b}) = IF b \in p.free THEN Cardinality(p.free) - 1
                                   ELSE Cardinality(p.free)
    BY <1>6, FS_RemoveElement, Zenon
  <2>2. Cardinality(out \cup {b}) = IF b \in out THEN Cardinality(out) ELSE Cardinality(out) + 1
    BY <1>6, FS_AddElement, Zenon
  <2> QED BY <1>1, <1>5, <2>1, <2>2
<1>8. /\ Cardinality(Tracked \ BootPhys.free) \in Nat /\ Cardinality(Usable \ Bits) \in Nat
      /\ reservedMemory \in Nat /\ memorySize \in Nat
  <2>1. /\ Tracked \ BootPhys.free \in SUBSET Block /\ Usable \ Bits \in SUBSET Block
        /\ Mapped \ Usable \in SUBSET Block /\ Mapped \in SUBSET Block
    BY FramesAssumption DEF Tracked
  <2> QED BY <2>1, FramesFinite DEF reservedMemory, memorySize
<1> HIDE DEF r
<1>9. Accounted(r, out \cup {b})
  BY <1>2, <1>4, <1>5, <1>6, <1>7, <1>8 DEF Accounted
<1> QED BY <1>1, <1>3, <1>4, <1>5, <1>9

\* freePage of a frame that is out makes it free again, and the counters go on
\* counting.
THEOREM FreeAccounted ==
  ASSUME NEW p \in Phys, NEW out \in SUBSET Block, Accounted(p, out), NEW b \in out
  PROVE  /\ b \in FreeBlock(p, b).free
         /\ FreeBlock(p, b) \in Phys
         /\ Accounted(FreeBlock(p, b), out \ {b})
<1> DEFINE r == FreeBlock(p, b)
<1>1. /\ p.free \in SUBSET Block /\ p.freeMemory \in Int /\ p.usedMemory \in Int
      /\ p.freeMemory = Cardinality(p.free) + Cardinality(Usable \ Bits)
      /\ p.usedMemory = Cardinality(out) + Cardinality(Tracked \ BootPhys.free)
      /\ p.freeMemory + p.usedMemory + reservedMemory = memorySize
      /\ out \cap p.free = {}
  BY DEF Phys, Accounted
<1>2. b \notin p.free /\ b \in Block
  BY <1>1
<1>3. /\ r.free = p.free \cup {b} /\ r.freeMemory = p.freeMemory + 1
      /\ r.usedMemory = p.usedMemory - 1 /\ r \in Phys
  BY <1>1, <1>2 DEF FreeBlock, Phys
<1>4. (out \ {b}) \cap (p.free \cup {b}) = {}
  BY <1>1
<1>5. IsFiniteSet(p.free) /\ IsFiniteSet(out) /\ Cardinality(out) \in Nat /\ Cardinality(p.free) \in Nat
  BY <1>1, FramesFinite
<1>6. /\ Cardinality(p.free \cup {b}) = Cardinality(p.free) + 1
      /\ Cardinality(out \ {b}) = Cardinality(out) - 1
  <2>1. Cardinality(out \ {b}) = IF b \in out THEN Cardinality(out) - 1 ELSE Cardinality(out)
    BY <1>5, FS_RemoveElement, Zenon
  <2>2. Cardinality(p.free \cup {b}) = IF b \in p.free THEN Cardinality(p.free)
                                      ELSE Cardinality(p.free) + 1
    BY <1>5, FS_AddElement, Zenon
  <2> QED BY <1>2, <2>1, <2>2
<1>7. /\ Cardinality(Tracked \ BootPhys.free) \in Nat /\ Cardinality(Usable \ Bits) \in Nat
      /\ reservedMemory \in Nat /\ memorySize \in Nat
  <2>1. /\ Tracked \ BootPhys.free \in SUBSET Block /\ Usable \ Bits \in SUBSET Block
        /\ Mapped \ Usable \in SUBSET Block /\ Mapped \in SUBSET Block
    BY FramesAssumption DEF Tracked
  <2> QED BY <2>1, FramesFinite DEF reservedMemory, memorySize
<1> HIDE DEF r
<1>8. Accounted(r, out \ {b})
  BY <1>1, <1>3, <1>4, <1>5, <1>6, <1>7 DEF Accounted
<1>9. b \in r.free
  BY <1>3
<1> QED BY <1>3, <1>8, <1>9 DEF r
===============================================================================
