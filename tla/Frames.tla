------------------------------- MODULE Frames -------------------------------
(***************************************************************************)
(* BitmapAllocator, the allocator of physical page frames                  *)
(* (src/kernel/src/memory/bitmap_allocator.cpp, utils/Bitmap.cpp).         *)
(*                                                                         *)
(* A frame is the number of its page, a bit of the bitmap is membership in *)
(* the set "free", and sizes count pages.  The bitmap lies in the memory it *)
(* describes, so initialize also locks the frames that hold it.            *)
(***************************************************************************)
EXTENDS Integers, FiniteSets

CONSTANTS Blocks,    \* the page frames of the physical address space
          Mapped,    \* those in an entry of the memory map; the others are holes
          Usable,    \* those the bootloader reports as usable
          ByteSize,  \* BYTE_SIZE, the bits of the bitmap in a byte
          PageSize   \* PAGE_SIZE, the bytes in a page

Block == 0 .. Blocks - 1

\* countMemory: the lengths of the entries, which are whole pages and disjoint.
memorySize == Cardinality(Mapped)

\* The bytes of the bitmap: (memorySize / PAGE_SIZE + 1) / BYTE_SIZE.  They hold the
\* bits of frames 0 up to memorySize or so, wherever the memory map has its frames.
BitmapSize == (memorySize + 1) \div ByteSize
Bits == 0 .. BitmapSize * ByteSize - 1

\* Usable frames with a bit.  initialize sets the others' bits behind its temporary
\* bitmap, on the stack (what that destroys is left out), and copies none of them.
Tracked == Usable \cap Bits

\* Pages from which the bitmap finds enough usable memory.  The search stops
\* at page bitmapSize.
Places == {p \in 0 .. BitmapSize - 1 :
             \A i \in 0 .. BitmapSize \div PageSize : p + i \in Tracked}

\* PAGING_ALIGN_PAGE_UP(bitmapSize) / PAGE_SIZE + 1 frames are locked.
BitmapPages == (BitmapSize + PageSize - 1) \div PageSize + 1

\* The search for a place succeeds: otherwise the code uses bitmapPage
\* uninitialized (the TODO of line 75).
ASSUME FramesAssumption ==
  /\ Blocks \in Nat /\ ByteSize \in Nat \ {0} /\ PageSize \in Nat \ {0}
  /\ Usable \subseteq Mapped /\ Mapped \subseteq Block
  /\ Places # {}

VARIABLES phys,   \* the allocator: its bitmap and its counters
          held    \* the frames handed out and not returned

frameVars == <<phys, held>>

Phys == [free : SUBSET Block, freeMemory : Int, usedMemory : Int]

reservedMemory == Cardinality(Mapped \ Usable)

-----------------------------------------------------------------------------
(* The operations, as functions of the allocator's state.                  *)

\* _lockBlock: nothing happens to a frame that is locked.
LockBlock(p, block) ==
  IF block \in p.free
  THEN [free |-> p.free \ {block},
        freeMemory |-> p.freeMemory - 1, usedMemory |-> p.usedMemory + 1]
  ELSE p

\* _freeBlock: nothing happens to a frame that is free.
FreeBlock(p, block) ==
  IF block \in p.free
  THEN p
  ELSE [free |-> p.free \cup {block},
        freeMemory |-> p.freeMemory + 1, usedMemory |-> p.usedMemory - 1]

\* _nextBlock walks as many bits as the bitmap has bytes.
Scanned == 0 .. BitmapSize - 1

NextBlock(p) ==
  LET found == p.free \cap Scanned
  IN  IF found = {} THEN 0 ELSE CHOOSE i \in found : \A j \in found : i <= j

\* allocatePage does not tell frame 0 from no frame at all.
AllocatePage(p) ==
  [page |-> NextBlock(p), phys |-> LockBlock(p, NextBlock(p))]

\* BitmapAllocator::initialize counts the memory, and places and locks the bitmap.
BootPhys ==
  LET place == CHOOSE p \in Places : \A q \in Places : p <= q
      bitmap == Tracked \cap (place .. place + BitmapPages - 1)
  IN  [free |-> Tracked \ bitmap,
       freeMemory |-> Cardinality(Usable) - Cardinality(bitmap),
       usedMemory |-> Cardinality(bitmap)]

-----------------------------------------------------------------------------
\* The counters of the allocator p tell what is free, with the frames that have no
\* bit and will never be handed out, and what is out together with the bitmap; they
\* add up to the memory map, and none of what is out is free.
Accounted(p, out) ==
  /\ p.freeMemory = Cardinality(p.free) + Cardinality(Usable \ Bits)
  /\ p.usedMemory = Cardinality(out) + Cardinality(Tracked \ BootPhys.free)
  /\ p.freeMemory + p.usedMemory + reservedMemory = memorySize
  /\ out \cap p.free = {}

=============================================================================
