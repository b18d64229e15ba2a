------------------------------- MODULE Paging -------------------------------
(***************************************************************************)
(* The four levels of page tables (src/kernel/src/memory/paging.cpp), as    *)
(* functions of a machine: the frame allocator, the frames that are out,   *)
(* and the tables in memory, each kept in the frame "tables" finds it at.  *)
(*                                                                         *)
(* A virtual address is the tuple of its four indices.  An entry keeps the *)
(* present bit, the address and the user bit; every other flag is the same *)
(* in all the entries the kernel writes.                                   *)
(***************************************************************************)
EXTENDS Frames, Functions, TLC, Bitwise

CONSTANTS PagetableSize,  \* PAGETABLE_SIZE
          FirstKernel     \* 256, the first index of the kernel's half

ASSUME PagingAssumption ==
  /\ PagetableSize \in Nat \ {0}
  /\ FirstKernel \in 0 .. PagetableSize

Index == 0 .. PagetableSize - 1
KernelHalf == FirstKernel .. PagetableSize - 1
Virt == Index \X Index \X Index \X Index

Entry == [present : BOOLEAN, addr : Block, user : BOOLEAN]
Table == [Index -> Entry]

Machine == [phys : Phys, held : SUBSET Block,
            tables : UNION {[S -> Table] : S \in SUBSET Block}]

\* memset(table, 0, PAGE_SIZE)
ZeroTable == [i \in Index |-> [present |-> FALSE, addr |-> 0, user |-> FALSE]]

NoFrame == -1

-----------------------------------------------------------------------------
(* Entries.                                                                *)

\* Entry i of the frame t.  A frame that was never a table reads as zero.
EntryIn(m, t, i) == IF t \in DOMAIN m.tables THEN m.tables[t][i] ELSE ZeroTable[i]

SetEntry(m, t, i, e) ==
  [m EXCEPT !.tables = (t :> [j \in Index |-> IF j = i THEN e ELSE EntryIn(m, t, j)]) @@ @]

\* The frame entry i of table t leads to, if it is present.
Follow(m, t, i) == IF EntryIn(m, t, i).present THEN EntryIn(m, t, i).addr ELSE NoFrame

\* The table of level n (1 is the PML4, 4 the PT) on the way to virt.
TableAt(m, space, virt, n) ==
  LET t[k \in 1 .. 4] == IF k = 1 THEN space ELSE Follow(m, t[k - 1], virt[k - 1])
  IN  t[n]

\* pagingVirtualToPhysical, in any space
VirtualToPhysical(m, space, virt) ==
  Follow(m, TableAt(m, space, virt, 4), virt[4])

\* What the processor lets a user reach: the bit is set on all four levels.
UserReaches(m, space, virt) ==
  /\ VirtualToPhysical(m, space, virt) # NoFrame
  /\ \A n \in 1 .. 4 : EntryIn(m, TableAt(m, space, virt, n), virt[n]).user

-----------------------------------------------------------------------------
(* Mapping.                                                                *)

\* One frame for data: what it held as a table is gone.
TakeFrame(m) ==
  LET a == AllocatePage(m.phys)
  IN  [page |-> a.page,
       machine |-> [phys |-> a.phys, held |-> m.held \cup {a.page},
                    tables |-> RestrictDomain(m.tables, LAMBDA t : t # a.page)]]

\* One level: the next table is followed to, or allocated, cleared and linked.
\* The address of a new table is or-ed into what the entry still holds.
Descend(w, i, user, override) ==
  LET e == EntryIn(w.m, w.table, i)
      a == AllocatePage(w.m.phys)
      cleared == [phys |-> a.phys, held |-> w.m.held \cup {a.page},
                  tables |-> (a.page :> ZeroTable) @@ w.m.tables]
      linked == [present |-> TRUE, addr |-> e.addr | a.page, user |-> e.user \/ user]
  IN  IF ~ e.present
      THEN [m |-> SetEntry(cleared, w.table, i, linked), table |-> a.page]
      ELSE [m |-> IF override THEN SetEntry(w.m, w.table, i, [e EXCEPT !.user = user])
                  ELSE w.m,
            table |-> e.addr]

\* A mutant: the flags of the caller reach the page, not the tables.
MutantMapPageInSpace(m, virt, frame, space, user, override) ==
  LET start == [m |-> m, table |-> space]
      pdpt  == Descend(start, virt[1], FALSE, override)
      pd    == Descend(pdpt, virt[2], FALSE, override)
      pt    == Descend(pd, virt[3], FALSE, override)
  IN  SetEntry(pt.m, pt.table, virt[4],
               [present |-> TRUE, addr |-> frame, user |-> user])

\* pagingMapPageInSpace
MapPageInSpace(m, virt, frame, space, user, override) ==
  LET start == [m |-> m, table |-> space]
      pdpt  == Descend(start, virt[1], user, override)
      pd    == Descend(pdpt, virt[2], user, override)
      pt    == Descend(pd, virt[3], user, override)
      page  == [present |-> TRUE, addr |-> frame, user |-> user]
  IN  IF EntryIn(pt.m, pt.table, virt[4]).present /\ ~ override
      THEN pt.m
      ELSE SetEntry(pt.m, pt.table, virt[4], page)

-----------------------------------------------------------------------------
(* Unmapping.                                                              *)

\* UNSET_FLAG(entry, PRESENT): the address stays behind.
Unset(m, t, i) == SetEntry(m, t, i, [EntryIn(m, t, i) EXCEPT !.present = FALSE])

\* pagingIsPagetableEmpty, whose loop starts at an uninitialized "from".
IsPagetableEmpty(m, t, from) ==
  \A i \in Index : i >= from => ~ EntryIn(m, t, i).present

\* A mutant: the frame of the table is not returned.
MutantFreeTable(m, t, parent, i) == Unset([m EXCEPT !.held = @ \ {t}], parent, i)

\* An emptied table goes back to the allocator and out of its parent.
FreeTable(m, t, parent, i) ==
  Unset([m EXCEPT !.phys = FreeBlock(@, t), !.held = @ \ {t}], parent, i)

\* pagingUnmapPageInSpace
UnmapPageInSpace(m, virt, space, from) ==
  LET pdpt == TableAt(m, space, virt, 2)
      pd   == TableAt(m, space, virt, 3)
      pt   == TableAt(m, space, virt, 4)
      page == Unset(m, pt, virt[4])
      noPT == FreeTable(page, pt, pd, virt[3])
      noPD == FreeTable(noPT, pd, pdpt, virt[2])
      noPDPT == FreeTable(noPD, pdpt, space, virt[1])
  IN  IF VirtualToPhysical(m, space, virt) = NoFrame THEN m
      ELSE IF ~ IsPagetableEmpty(page, pt, from) THEN page
      ELSE IF ~ IsPagetableEmpty(noPT, pd, from) THEN noPT
      ELSE IF ~ IsPagetableEmpty(noPD, pdpt, from) THEN noPD
      ELSE noPDPT

\* A mutant: the first entry of the kernel's half is not copied.
MutantCopyKernelMappings(m, source, target) ==
  [m EXCEPT !.tables[target] =
     [i \in Index |-> IF i \in KernelHalf /\ i - 1 \in KernelHalf
                      THEN m.tables[source][i] ELSE @[i]]]

\* pagingCopyKernelMappings
CopyKernelMappings(m, source, target) ==
  [m EXCEPT !.tables[target] =
     [i \in Index |-> IF i \in KernelHalf THEN m.tables[source][i] ELSE @[i]]]

=============================================================================
