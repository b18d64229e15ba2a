--------------------------- MODULE AddressSpaces ---------------------------
(***************************************************************************)
(* The address spaces of the kernel and of its processes: what             *)
(* k_userspace_allocator (userspace_allocator.cpp), the loading of         *)
(* processes (elf.cpp, tasking.cpp), the heap and the drivers do with the  *)
(* page tables and with the frame allocator.                               *)
(*                                                                         *)
(* A region is the sequence of consecutive pages a range allocator grants, *)
(* and "granted" holds the regions in force, by the space whose allocator  *)
(* granted them (the kernel's own is under Kernel), with the pointer the   *)
(* caller got: the base, or eight bytes below it.  The kernel's allocator, *)
(* for which useRange is never called, grants disjoint regions: this is    *)
(* what RangeAllocator shows.  A process's allocator may grant pages that  *)
(* are in force, once useRange has taken pages at the base of a free range *)
(* and vmUnmap has freed them: vmMap is given any region.                  *)
(* "kernel" and "user" record which frame each page was mapped to; the     *)
(* properties compare them with what the tables say.                       *)
(***************************************************************************)
EXTENDS Paging, SequencesExt

CONSTANTS BootRegion,     \* what pagingInitialize maps
          BootFrame,      \* the frame its first page is mapped to
          KernelRegions,  \* regions of K_CONST_KERNEL_VIRTUAL_RANGES and of the heap
          UserRegions,    \* regions of a process's allocator
          Programs,       \* the segments of ELF files, a sequence of regions each
          ThreadRegions,  \* stack, TLS and argv of a user's thread, in this order
          Devices,        \* frames of devices and of firmware tables
          LoopStart,      \* values the uninitialized loop variable may have
          MaxSpaces       \* bounds the address spaces

\* First fit finds room for a thread below the segments (elfLoad's file is linked
\* at 4 MiB, the process's memory begins at 4 KiB).
ASSUME ProgramsAssumption ==
  \A program \in Programs : \A i \in DOMAIN program, j \in DOMAIN ThreadRegions :
    Range(program[i]) \cap Range(ThreadRegions[j]) = {}

VARIABLES tables,   \* the page tables in memory
          spaces,   \* the PML4s of the kernel and of the processes
          cr3,      \* the space in use
          granted,  \* the regions in force
          kernel,   \* kernel page -> the frame it was mapped to
          user,     \* space and user page -> the frame it was mapped to
          image     \* space -> the pages of the program and of its thread

vars == <<phys, held, tables, spaces, cr3, granted, kernel, user, image>>

Kernel == NoFrame
machine == [phys |-> phys, held |-> held, tables |-> tables]
Pages(region) == Range(region)

Become(m) == phys' = m.phys /\ held' = m.held /\ tables' = m.tables

-----------------------------------------------------------------------------
(* Loops over the pages of a region.                                       *)

\* pagingMapMemoryInTable
MapMemory(m, region, frame, space, override) ==
  FoldLeft(LAMBDA acc, i : MapPageInSpace(acc, region[i], frame + i - 1, space,
                                          FALSE, override),
           m, [i \in DOMAIN region |-> i])

\* A mutant: one frame is allocated for all the pages.
MutantMapFresh(m, region, space, isUser) ==
  LET f == TakeFrame(m)
  IN  FoldLeft(LAMBDA acc, v :
                 [m |-> MapPageInSpace(acc.m, v, f.page, space, isUser, FALSE),
                  given |-> acc.given @@ (v :> f.page)],
               [m |-> f.machine, given |-> <<>>], region)

\* A frame is allocated and mapped for each page; "given" are the frames.
MapFresh(m, region, space, isUser) ==
  FoldLeft(LAMBDA acc, v :
             LET f == TakeFrame(acc.m)
             IN  [m |-> MapPageInSpace(f.machine, v, f.page, space, isUser, FALSE),
                  given |-> acc.given @@ (v :> f.page)],
           [m |-> m, given |-> <<>>], region)

\* pagingUnmapPage on every page
UnmapMemory(m, region, space, from) ==
  FoldLeft(LAMBDA acc, v : UnmapPageInSpace(acc, v, space, from), m, region)

-----------------------------------------------------------------------------
(* The steps.                                                              *)

\* pagingInitialize: the first frame becomes the PML4 (taken to be zero: the
\* code does not clear it) and the kernel is mapped with override.  The identity
\* map of the low memory, which only this space has, is left out.
Init ==
  LET a == AllocatePage(BootPhys)
      m == MapMemory([phys |-> a.phys, held |-> {a.page},
                      tables |-> a.page :> ZeroTable],
                     BootRegion, BootFrame, a.page, TRUE)
  IN  /\ phys = m.phys /\ held = m.held /\ tables = m.tables
      /\ spaces = {a.page}
      /\ cr3 = a.page
      /\ granted = {}
      /\ kernel = [v \in Pages(BootRegion) |->
                     BootFrame + (CHOOSE i \in DOMAIN BootRegion : BootRegion[i] = v) - 1]
      /\ user = <<>>
      /\ image = <<>>

\* The PML4 of the kernel; the other spaces belong to processes.
BootSpace == AllocatePage(BootPhys).page

\* The kernel's allocator hands out ranges that overlap none in force.
Grantable(region) ==
  \A g \in granted : g.owner = Kernel => Pages(g.region) \cap Pages(region) = {}

Grant(owner, region, ptr) == [owner |-> owner, region |-> region, ptr |-> ptr]

\* Bound: no step is taken that might find the allocator empty, because no
\* caller looks at the frame it gets (the TODO of paging.cpp:9).  A page
\* takes at most four frames; a new space has at most the tables of one entry.
EnoughFrames(n) == Cardinality(phys.free \cap Scanned) >= n
TablesOfSpace == 2 + PagetableSize + PagetableSize^2

\* k_userspace_allocator's constructor
Construct(m) ==
  LET f == TakeFrame(m)
      zeroed == [f.machine EXCEPT !.tables = (f.page :> ZeroTable) @@ @]
  IN  [m |-> CopyKernelMappings(zeroed, cr3, f.page), space |-> f.page]

\* taskingInitialize: a process with a thread of the kernel, whose stack is in the
\* kernel's half.  taskingCreateThread leaves the new space in use.
CreateKernelProcess(stack) ==
  LET p == Construct(machine)
      r == MapFresh(p.m, stack, p.space, FALSE)
  IN  /\ Cardinality(spaces) < MaxSpaces
      /\ EnoughFrames(1 + 4 * Len(stack))
      /\ Grantable(stack)
      /\ granted' = granted \cup {Grant(Kernel, stack, "below")}
      /\ Become(r.m)
      /\ spaces' = spaces \cup {p.space} /\ cr3' = p.space
      /\ kernel' = r.given @@ kernel
      /\ UNCHANGED <<user, image>>

\* k_userspace_allocator::allocateRange: useRange at the address of the segment,
\* which it refuses when a page of it is in use; then nothing is mapped.
AllocateRange(acc, region, space) ==
  LET r == MapFresh(acc.m, region, space, TRUE)
  IN  IF \E g \in acc.regions : Pages(g) \cap Pages(region) # {} THEN acc
      ELSE [m |-> r.m, given |-> acc.given @@ r.given, regions |-> acc.regions \cup {region}]

AllocateRanges(acc, regions, space) ==
  FoldLeft(LAMBDA a, region : AllocateRange(a, region, space), acc, regions)

\* elfLoad, and taskingCreateThread for its main thread: a new space, every
\* segment at its address, then stack, TLS and argv where first fit puts them, and
\* the interrupt stack in the kernel's half.  Copying a segment to a page that is
\* not mapped is a page fault, in which the kernel halts: no state follows.
ElfLoad(segments, interruptStack) ==
  /\ Cardinality(spaces) < MaxSpaces
  /\ EnoughFrames(TablesOfSpace + 4 * Len(interruptStack)
                    + Len(FlattenSeq(segments \o ThreadRegions)))
  /\ Grantable(interruptStack)
  /\ \E p \in {Construct(machine)} :
     \E loaded \in {AllocateRanges([m |-> p.m, given |-> <<>>, regions |-> {}],
                                   segments, p.space)} :
     \E thread \in {AllocateRanges(loaded, ThreadRegions, p.space)} :
     \E stack \in {MapFresh(thread.m, interruptStack, p.space, FALSE)} :
       /\ \A i \in DOMAIN segments : Pages(segments[i]) \subseteq DOMAIN loaded.given
       /\ granted' = granted
            \cup {Grant(Kernel, interruptStack, "below")}
            \cup {Grant(p.space, g, "base") : g \in loaded.regions}
            \cup {Grant(p.space, g, "below") : g \in thread.regions \ loaded.regions}
       /\ Become(stack.m)
       /\ spaces' = spaces \cup {p.space} /\ cr3' = p.space
       /\ kernel' = stack.given @@ kernel
       /\ user' = user @@ [k \in {p.space} \X DOMAIN thread.given |-> thread.given[k[2]]]
       /\ image' = image @@ (p.space :> Pages(FlattenSeq(segments \o ThreadRegions)))

\* pagingSwitchSpace, as taskingSwitch, elfLoad and taskingCreateThread call it
SwitchSpace(space) ==
  /\ cr3' = space
  /\ UNCHANGED <<phys, held, tables, spaces, granted, kernel, user, image>>

\* heapExpand: frames mapped into the kernel's half of the current space.
ExpandHeap(region) ==
  LET r == MapFresh(machine, region, cr3, FALSE)
  IN  /\ Grantable(region)
      /\ EnoughFrames(4 * Len(region))
      /\ granted' = granted \cup {Grant(Kernel, region, "base")}
      /\ Become(r.m)
      /\ kernel' = r.given @@ kernel
      /\ UNCHANGED <<spaces, cr3, user, image>>

\* vmMap, in the space Syscall::handle has switched to: at the hint (allocateRange)
\* or anywhere (allocateStack, which returns a pointer below the range).  The region
\* may overlap others of the process.  A page that is still mapped keeps its frame,
\* and the new one is lost.
VmMap(space, region, ptr) ==
  LET r == MapFresh(machine, region, space, TRUE)
  IN  /\ EnoughFrames(4 * Len(region))
      /\ granted' = granted \cup {Grant(space, region, ptr)}
      /\ Become(r.m)
      /\ cr3' = space
      /\ user' = user @@ [k \in {space} \X DOMAIN r.given |-> r.given[k[2]]]
      /\ UNCHANGED <<spaces, kernel, image>>

\* vmUnmap and freeStack: the range is free again, the pages stay mapped.  A
\* pointer below the range names none, and nothing happens.
VmUnmap(space, g) ==
  /\ g \in granted /\ g.owner = space
  /\ granted' = IF g.ptr = "base" THEN granted \ {g} ELSE granted
  /\ cr3' = space
  /\ UNCHANGED <<phys, held, tables, spaces, kernel, user, image>>

\* A driver maps the registers of a device (pciEnumerateDevices, the AHCI,
\* LAPIC and IOAPIC drivers).
MapDevice(region, frame) ==
  /\ Grantable(region)
  /\ EnoughFrames(4 * Len(region))
  /\ granted' = granted \cup {Grant(Kernel, region, "base")}
  /\ Become(MapMemory(machine, region, frame, cr3, FALSE))
  /\ kernel' = [v \in Pages(region) |->
                  frame + (CHOOSE i \in DOMAIN region : region[i] = v) - 1] @@ kernel
  /\ UNCHANGED <<spaces, cr3, user, image>>

\* acpiMapSDT: the header is read through a page that is mapped and unmapped
\* again, then a range is mapped for the table.  Its loop advances by
\* PAGE_SIZE towards a number of pages, so it maps the first page only.
\* First fit gives both ranges the same base.
AcpiMapSDT(region, frame) ==
  \E from \in LoopStart :
    LET virt == region[1]
        temporary == MapPageInSpace(machine, virt, frame, cr3, FALSE, FALSE)
        unmapped == UnmapPageInSpace(temporary, virt, cr3, from)
    IN  /\ Grantable(region)
        /\ EnoughFrames(4)
        /\ granted' = granted \cup {Grant(Kernel, region, "base")}
        /\ Become(MapPageInSpace(unmapped, virt, frame, cr3, FALSE, FALSE))
        /\ kernel' = (virt :> frame) @@ kernel
        /\ UNCHANGED <<spaces, cr3, user, image>>

\* pciEnumerateDevices gives its window back and unmaps it.
UnmapDevice(region) ==
  \E from \in LoopStart :
    /\ Grant(Kernel, region, "base") \in granted
    /\ kernel[region[1]] \in Devices
    /\ granted' = granted \ {Grant(Kernel, region, "base")}
    /\ Become(UnmapMemory(machine, region, cr3, from))
    /\ kernel' = [v \in DOMAIN kernel \ Pages(region) |-> kernel[v]]
    /\ UNCHANGED <<spaces, cr3, user, image>>

\* Every page table under the region keeps a page of someone else.
LeavesTables(region) ==
  \A v \in Pages(region) :
    \E w \in DOMAIN kernel \ Pages(region) : SubSeq(w, 1, 3) = SubSeq(v, 1, 3)

Users == spaces \cap DOMAIN image

AnyStep ==
  \/ \E region \in KernelRegions : CreateKernelProcess(region) \/ ExpandHeap(region)
  \/ \E program \in Programs, region \in KernelRegions : ElfLoad(program, region)
  \/ \E space \in spaces : SwitchSpace(space)
  \/ \E space \in Users, region \in UserRegions, ptr \in {"base", "below"} :
        VmMap(space, region, ptr)
  \/ \E space \in Users : \E g \in granted : VmUnmap(space, g)
  \/ \E region \in KernelRegions, frame \in Devices : MapDevice(region, frame)
  \/ \E region \in KernelRegions, frame \in Devices : AcpiMapSDT(region, frame)

Next ==
  \/ AnyStep
  \/ \E region \in KernelRegions : LeavesTables(region) /\ UnmapDevice(region)

\* Regions are unmapped whatever shares their tables.
NextUnmap ==
  \/ AnyStep
  \/ \E region \in KernelRegions : UnmapDevice(region)

Spec == Init /\ [][Next]_vars
SpecUnmap == Init /\ [][NextUnmap]_vars

-----------------------------------------------------------------------------
(* What the properties speak of.                                           *)

\* The pages of the model.
AllPages ==
  Pages(BootRegion)
    \cup UNION {Pages(r) : r \in KernelRegions \cup UserRegions \cup ToSet(ThreadRegions)}
    \cup UNION {Pages(r) : r \in UNION {ToSet(program) : program \in Programs}}

\* The places of tables: a space, a level and the indices that lead there.  A
\* place below the kernel's half is the same in every space.
PlaceOf(space, virt, n) ==
  <<IF n > 1 /\ virt[1] \in KernelHalf THEN Kernel ELSE space, n, SubSeq(virt, 1, n - 1)>>

TablePlaces ==
  {p \in {<<TableAt(machine, space, v, n), PlaceOf(space, v, n)>> :
            space \in spaces, v \in AllPages, n \in 1 .. 4} : p[1] # NoFrame}

TableFrames == {p[1] : p \in TablePlaces}

\* The frames that were taken for a page and are still mapped.
TakenFor == {<<Kernel, v>> : v \in {w \in DOMAIN kernel : kernel[w] \in Usable}}
              \cup DOMAIN user
FrameOf(k) == IF k[1] = Kernel THEN kernel[k[2]] ELSE user[k]

-----------------------------------------------------------------------------
(* Properties.                                                             *)

\* The variables have their types.
TypeOK ==
  /\ phys \in Phys
  /\ held \subseteq Block
  /\ DOMAIN tables \subseteq Block
  /\ \A t \in DOMAIN tables : tables[t] \in Table
  /\ spaces \subseteq DOMAIN tables /\ cr3 \in spaces
  /\ \A g \in granted : g.owner \in {Kernel} \cup spaces /\ Pages(g.region) \subseteq AllPages

\* In every space the tables translate a page of the kernel to the frame
\* pagingMapPage was asked for, whichever space was in use then, a user's page
\* to the frame its own process was given, and no other page to anything.
TranslationExact ==
  \A space \in spaces, v \in AllPages :
    VirtualToPhysical(machine, space, v) =
      IF v \in DOMAIN kernel THEN kernel[v]
      ELSE IF <<space, v>> \in DOMAIN user THEN user[<<space, v>>]
      ELSE NoFrame

\* A frame serves as a table at one place only, and is not free while it does.  The
\* frame behind a page that got one from the allocator is behind no other page of
\* any space and is no table: processes are isolated.
FramesPrivate ==
  LET frames == {FrameOf(k) : k \in TakenFor}
  IN  /\ TableFrames \subseteq held \ phys.free
      /\ Cardinality(TableFrames) = Cardinality(TablePlaces)
      /\ frames \subseteq held \ TableFrames
      /\ Cardinality(frames) = Cardinality(TakenFor)

\* A process reaches the pages mapped for it, on all levels of its tables, and
\* no page of the kernel.  Among them are all pages of the program it was loaded
\* from and of its thread, whatever it maps and unmaps.
UserRights ==
  /\ \A space \in spaces, v \in AllPages :
       UserReaches(machine, space, v) <=> <<space, v>> \in DOMAIN user
  /\ \A space \in DOMAIN image : {space} \X image[space] \subseteq DOMAIN user

\* The counters of the frame allocator count: what is free, and what is out
\* together with the bitmap.  A frame that is out is not free.
FramesAccounted == Accounted(phys, held)

=============================================================================
