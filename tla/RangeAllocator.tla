---------------------------- MODULE RangeAllocator ----------------------------
(***************************************************************************)
(* k_virtual_address_range_allocator: the list of address ranges behind    *)
(* the kernel's virtual ranges (memory.cpp) and every process's user       *)
(* memory (userspace_allocator.cpp).                                       *)
(*                                                                         *)
(* Addresses are page numbers: every base is page-aligned.  "ranges" is    *)
(* the list from head along next.  mergeAll is taken one iteration at a    *)
(* time.  "granted" is no variable of the code: it holds what the callers  *)
(* were given and have not freed.                                          *)
(***************************************************************************)
EXTENDS Lists

CONSTANTS
  Start, End,           \* the range the allocator's owner adds when it creates it
  Pages,                \* numbers of pages callers ask for
  Hints                 \* pages at which callers of useRange want their range

ASSUME RangeConstants ==
  /\ Start \in Nat /\ End \in Nat /\ Start < End
  /\ Pages \subseteq Nat \ {0} /\ Hints \subseteq Nat

VARIABLES ranges, pc, curr, granted

vars == <<ranges, pc, curr, granted>>

Header == [base : Nat, pages : Nat, used : BOOLEAN]
Block == [base : Nat, size : Nat]
Free(base, pages) == [base |-> base, pages |-> pages, used |-> FALSE]
Used(base, pages) == [base |-> base, pages |-> pages, used |-> TRUE]
Above(r) == r.base + r.pages

Init == ranges = <<>> /\ pc = "ready" /\ curr = 1 /\ granted = {}

StartMerge == pc' = "merge" /\ curr' = 1

-------------------------------------------------------------------------------
\* addRange, the list being empty: the owner adds one range when it creates the
\* allocator, and there is no other caller.
AddFirst ==
  /\ pc = "ready"
  /\ ranges = <<>>
  /\ ranges' = <<Free(Start, End - Start)>>
  /\ StartMerge
  /\ UNCHANGED granted

MutantFitsMore(r, pages) == ~r.used /\ r.pages > pages
MutantFitsUsed(r, pages) == r.pages >= pages

Fits(r, pages) == ~r.used /\ r.pages >= pages

\* s with its i-th range replaced by a and b: b is linked behind a.
SplitInto(s, i, a, b) == InsertAt([s EXCEPT ![i] = a], i + 1, b)

MutantTake(i, pages) == [ranges EXCEPT ![i] = Used(ranges[i].base, pages)]

\* The list after the first pages of range i are taken, the rest split off.
Take(i, pages) ==
  LET r == ranges[i]
  IN  IF r.pages > pages
      THEN SplitInto(ranges, i, Used(r.base, pages), Free(r.base + pages, r.pages - pages))
      ELSE [ranges EXCEPT ![i] = Used(r.base, pages)]

\* A call that finds no range returns NULL and changes nothing.
AllocateRange(pages) ==
  /\ pc = "ready"
  /\ \E i \in DOMAIN ranges :
       /\ Fits(ranges[i], pages)
       /\ \A j \in 1..(i - 1) : ~Fits(ranges[j], pages)
       /\ ranges' = Take(i, pages)
       /\ granted' = granted \cup {[base |-> ranges[i].base, size |-> pages]}
  /\ UNCHANGED <<pc, curr>>

\* A free range has the pages asked for, and at least one more behind them.
Holds(r, start, pages) == ~r.used /\ r.base <= start /\ start + pages < Above(r)

\* The list after pages are taken out of the middle of range i: range i ends
\* at start, and what is behind the pages is split off.
Carve(i, start, pages) ==
  LET r == ranges[i]
      left == Free(r.base, start - r.base)
      behind == Free(start, r.pages - (start - r.base))
      right == Free(start + pages, behind.pages - pages)
  IN  SplitInto(SplitInto(ranges, i, left, behind), i + 1, Used(start, pages), right)

\* The list after pages at the base of range i are taken: range i becomes used
\* but keeps its number of pages.
CarveAtBase(i, pages) ==
  LET r == ranges[i]
  IN  SplitInto(ranges, i, Used(r.base, r.pages), Free(r.base + pages, r.pages - pages))

UseIn(i, start, pages) ==
  /\ pc = "ready"
  /\ Holds(ranges[i], start, pages)
  /\ \A j \in 1..(i - 1) : ~Holds(ranges[j], start, pages)
  /\ granted' = granted \cup {[base |-> start, size |-> pages]}
  /\ UNCHANGED <<pc, curr>>

\* useRange where a free range begins below start.
UseInside(start, pages) ==
  \E i \in DOMAIN ranges :
    UseIn(i, start, pages) /\ ranges[i].base # start /\ ranges' = Carve(i, start, pages)

\* useRange where a free range begins at start.
UseAtBase(start, pages) ==
  \E i \in DOMAIN ranges :
    UseIn(i, start, pages) /\ ranges[i].base = start /\ ranges' = CarveAtBase(i, pages)

\* freeRange; for a base it does not find, or finds free, it changes nothing.
FreeRange(base) ==
  /\ pc = "ready"
  /\ \E i \in DOMAIN ranges :
       /\ ranges[i].base = base /\ \A j \in 1..(i - 1) : ranges[j].base # base
       /\ ranges[i].used
       /\ ranges' = [ranges EXCEPT ![i] = Free(base, ranges[i].pages)]
  /\ granted' = {g \in granted : g.base # base}
  /\ StartMerge

-------------------------------------------------------------------------------
(* mergeAll.                                                               *)

Mergeable(r, s) == ~r.used /\ ~s.used /\ Above(r) = s.base

Merged(i) ==
  RemoveAt([ranges EXCEPT ![i] = Free(ranges[i].base, ranges[i].pages + ranges[i + 1].pages)],
           i + 1)

MutantMergeNext ==
  /\ pc = "merge" /\ curr < Len(ranges)
  /\ ranges' = IF Mergeable(ranges[curr], ranges[curr + 1]) THEN Merged(curr) ELSE ranges
  /\ UNCHANGED <<pc, curr, granted>>

MutantMergeNextUsed ==
  /\ pc = "merge" /\ curr < Len(ranges)
  /\ IF ~ranges[curr].used /\ Above(ranges[curr]) = ranges[curr + 1].base
     THEN ranges' = Merged(curr) /\ UNCHANGED curr
     ELSE curr' = curr + 1 /\ UNCHANGED ranges
  /\ UNCHANGED <<pc, granted>>

MergeNext ==
  /\ pc = "merge" /\ curr < Len(ranges)
  /\ \/ /\ Mergeable(ranges[curr], ranges[curr + 1])
        /\ ranges' = Merged(curr)
        /\ UNCHANGED curr
     \/ /\ ~Mergeable(ranges[curr], ranges[curr + 1])
        /\ curr' = curr + 1
        /\ UNCHANGED ranges
  /\ UNCHANGED <<pc, granted>>

MergeDone ==
  /\ pc = "merge" /\ curr = Len(ranges)
  /\ pc' = "ready"
  /\ UNCHANGED <<ranges, curr, granted>>

-------------------------------------------------------------------------------
Next ==
  \/ AddFirst
  \/ \E pages \in Pages : AllocateRange(pages)
  \/ \E start \in Hints, pages \in Pages : UseInside(start, pages)
  \/ \E g \in granted : FreeRange(g.base)
  \/ MergeNext
  \/ MergeDone

\* useRange only for hints inside a free range.  This covers the kernel's own
\* allocator, for which useRange is never called.
Spec == Init /\ [][Next]_vars

\* mergeAll, once started, runs to its end.
FairSpec == Spec /\ WF_vars(MergeNext \/ MergeDone)

AnyHint == \E start \in Hints, pages \in Pages : UseAtBase(start, pages)

\* All hints: elfLoad and vmMap also ask for the page where a free range begins.
HintSpec == Init /\ [][Next \/ AnyHint]_vars
-------------------------------------------------------------------------------
\* The variables have their types.
TypeOK ==
  /\ ranges \in Seq(Header)
  /\ pc \in {"ready", "merge"} /\ curr \in Nat
  /\ granted \subseteq Block

\* The ranges tile the memory added, in order: no page is lost by splitting and
\* merging and none belongs to two headers.
RangesTile ==
  ranges # <<>> =>
    /\ ranges[1].base = Start /\ Above(ranges[Len(ranges)]) = End
    /\ \A i \in 1..(Len(ranges) - 1) : ranges[i + 1].base = Above(ranges[i])
    /\ \A i \in 1..Len(ranges) : ranges[i].pages > 0

\* The used headers are what the callers hold: freeRange, which looks a range up
\* by its base, gives back what was granted, not more and not less.
UsedIsGranted ==
  granted = {[base |-> ranges[i].base, size |-> ranges[i].pages] :
               i \in {j \in DOMAIN ranges : ranges[j].used}}

\* Between calls no two free ranges continue each other: mergeAll has found all,
\* and allocateRange and useRange make no new ones.
NothingToMerge ==
  pc = "ready" =>
    \A i \in 1..(Len(ranges) - 1) : ~Mergeable(ranges[i], ranges[i + 1])

Holders(p) == {g \in granted : g.base <= p /\ p < g.base + g.size}

\* allocateRange returns NULL only when there is no stretch of that many pages
\* that nobody holds: fragmentation of the list never hides one.
NoSpuriousFailure ==
  pc = "ready" /\ ranges # <<>> =>
    \A pages \in Pages, s \in Start..(End - 1) :
      s + pages <= End /\ (\A p \in s..(s + pages - 1) : Holders(p) = {})
        => \E i \in DOMAIN ranges : Fits(ranges[i], pages)

Promise == INSTANCE BlockAllocator WITH Floor <- Start, live <- granted, limit <- End

\* Seen through what the callers hold the list is an allocator: ranges handed
\* out are disjoint and inside, and merging takes nothing from anybody.
RangesAreAllocator == Promise!Spec

\* freeRange and addRange return: mergeAll reaches the end of the list.
MergeEnds == (pc = "merge") ~> (pc = "ready")

\* virtual_address_range_allocator.hpp:13 of the field pages: "How many pages
\* does the address range contain": what the caller of useRange asked for.
PagesAsGranted ==
  \A g \in granted : \E i \in DOMAIN ranges :
    ranges[i].used /\ ranges[i].base = g.base /\ ranges[i].pages = g.size
=============================================================================
