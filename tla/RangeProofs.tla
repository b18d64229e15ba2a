----------------------------- MODULE RangeProofs ------------------------------
(* The address range allocator hands out disjoint ranges, loses no page    *)
(* and frees what it granted: proofs.                                      *)
EXTENDS RangeAllocator, ListLemmas

USE SMTT(20), ZenonT(20)  \* the provers of a leaf that names none

\* RangesTile of a list s, with the order of ranges that are not neighbours.
Tiled(s) ==
  /\ s \in Seq(Header) /\ Len(s) > 0
  /\ s[1].base = Start /\ Above(s[Len(s)]) = End
  /\ \A i \in 1..(Len(s) - 1) : s[i + 1].base = Above(s[i])
  /\ \A i \in 1..Len(s) : s[i].pages > 0
  /\ \A i, j \in 1..Len(s) : i < j => Above(s[i]) <= s[j].base

\* What the used headers of a list s say has been handed out.
BlockOf(r) == [base |-> r.base, size |-> r.pages]
Held(s) == {BlockOf(s[i]) : i \in {j \in 1..Len(s) : s[j].used}}

\* No two free neighbours before place k of a list s.
SettledTo(s, k) == \A i \in 1..(Len(s) - 1) : i < k => s[i].used \/ s[i + 1].used

IInv ==
  /\ ranges = <<>> \/ Tiled(ranges)
  /\ granted = Held(ranges)
  /\ pc \in {"ready", "merge"} /\ curr \in Nat
  /\ pc = "merge" => ranges # <<>> /\ curr \in 1..Len(ranges)
  /\ SettledTo(ranges, IF pc = "merge" THEN curr ELSE Len(ranges))
-------------------------------------------------------------------------------
\* The fields of a listed range are numbers.
LEMMA HeaderFacts ==
  ASSUME NEW s \in Seq(Header), NEW i \in 1..Len(s)
  PROVE  /\ s[i] \in Header /\ s[i].base \in Nat /\ s[i].pages \in Nat /\ s[i].used \in BOOLEAN
         /\ Above(s[i]) \in Nat /\ Above(s[i]) = s[i].base + s[i].pages
<1>1. s[i] \in Header
  OBVIOUS
<1> QED
  BY <1>1 DEF Header, Above

\* SplitInto, element by element.
LEMMA SplitElements ==
  ASSUME NEW s \in Seq(Header), NEW i \in 1..Len(s), NEW a \in Header, NEW b \in Header
  PROVE  /\ SplitInto(s, i, a, b) \in Seq(Header)
         /\ Len(SplitInto(s, i, a, b)) = Len(s) + 1
         /\ \A j \in 1..(i - 1) : SplitInto(s, i, a, b)[j] = s[j]
         /\ SplitInto(s, i, a, b)[i] = a
         /\ SplitInto(s, i, a, b)[i + 1] = b
         /\ \A j \in (i + 2)..(Len(s) + 1) : SplitInto(s, i, a, b)[j] = s[j - 1]
<1> DEFINE cut == [s EXCEPT ![i] = a]  k == i + 1  new == InsertAt(cut, k, b)
<1>1. /\ cut \in Seq(Header) /\ Len(cut) = Len(s) /\ cut[i] = a
      /\ \A j \in 1..Len(s) : j # i => cut[j] = s[j]
  OBVIOUS
<1>2. SplitInto(s, i, a, b) = new
  BY DEF SplitInto
<1>3. cut \in Seq(Header) /\ b \in Header /\ k \in 1..(Len(cut) + 1)
  BY <1>1
<1> HIDE DEF cut, k
<1>4. /\ new \in Seq(Header) /\ Len(new) = Len(cut) + 1 /\ new[k] = b
      /\ \A j \in 1..(k - 1) : new[j] = cut[j]
      /\ \A j \in (k + 1)..(Len(cut) + 1) : new[j] = cut[j - 1]
  <2>1. Inserted(Header, cut, k, b, new)
    BY <1>3, InsertAtElements, Zenon
  <2> QED
    BY <2>1, Zenon DEF Inserted
<1> HIDE DEF new
<1>5. /\ new \in Seq(Header) /\ Len(new) = Len(s) + 1 /\ new[i] = a /\ new[i + 1] = b
      /\ \A j \in 1..(i - 1) : new[j] = s[j]
  BY <1>1, <1>4 DEF k
<1>6. ASSUME NEW j \in (i + 2)..(Len(s) + 1) PROVE new[j] = s[j - 1]
  <2>1. j \in (k + 1)..(Len(cut) + 1)
    BY <1>1 DEF k
  <2>2. j - 1 \in 1..Len(s) /\ j - 1 # i
    OBVIOUS
  <2> QED
    BY <1>1, <1>4, <2>1, <2>2, Zenon
<1> QED
  BY <1>2, <1>5, <1>6

LEMMA SplitSecond ==
  ASSUME NEW s \in Seq(Header), NEW i \in 1..Len(s), NEW a \in Header, NEW b \in Header
  PROVE  SplitInto(s, i, a, b)[i + 1] = b
  BY SplitElements

\* Splitting a range in two that together cover it keeps the list tiled.
LEMMA SplitTiled ==
  ASSUME NEW s, Tiled(s), NEW i \in 1..Len(s), NEW a \in Header, NEW b \in Header,
         a.base = s[i].base, a.pages > 0, b.pages > 0,
         b.base = Above(a), Above(b) = Above(s[i])
  PROVE  Tiled(SplitInto(s, i, a, b))
<1> DEFINE n == Len(s)  t == SplitInto(s, i, a, b)
<1>a. s \in Seq(Header) /\ n \in Nat /\ n > 0 /\ i \in 1..n
  <2>1. s \in Seq(Header) /\ Len(s) > 0
    BY DEF Tiled
  <2> QED
    BY <2>1
<1>0. /\ s \in Seq(Header) /\ n \in Nat /\ n > 0 /\ i \in 1..n
      /\ s[1].base = Start /\ Above(s[n]) = End
      /\ \A j \in 1..(n - 1) : s[j + 1].base = Above(s[j])
      /\ \A j \in 1..n : s[j].pages > 0
      /\ \A j, k \in 1..n : j < k => Above(s[j]) <= s[k].base
  BY <1>a DEF Tiled
<1>1. /\ t \in Seq(Header) /\ Len(t) = n + 1 /\ t[i] = a /\ t[i + 1] = b
      /\ \A j \in 1..(i - 1) : t[j] = s[j]
      /\ \A j \in (i + 2)..(n + 1) : t[j] = s[j - 1]
  <2>1. s \in Seq(Header) /\ i \in 1..Len(s) /\ a \in Header /\ b \in Header
    BY <1>a
  <2>2. t \in Seq(Header) /\ Len(t) = Len(s) + 1
    BY <2>1, SplitElements
  <2>3. t[i] = a /\ t[i + 1] = b
    BY <2>1, SplitElements
  <2>4. \A j \in 1..(i - 1) : t[j] = s[j]
    BY <2>1, SplitElements
  <2>5. \A j \in (i + 2)..(Len(s) + 1) : t[j] = s[j - 1]
    BY <2>1, SplitElements
  <2> QED
    BY <2>2, <2>3, <2>4, <2>5
<1>2. /\ a.base \in Nat /\ a.pages \in Nat /\ Above(a) = a.base + a.pages
      /\ b.base \in Nat /\ b.pages \in Nat /\ Above(b) = b.base + b.pages
  BY DEF Header, Above
<1>3. /\ s[i].base \in Nat /\ Above(s[i]) \in Nat /\ Above(a) \in Nat /\ Above(b) \in Nat
      /\ s[i].base <= b.base /\ Above(a) <= Above(s[i])
  <2>1. s[i].base \in Nat /\ s[i].pages \in Nat /\ Above(s[i]) = s[i].base + s[i].pages
    BY <1>0, HeaderFacts
  <2> QED
    BY <2>1, <1>2
<1> HIDE DEF t
<1>4. \A j \in 1..(n + 1) : j \in 1..(i - 1) \/ j = i \/ j = i + 1 \/ j \in (i + 2)..(n + 1)
  BY <1>0
<1>5. t[1].base = Start
  <2>1. CASE i = 1
    BY <2>1, <1>0, <1>1
  <2>2. CASE i # 1
    BY <2>2, <1>0, <1>1
  <2> QED
    BY <2>1, <2>2
<1>6. Above(t[n + 1]) = End
  <2>1. CASE i = n
    BY <2>1, <1>0, <1>1
  <2>2. CASE i # n
    <3>1. n + 1 \in (i + 2)..(n + 1) /\ (n + 1) - 1 = n
      BY <2>2, <1>0
    <3> QED
      BY <3>1, <1>0, <1>1, Zenon
  <2> QED
    BY <2>1, <2>2
<1>7. \A j \in 1..(n + 1) : t[j].pages > 0
  <2> TAKE j \in 1..(n + 1)
  <2>1. CASE j \in (i + 2)..(n + 1)
    <3>1. t[j] = s[j - 1] /\ j - 1 \in 1..n
      BY <2>1, <1>0, <1>1
    <3> QED
      BY <3>1, <1>0
  <2>2. CASE j \in 1..(i - 1)
    BY <2>2, <1>0, <1>1
  <2> QED
    BY <2>1, <2>2, <1>1, <1>4
<1>8. \A j \in 1..n : t[j + 1].base = Above(t[j])
  <2> TAKE j \in 1..n
  <2>1. CASE j \in 1..(i - 2)
    <3>1. t[j] = s[j] /\ t[j + 1] = s[j + 1] /\ j \in 1..(n - 1)
      BY <2>1, <1>0, <1>1
    <3> QED
      BY <3>1, <1>0
  <2>2. CASE j = i - 1
    <3>1. t[j] = s[j] /\ t[j + 1] = a /\ j \in 1..(n - 1) /\ j + 1 = i
      BY <2>2, <1>0, <1>1
    <3> QED
      BY <3>1, <1>0
  <2>3. CASE j = i
    BY <2>3, <1>1
  <2>4. CASE j = i + 1
    <3>1. t[j] = b /\ t[j + 1] = s[j] /\ j - 1 = i /\ i \in 1..(n - 1)
      <4>1. j + 1 \in (i + 2)..(n + 1) /\ (j + 1) - 1 = j
        BY <2>4, <1>0
      <4> QED
        BY <4>1, <2>4, <1>0, <1>1
    <3> QED
      BY <3>1, <2>4, <1>0
  <2>5. CASE j \in (i + 2)..n
    <3>1. j \in (i + 2)..(n + 1) /\ j + 1 \in (i + 2)..(n + 1) /\ (j + 1) - 1 = (j - 1) + 1
          /\ j - 1 \in 1..(n - 1)
      BY <2>5, <1>0
    <3>2. t[j] = s[j - 1] /\ t[j + 1] = s[(j - 1) + 1]
      BY <3>1, <1>1
    <3> QED
      BY <3>1, <3>2, <1>0, Zenon
  <2> QED
    BY <2>1, <2>2, <2>3, <2>4, <2>5, <1>0
<1>9. \A j, k \in 1..(n + 1) : j < k => Above(t[j]) <= t[k].base
  <2> SUFFICES ASSUME NEW j \in 1..(n + 1), NEW k \in 1..(n + 1), j < k
               PROVE  Above(t[j]) <= t[k].base
    OBVIOUS
  \* Where t[j] comes from, in s.
  <2> DEFINE from(x) == IF x <= i THEN x ELSE x - 1
  <2>a. \A x \in 1..(n + 1) : (x <= i => from(x) = x) /\ (x > i => from(x) = x - 1)
    BY <1>0
  <2> HIDE DEF from
  <2>1. from(j) \in 1..n /\ from(k) \in 1..n /\ from(j) <= from(k)
    BY <1>0, <2>a
  <2>2. ASSUME NEW x \in 1..(n + 1)
        PROVE  /\ s[from(x)].base <= t[x].base /\ Above(t[x]) <= Above(s[from(x)])
               /\ t[x].base \in Nat /\ Above(t[x]) \in Nat
               /\ s[from(x)].base \in Nat /\ Above(s[from(x)]) \in Nat
    <3>1. CASE x \in 1..(i - 1)
      <4>1. from(x) = x /\ x \in 1..n /\ t[x] = s[x]
        BY <3>1, <1>0, <1>1, <2>a
      <4>2. s[x].base \in Nat /\ Above(s[x]) \in Nat
        BY <4>1, <1>0, HeaderFacts
      <4> QED
        BY <4>1, <4>2
    <3>2. CASE x = i
      <4>1. from(x) = i /\ t[x] = a
        BY <3>2, <1>0, <1>1, <2>a
      <4> QED
        BY <4>1, <1>2, <1>3
    <3>3. CASE x = i + 1
      <4>1. from(x) = i /\ t[x] = b
        BY <3>3, <1>0, <1>1, <2>a
      <4> QED
        BY <4>1, <1>2, <1>3
    <3>4. CASE x \in (i + 2)..(n + 1)
      <4>1. from(x) = x - 1 /\ x - 1 \in 1..n /\ t[x] = s[x - 1]
        BY <3>4, <1>0, <1>1, <2>a
      <4>2. s[x - 1].base \in Nat /\ Above(s[x - 1]) \in Nat
        BY <4>1, <1>0, HeaderFacts
      <4> QED
        BY <4>1, <4>2
    <3> QED
      BY <3>1, <3>2, <3>3, <3>4, <1>4
  <2>3. CASE from(j) = from(k)
    <3>1. j = i /\ k = i + 1
      BY <2>3, <1>0, <2>a
    <3> QED
      BY <3>1, <1>1, <1>2
  <2>4. CASE from(j) < from(k)
    <3>1. Above(s[from(j)]) <= s[from(k)].base
      BY <2>1, <2>4, <1>0
    <3>2. /\ Above(t[j]) <= Above(s[from(j)]) /\ s[from(k)].base <= t[k].base
          /\ Above(t[j]) \in Nat /\ Above(s[from(j)]) \in Nat
          /\ s[from(k)].base \in Nat /\ t[k].base \in Nat
      BY <2>2
    <3> QED
      BY <3>1, <3>2
  <2> QED
    BY <2>1, <2>3, <2>4, <1>0
<1> QED
  BY <1>0, <1>1, <1>5, <1>6, <1>7, <1>8, <1>9 DEF Tiled, t
-------------------------------------------------------------------------------
\* Membership in Held, spelt out.
LEMMA HeldElements ==
  ASSUME NEW s, NEW x
  PROVE  x \in Held(s) <=> \E j \in 1..Len(s) : s[j].used /\ x = BlockOf(s[j])
  BY DEF Held

\* Splitting a free range adds the part that is used to what is held.
LEMMA SplitHeld ==
  ASSUME NEW s \in Seq(Header), NEW i \in 1..Len(s), NEW a \in Header, NEW b \in Header,
         ~s[i].used, ~b.used
  PROVE  Held(SplitInto(s, i, a, b)) = Held(s) \cup (IF a.used THEN {BlockOf(a)} ELSE {})
<1> DEFINE n == Len(s)  t == SplitInto(s, i, a, b)
<1>0. n \in Nat /\ i \in 1..n
  OBVIOUS
<1>1. t \in Seq(Header) /\ Len(t) = n + 1
  BY SplitElements
<1>2. t[i] = a /\ t[i + 1] = b
  BY SplitElements
<1>3. \A j \in 1..(i - 1) : t[j] = s[j]
  BY SplitElements
<1>4. \A j \in (i + 2)..(n + 1) : t[j] = s[j - 1]
  BY SplitElements
<1> HIDE DEF t
<1>5. ASSUME NEW x \in Held(t) PROVE x \in Held(s) \/ (a.used /\ x = BlockOf(a))
  <2>1. PICK j \in 1..(n + 1) : t[j].used /\ x = BlockOf(t[j])
    BY <1>1, <1>5, HeldElements
  <2>2. CASE j \in 1..(i - 1)
    <3>1. j \in 1..n /\ t[j] = s[j]
      BY <2>2, <1>0, <1>3
    <3> QED
      BY <3>1, <2>1, HeldElements
  <2>3. CASE j = i \/ j = i + 1
    BY <2>1, <2>3, <1>2
  <2>4. CASE j \in (i + 2)..(n + 1)
    <3>1. j - 1 \in 1..n /\ t[j] = s[j - 1]
      BY <2>4, <1>0, <1>4
    <3> QED
      BY <3>1, <2>1, HeldElements
  <2> QED
    BY <2>2, <2>3, <2>4, <1>0
<1>6. ASSUME NEW x \in Held(s) PROVE x \in Held(t)
  <2>1. PICK j \in 1..n : s[j].used /\ x = BlockOf(s[j])
    BY <1>6, HeldElements
  <2>2. CASE j \in 1..(i - 1)
    <3>1. j \in 1..Len(t) /\ t[j] = s[j]
      BY <2>2, <1>0, <1>1, <1>3
    <3> QED
      BY <3>1, <2>1, HeldElements
  <2>3. CASE j \in (i + 1)..n
    <3>1. j + 1 \in (i + 2)..(n + 1) /\ (j + 1) - 1 = j
      BY <2>3, <1>0
    <3>2. j + 1 \in 1..Len(t) /\ t[j + 1] = s[j]
      BY <3>1, <1>0, <1>1, <1>4
    <3> QED
      BY <3>2, <2>1, HeldElements
  <2>4. j # i
    BY <2>1
  <2> QED
    BY <2>2, <2>3, <2>4, <1>0
<1>7. a.used => BlockOf(a) \in Held(t)
  <2>1. i \in 1..Len(t)
    BY <1>0, <1>1
  <2> QED
    BY <2>1, <1>2, HeldElements
<1> QED
  BY <1>5, <1>6, <1>7 DEF t

\* Changing only the used flag of a range keeps the list tiled.
LEMMA FlagTiled ==
  ASSUME NEW s, Tiled(s), NEW i \in 1..Len(s), NEW a \in Header,
         a.base = s[i].base, a.pages = s[i].pages
  PROVE  Tiled([s EXCEPT ![i] = a])
<1> DEFINE t == [s EXCEPT ![i] = a]
<1>0. s \in Seq(Header) /\ Len(s) \in Nat
  <2>1. s \in Seq(Header)
    BY DEF Tiled
  <2> QED
    BY <2>1
<1>1. t \in Seq(Header) /\ Len(t) = Len(s)
  BY <1>0
<1>2. \A j \in 1..Len(s) : t[j].base = s[j].base /\ t[j].pages = s[j].pages
  BY <1>0
<1>3. \A j \in 1..Len(s) : Above(t[j]) = Above(s[j])
  BY <1>2 DEF Above
<1> HIDE DEF t
<1>4. t[1].base = Start /\ Above(t[Len(t)]) = End
  BY <1>0, <1>1, <1>2, <1>3 DEF Tiled
<1>5. \A j \in 1..(Len(t) - 1) : t[j + 1].base = Above(t[j])
  BY <1>0, <1>1, <1>2, <1>3 DEF Tiled
<1>6. \A j \in 1..Len(t) : t[j].pages > 0
  BY <1>1, <1>2 DEF Tiled
<1>7. \A j, k \in 1..Len(t) : j < k => Above(t[j]) <= t[k].base
  BY <1>1, <1>2, <1>3 DEF Tiled
<1> QED
  BY <1>0, <1>1, <1>4, <1>5, <1>6, <1>7, Zenon DEF Tiled, t

\* Marking a free range used adds it to what is held.
LEMMA TakeHeld ==
  ASSUME NEW s \in Seq(Header), NEW i \in 1..Len(s), NEW a \in Header, ~s[i].used, a.used
  PROVE  Held([s EXCEPT ![i] = a]) = Held(s) \cup {BlockOf(a)}
<1> DEFINE t == [s EXCEPT ![i] = a]
<1>1. /\ Len(t) = Len(s) /\ t[i] = a
      /\ \A j \in 1..Len(s) : j # i => t[j] = s[j]
  OBVIOUS
<1> HIDE DEF t
<1>2. Held(t) = Held(s) \cup {BlockOf(a)}
  BY <1>1 DEF Held
<1> QED
  BY <1>2, Zenon DEF t

\* Two ranges of a tiled list with the same base are one.
LEMMA BasesDistinct ==
  ASSUME NEW s, Tiled(s), NEW i \in 1..Len(s), NEW j \in 1..Len(s), s[i].base = s[j].base
  PROVE  i = j
<1>1. s \in Seq(Header)
  BY DEF Tiled
<1>2. /\ s[i].base \in Nat /\ s[i].pages \in Nat /\ Above(s[i]) = s[i].base + s[i].pages
      /\ s[j].base \in Nat /\ s[j].pages \in Nat /\ Above(s[j]) = s[j].base + s[j].pages
  BY <1>1, HeaderFacts
<1>3. s[i].pages > 0 /\ s[j].pages > 0
  BY DEF Tiled
<1>4. /\ i < j => Above(s[i]) <= s[j].base
      /\ j < i => Above(s[j]) <= s[i].base
  BY DEF Tiled
<1> QED
  BY <1>2, <1>3, <1>4

\* Marking a used range free takes it, and nothing else, from what is held.
LEMMA FreeHeld ==
  ASSUME NEW s, Tiled(s), NEW i \in 1..Len(s), NEW a \in Header, s[i].used, ~a.used
  PROVE  Held([s EXCEPT ![i] = a]) = {g \in Held(s) : g.base # s[i].base}
<1> DEFINE t == [s EXCEPT ![i] = a]
<1>0. s \in Seq(Header)
  BY DEF Tiled
<1>1. /\ Len(t) = Len(s) /\ t[i] = a
      /\ \A j \in 1..Len(s) : j # i => t[j] = s[j]
  BY <1>0
<1>2. \A j \in 1..Len(s) : BlockOf(s[j]).base = s[j].base /\ (j # i => s[j].base # s[i].base)
  BY BasesDistinct DEF BlockOf
<1> HIDE DEF t
<1>3. Held(t) = {g \in Held(s) : g.base # s[i].base}
  BY <1>1, <1>2 DEF Held
<1> QED
  BY <1>3, Zenon DEF t
-------------------------------------------------------------------------------
\* A list whose ranges i and i + 1 have become one.
Joined(s, t, i) ==
  /\ t \in Seq(Header) /\ Len(t) = Len(s) - 1
  /\ \A j \in 1..(i - 1) : t[j] = s[j]
  /\ t[i] = Free(s[i].base, s[i].pages + s[i + 1].pages)
  /\ \A j \in (i + 1)..(Len(s) - 1) : t[j] = s[j + 1]

\* mergeAll's step, element by element.
LEMMA MergedJoined ==
  ASSUME ranges \in Seq(Header), NEW i \in 1..(Len(ranges) - 1)
  PROVE  Joined(ranges, Merged(i), i)
<1> DEFINE new == Free(ranges[i].base, ranges[i].pages + ranges[i + 1].pages)
<1>1. i \in 1..Len(ranges) /\ i + 1 \in 1..Len(ranges)
  OBVIOUS
<1>2. new \in Header
  <2>1. /\ ranges[i].base \in Nat /\ ranges[i].pages \in Nat /\ ranges[i + 1].pages \in Nat
    BY <1>1, HeaderFacts
  <2>2. \A b, p \in Nat : Free(b, p) \in Header
    BY DEF Free, Header
  <2> QED
    BY <2>1, <2>2
<1>3. Merged(i) = JoinAt(ranges, i, new)
  BY DEF Merged, JoinAt
<1> HIDE DEF new
<1>4. /\ JoinAt(ranges, i, new) \in Seq(Header)
      /\ Len(JoinAt(ranges, i, new)) = Len(ranges) - 1
      /\ \A j \in 1..(i - 1) : JoinAt(ranges, i, new)[j] = ranges[j]
      /\ JoinAt(ranges, i, new)[i] = new
      /\ \A j \in (i + 1)..(Len(ranges) - 1) : JoinAt(ranges, i, new)[j] = ranges[j + 1]
  BY <1>2, JoinElements
<1> QED
  BY <1>3, <1>4 DEF Joined, new

\* Joining two neighbours of a tiled list keeps it tiled.
LEMMA JoinTiled ==
  ASSUME NEW s, Tiled(s), NEW t, NEW i \in 1..(Len(s) - 1), Joined(s, t, i)
  PROVE  Tiled(t)
<1> DEFINE n == Len(s)
<1>a. s \in Seq(Header) /\ n \in Nat /\ i \in 1..n /\ i + 1 \in 1..n
  <2>1. s \in Seq(Header)
    BY DEF Tiled
  <2> QED
    BY <2>1
<1>0. /\ s[1].base = Start /\ Above(s[n]) = End
      /\ \A j \in 1..(n - 1) : s[j + 1].base = Above(s[j])
      /\ \A j \in 1..n : s[j].pages > 0
      /\ \A j, k \in 1..n : j < k => Above(s[j]) <= s[k].base
  BY DEF Tiled
<1>1. /\ t \in Seq(Header) /\ Len(t) = n - 1
      /\ \A j \in 1..(i - 1) : t[j] = s[j]
      /\ \A j \in (i + 1)..(n - 1) : t[j] = s[j + 1]
  BY DEF Joined
<1>2. /\ s[i].base \in Nat /\ s[i].pages \in Nat /\ Above(s[i]) = s[i].base + s[i].pages
      /\ s[i + 1].base \in Nat /\ s[i + 1].pages \in Nat
      /\ Above(s[i + 1]) = s[i + 1].base + s[i + 1].pages
  BY <1>a, HeaderFacts
<1>3. t[i].base = s[i].base /\ t[i].pages = s[i].pages + s[i + 1].pages
  BY DEF Joined, Free
<1>4. Above(t[i]) = Above(s[i + 1]) /\ t[i].pages > 0
  <2>1. s[i + 1].base = Above(s[i]) /\ s[i].pages > 0
    BY <1>0, <1>a
  <2>2. Above(t[i]) = t[i].base + t[i].pages
    BY DEF Above
  <2> QED
    BY <2>1, <2>2, <1>2, <1>3
<1>5. \A j \in 1..(n - 1) : j \in 1..(i - 1) \/ j = i \/ j \in (i + 1)..(n - 1)
  BY <1>a
<1>6. t[1].base = Start
  <2>1. CASE i = 1
    BY <2>1, <1>0, <1>3
  <2>2. CASE i # 1
    BY <2>2, <1>a, <1>0, <1>1
  <2> QED
    BY <2>1, <2>2
<1>7. Above(t[n - 1]) = End
  <2>1. CASE i = n - 1
    <3>1. i + 1 = n
      BY <2>1, <1>a
    <3> QED
      BY <2>1, <3>1, <1>0, <1>4
  <2>2. CASE i # n - 1
    <3>1. n - 1 \in (i + 1)..(n - 1) /\ (n - 1) + 1 = n
      BY <2>2, <1>a
    <3> QED
      BY <3>1, <1>0, <1>1
  <2> QED
    BY <2>1, <2>2
<1>8. \A j \in 1..(n - 1) : t[j].pages > 0
  <2> TAKE j \in 1..(n - 1)
  <2>1. CASE j \in 1..(i - 1)
    BY <2>1, <1>a, <1>0, <1>1
  <2>2. CASE j \in (i + 1)..(n - 1)
    <3>1. j + 1 \in 1..n /\ t[j] = s[j + 1]
      BY <2>2, <1>a, <1>1
    <3> QED
      BY <3>1, <1>0
  <2> QED
    BY <2>1, <2>2, <1>4, <1>5
<1>9. \A j \in 1..(n - 2) : t[j + 1].base = Above(t[j])
  <2> TAKE j \in 1..(n - 2)
  <2>1. CASE j \in 1..(i - 2)
    <3>1. t[j] = s[j] /\ t[j + 1] = s[j + 1] /\ j \in 1..(n - 1)
      BY <2>1, <1>a, <1>1
    <3> QED
      BY <3>1, <1>0
  <2>2. CASE j = i - 1
    <3>1. t[j] = s[j] /\ j + 1 = i /\ j \in 1..(n - 1)
      BY <2>2, <1>a, <1>1
    <3>2. s[i].base = Above(s[j])
      BY <3>1, <1>0
    <3> QED
      BY <3>1, <3>2, <1>3
  <2>3. CASE j = i
    <3>1. i + 1 \in (i + 1)..(n - 1) /\ i + 1 \in 1..(n - 1)
      BY <2>3, <1>a
    <3>2. t[i + 1] = s[(i + 1) + 1] /\ s[(i + 1) + 1].base = Above(s[i + 1])
      BY <3>1, <1>0, <1>1
    <3> QED
      BY <2>3, <3>2, <1>4
  <2>4. CASE j \in (i + 1)..(n - 2)
    <3>1. j \in (i + 1)..(n - 1) /\ j + 1 \in (i + 1)..(n - 1) /\ j + 1 \in 1..(n - 1)
      BY <2>4, <1>a
    <3> QED
      BY <3>1, <1>0, <1>1
  <2> QED
    BY <2>1, <2>2, <2>3, <2>4, <1>a
<1>10. \A j, k \in 1..(n - 1) : j < k => Above(t[j]) <= t[k].base
  <2> SUFFICES ASSUME NEW j \in 1..(n - 1), NEW k \in 1..(n - 1), j < k
               PROVE  Above(t[j]) <= t[k].base
    OBVIOUS
  <2>1. \/ j \in 1..(i - 1) /\ Above(t[j]) = Above(s[j])
        \/ j = i /\ Above(t[j]) = Above(s[j + 1])
        \/ j \in (i + 1)..(n - 1) /\ Above(t[j]) = Above(s[j + 1])
    BY <1>1, <1>4, <1>5
  <2>2. \/ k \in 1..i /\ t[k].base = s[k].base
        \/ k \in (i + 1)..(n - 1) /\ t[k].base = s[k + 1].base
    <3>1. CASE k = i
      BY <3>1, <1>a, <1>3
    <3>2. CASE k # i
      BY <3>2, <1>a, <1>1, <1>5
    <3> QED
      BY <3>1, <3>2
  <2>3. PICK x \in 1..n : Above(t[j]) = Above(s[x]) /\ ((x = j /\ j < i) \/ (x = j + 1 /\ j >= i))
    BY <2>1, <1>a
  <2>4. PICK y \in 1..n : t[k].base = s[y].base /\ ((y = k /\ k <= i) \/ (y = k + 1 /\ k > i))
    <3>1. CASE k \in 1..i /\ t[k].base = s[k].base
      BY <3>1, <1>a
    <3>2. CASE k \in (i + 1)..(n - 1) /\ t[k].base = s[k + 1].base
      <4>1. k + 1 \in 1..n /\ k > i
        BY <3>2, <1>a
      <4> QED
        BY <3>2, <4>1
    <3> QED
      BY <2>2, <3>1, <3>2
  <2>5. x < y
    BY <2>3, <2>4, <1>a
  <2> QED
    BY <2>3, <2>4, <2>5, <1>0
<1> QED
  <2>1. Len(t) > 0 /\ Len(t) - 1 = n - 2
    BY <1>a, <1>1
  <2> QED
    BY <2>1, <1>1, <1>6, <1>7, <1>8, <1>9, <1>10 DEF Tiled

\* Joining two free ranges changes nothing anybody holds.
LEMMA JoinHeld ==
  ASSUME NEW s \in Seq(Header), NEW t, NEW i \in 1..(Len(s) - 1), Joined(s, t, i),
         ~s[i].used, ~s[i + 1].used
  PROVE  Held(t) = Held(s)
<1> DEFINE n == Len(s)
<1>0. n \in Nat /\ i \in 1..(n - 1)
  OBVIOUS
<1>1. /\ Len(t) = n - 1 /\ ~t[i].used
      /\ \A j \in 1..(i - 1) : t[j] = s[j]
      /\ \A j \in (i + 1)..(n - 1) : t[j] = s[j + 1]
  BY DEF Joined, Free
<1>2. ASSUME NEW x \in Held(t) PROVE x \in Held(s)
  <2>1. PICK j \in 1..(n - 1) : t[j].used /\ x = BlockOf(t[j])
    BY <1>1, <1>2, HeldElements
  <2>2. CASE j \in 1..(i - 1)
    <3>1. j \in 1..n /\ t[j] = s[j]
      BY <2>2, <1>0, <1>1
    <3> QED
      BY <3>1, <2>1, HeldElements
  <2>3. CASE j \in (i + 1)..(n - 1)
    <3>1. j + 1 \in 1..n /\ t[j] = s[j + 1]
      BY <2>3, <1>0, <1>1
    <3> QED
      BY <3>1, <2>1, HeldElements
  <2> QED
    BY <2>1, <2>2, <2>3, <1>0, <1>1
<1>3. ASSUME NEW x \in Held(s) PROVE x \in Held(t)
  <2>1. PICK j \in 1..n : s[j].used /\ x = BlockOf(s[j])
    BY <1>3, HeldElements
  <2>2. CASE j \in 1..(i - 1)
    <3>1. j \in 1..Len(t) /\ t[j] = s[j]
      BY <2>2, <1>0, <1>1
    <3> QED
      BY <3>1, <2>1, HeldElements
  <2>3. CASE j \in (i + 2)..n
    <3>1. j - 1 \in (i + 1)..(n - 1) /\ (j - 1) + 1 = j
      BY <2>3, <1>0
    <3>2. j - 1 \in 1..Len(t) /\ t[j - 1] = s[j]
      BY <3>1, <1>0, <1>1
    <3> QED
      BY <3>2, <2>1, HeldElements
  <2>4. j # i /\ j # i + 1
    BY <2>1
  <2> QED
    BY <2>2, <2>3, <2>4, <1>0
<1> QED
  BY <1>2, <1>3, Zenon
-------------------------------------------------------------------------------
(* No two free neighbours: what each operation does to it.                 *)

Settled(s) == \A i \in 1..(Len(s) - 1) : s[i].used \/ s[i + 1].used

LEMMA SettledIsSettledTo ==
  ASSUME NEW s \in Seq(Header)
  PROVE  Settled(s) <=> SettledTo(s, Len(s))
<1>1. \A i \in 1..(Len(s) - 1) : i < Len(s)
  OBVIOUS
<1> QED
  BY <1>1 DEF Settled, SettledTo

\* Taking the front of a free range: its rest meets a used range, as it did.
LEMMA SplitSettled ==
  ASSUME NEW s \in Seq(Header), NEW i \in 1..Len(s), NEW a \in Header, NEW b \in Header,
         ~s[i].used, a.used, Settled(s)
  PROVE  Settled(SplitInto(s, i, a, b))
<1> DEFINE n == Len(s)  t == SplitInto(s, i, a, b)
<1>0. n \in Nat /\ i \in 1..n /\ \A j \in 1..(n - 1) : s[j].used \/ s[j + 1].used
  BY DEF Settled
<1>1. Len(t) = n + 1 /\ t[i] = a
  BY SplitElements
<1>2. \A j \in 1..(i - 1) : t[j] = s[j]
  BY SplitElements
<1>3. \A j \in (i + 2)..(n + 1) : t[j] = s[j - 1]
  BY SplitElements
<1> HIDE DEF t
<1>4. ASSUME NEW j \in 1..n PROVE t[j].used \/ t[j + 1].used
  <2>1. CASE j \in 1..(i - 2)
    <3>1. t[j] = s[j] /\ t[j + 1] = s[j + 1] /\ j \in 1..(n - 1)
      BY <2>1, <1>0, <1>2
    <3> QED
      BY <3>1, <1>0
  <2>2. CASE j = i - 1 \/ j = i
    <3>1. j + 1 = i \/ j = i
      BY <2>2, <1>0
    <3> QED
      BY <3>1, <1>1
  <2>3. CASE j = i + 1
    <3>1. j + 1 \in (i + 2)..(n + 1) /\ (j + 1) - 1 = i + 1 /\ i \in 1..(n - 1)
      BY <2>3, <1>0
    <3>2. t[j + 1] = s[i + 1]
      BY <3>1, <1>3
    <3> QED
      BY <3>1, <3>2, <1>0
  <2>4. CASE j \in (i + 2)..n
    <3>1. /\ j \in (i + 2)..(n + 1) /\ j + 1 \in (i + 2)..(n + 1)
          /\ j - 1 \in 1..(n - 1) /\ (j - 1) + 1 = (j + 1) - 1
      BY <2>4, <1>0
    <3>2. t[j] = s[j - 1] /\ t[j + 1] = s[(j - 1) + 1]
      BY <3>1, <1>3
    <3> QED
      BY <3>1, <3>2, <1>0
  <2> QED
    BY <2>1, <2>2, <2>3, <2>4, <1>0
<1> QED
  <2>1. Len(t) - 1 = n
    BY <1>0, <1>1
  <2> QED
    BY <2>1, <1>4 DEF Settled, t

\* Taking the middle of a free range: both rests meet a used range.
LEMMA CarveSettled ==
  ASSUME NEW s \in Seq(Header), NEW i \in 1..Len(s), NEW a \in Header, NEW b \in Header,
         NEW c \in Header, NEW d \in Header, ~s[i].used, c.used, Settled(s)
  PROVE  Settled(SplitInto(SplitInto(s, i, a, b), i + 1, c, d))
<1> DEFINE n == Len(s)  r == SplitInto(s, i, a, b)  k == i + 1  t == SplitInto(r, k, c, d)
<1>0. n \in Nat /\ i \in 1..n /\ \A j \in 1..(n - 1) : s[j].used \/ s[j + 1].used
  BY DEF Settled
<1>1. r \in Seq(Header) /\ Len(r) = n + 1
  BY SplitElements
<1>2. r[i] = a /\ \A j \in 1..(i - 1) : r[j] = s[j]
  BY SplitElements
<1>3. \A j \in (i + 2)..(n + 1) : r[j] = s[j - 1]
  BY SplitElements
<1> HIDE DEF r
<1>4. r \in Seq(Header) /\ k \in 1..Len(r) /\ c \in Header /\ d \in Header
  BY <1>0, <1>1
<1> HIDE DEF k
<1>5. Len(t) = Len(r) + 1 /\ t[k] = c
  BY <1>4, SplitElements
<1>6. \A j \in 1..(k - 1) : t[j] = r[j]
  BY <1>4, SplitElements
<1>7. \A j \in (k + 2)..(Len(r) + 1) : t[j] = r[j - 1]
  BY <1>4, SplitElements
<1> HIDE DEF t
<1>8. Len(t) = n + 2 /\ t[i + 1] = c
  BY <1>0, <1>1, <1>5 DEF k
<1>9. \A j \in 1..(i - 1) : t[j] = s[j]
  BY <1>0, <1>2, <1>6 DEF k
<1>10. ASSUME NEW j \in (i + 3)..(n + 2) PROVE t[j] = s[j - 2]
  <2>1. j \in (k + 2)..(Len(r) + 1) /\ j - 1 \in (i + 2)..(n + 1) /\ (j - 1) - 1 = j - 2
    BY <1>0, <1>1 DEF k
  <2> QED
    BY <2>1, <1>3, <1>7
<1>11. i > 1 => s[i - 1].used
  <2>1. i > 1 => i - 1 \in 1..(n - 1) /\ (i - 1) + 1 = i
    BY <1>0
  <2> QED
    BY <2>1, <1>0
<1>12. ASSUME NEW j \in 1..(n + 1) PROVE t[j].used \/ t[j + 1].used
  <2>1. CASE j \in 1..(i - 2)
    <3>1. t[j] = s[j] /\ t[j + 1] = s[j + 1] /\ j \in 1..(n - 1)
      BY <2>1, <1>0, <1>9
    <3> QED
      BY <3>1, <1>0
  <2>2. CASE j = i - 1
    <3>1. t[j] = s[i - 1] /\ i > 1
      BY <2>2, <1>0, <1>9
    <3> QED
      BY <3>1, <1>11
  <2>3. CASE j = i \/ j = i + 1
    BY <2>3, <1>8
  <2>4. CASE j = i + 2
    <3>1. j + 1 \in (i + 3)..(n + 2) /\ (j + 1) - 2 = i + 1 /\ i \in 1..(n - 1)
      BY <2>4, <1>0
    <3>2. t[j + 1] = s[i + 1]
      BY <3>1, <1>10
    <3> QED
      BY <3>1, <3>2, <1>0
  <2>5. CASE j \in (i + 3)..(n + 1)
    <3>1. /\ j \in (i + 3)..(n + 2) /\ j + 1 \in (i + 3)..(n + 2)
          /\ j - 2 \in 1..(n - 1) /\ (j - 2) + 1 = (j + 1) - 2
      BY <2>5, <1>0
    <3>2. t[j] = s[j - 2] /\ t[j + 1] = s[(j - 2) + 1]
      BY <3>1, <1>10
    <3> QED
      BY <3>1, <3>2, <1>0
  <2> QED
    BY <2>1, <2>2, <2>3, <2>4, <2>5, <1>0
<1> QED
  <2>1. Len(t) - 1 = n + 1
    BY <1>0, <1>8
  <2> QED
    BY <2>1, <1>12 DEF Settled, t, r, k

\* Marking a free range used only helps.
LEMMA TakeSettled ==
  ASSUME NEW s \in Seq(Header), NEW i \in 1..Len(s), NEW a \in Header, a.used, Settled(s)
  PROVE  Settled([s EXCEPT ![i] = a])
<1> DEFINE t == [s EXCEPT ![i] = a]
<1>1. Len(t) = Len(s) /\ \A j \in 1..Len(s) : t[j] = IF j = i THEN a ELSE s[j]
  OBVIOUS
<1> HIDE DEF t
<1>2. \A j \in 1..Len(s) : s[j].used => t[j].used
  BY <1>1
<1>3. \A j \in 1..(Len(s) - 1) : j \in 1..Len(s) /\ j + 1 \in 1..Len(s)
  OBVIOUS
<1>4. Settled(t)
  BY <1>1, <1>2, <1>3 DEF Settled
<1> QED
  BY <1>4 DEF t

\* mergeAll's step: the pairs before the place it is at stay as they are.
LEMMA JoinSettled ==
  ASSUME NEW s, Tiled(s), NEW t, NEW i \in 1..(Len(s) - 1), Joined(s, t, i),
         ~s[i].used, SettledTo(s, i)
  PROVE  SettledTo(t, i)
<1> DEFINE n == Len(s)
<1>0. n \in Nat /\ i \in 1..(n - 1) /\ \A j \in 1..(n - 1) : j < i => s[j].used \/ s[j + 1].used
  <2>1. s \in Seq(Header)
    BY DEF Tiled
  <2> QED
    BY <2>1 DEF SettledTo
<1>1. Len(t) = n - 1 /\ \A j \in 1..(i - 1) : t[j] = s[j]
  BY DEF Joined
<1>2. ASSUME NEW j \in 1..(n - 2), j < i PROVE t[j].used \/ t[j + 1].used
  <2>1. CASE j < i - 1
    <3>1. t[j] = s[j] /\ t[j + 1] = s[j + 1] /\ j \in 1..(n - 1)
      BY <2>1, <1>0, <1>1
    <3> QED
      BY <3>1, <1>0, <1>2
  <2>2. CASE j = i - 1
    <3>1. t[j] = s[j] /\ j + 1 = i /\ j \in 1..(n - 1)
      BY <2>2, <1>0, <1>1
    <3> QED
      BY <3>1, <1>0, <1>2
  <2> QED
    BY <2>1, <2>2, <1>0, <1>2
<1> QED
  <2>1. Len(t) - 1 = n - 2
    BY <1>0, <1>1
  <2> QED
    BY <2>1, <1>2 DEF SettledTo
-------------------------------------------------------------------------------
LEMMA InitIInv == Init => IInv
<1> SUFFICES ASSUME Init PROVE IInv
  OBVIOUS
<1>1. ranges = <<>> /\ Len(ranges) = 0 /\ pc = "ready" /\ curr = 1 /\ granted = {}
  BY DEF Init
<1>2. Held(ranges) = {} /\ SettledTo(ranges, Len(ranges))
  BY <1>1 DEF Held, SettledTo
<1> QED
  BY <1>1, <1>2 DEF IInv

\* What the invariant says between calls.
LEMMA Ready ==
  ASSUME IInv, pc = "ready", ranges # <<>>
  PROVE  Tiled(ranges) /\ ranges \in Seq(Header) /\ Settled(ranges) /\ granted = Held(ranges)
<1>1. Tiled(ranges) /\ ranges \in Seq(Header) /\ SettledTo(ranges, Len(ranges))
  BY DEF IInv, Tiled
<1> QED
  BY <1>1, SettledIsSettledTo DEF IInv

\* And how it is re-established by a call that is over at once.
LEMMA StaysReady ==
  ASSUME IInv, pc = "ready", pc' = pc, curr' = curr,
         Tiled(ranges'), Settled(ranges'), granted' = Held(ranges')
  PROVE  IInv'
<1>1. ranges' \in Seq(Header)
  BY DEF Tiled
<1>2. SettledTo(ranges', Len(ranges'))
  BY <1>1, SettledIsSettledTo
<1>3. pc' = "ready" /\ curr' \in Nat
  BY DEF IInv
<1> QED
  BY <1>2, <1>3 DEF IInv, Tiled, Held, SettledTo, Above, BlockOf

LEMMA AddIInv ==
  ASSUME IInv, AddFirst
  PROVE  IInv'
<1> DEFINE f == Free(Start, End - Start)
<1>1. f \in Header /\ f.base = Start /\ f.pages = End - Start /\ ~f.used
  BY RangeConstants DEF Free, Header
<1>2. f.pages > 0 /\ Above(f) = End
  BY <1>1, RangeConstants DEF Above
<1> HIDE DEF f
<1>3. ranges' = <<f>>
  BY DEF AddFirst, f
<1>4. ranges' \in Seq(Header) /\ Len(ranges') = 1 /\ ranges'[1] = f
  BY <1>1, <1>3
<1>5. Tiled(ranges')
  BY <1>1, <1>2, <1>4 DEF Tiled
<1>6. Held(ranges') = {}
  BY <1>1, <1>4 DEF Held
<1>7. granted' = {}
  <2>1. ranges = <<>> /\ Len(ranges) = 0 /\ granted = Held(ranges) /\ granted' = granted
    BY DEF AddFirst, IInv
  <2> QED
    BY <2>1 DEF Held
<1>8. SettledTo(ranges', 1)
  BY <1>4 DEF SettledTo
<1>9. pc' = "merge" /\ curr' = 1 /\ ranges' # <<>> /\ curr' \in 1..Len(ranges')
  BY <1>3, <1>4 DEF AddFirst, StartMerge
<1>10. granted' = Held(ranges')
  BY <1>6, <1>7
<1> QED
  BY <1>5, <1>8, <1>9, <1>10 DEF IInv, Tiled, Held, SettledTo, Above, BlockOf

LEMMA AllocateIInv ==
  ASSUME IInv, NEW pages \in Pages, AllocateRange(pages)
  PROVE  IInv'
<1>0. pages \in Nat /\ pages > 0 /\ pc = "ready" /\ pc' = pc /\ curr' = curr
  BY RangeConstants DEF AllocateRange
<1>1. PICK i \in DOMAIN ranges :
        /\ Fits(ranges[i], pages) /\ ranges' = Take(i, pages)
        /\ granted' = granted \cup {[base |-> ranges[i].base, size |-> pages]}
  BY DEF AllocateRange
<1>2. Tiled(ranges) /\ ranges \in Seq(Header) /\ Settled(ranges) /\ granted = Held(ranges)
  <2>1. ranges # <<>>
    BY <1>1
  <2> QED
    BY <2>1, <1>0, Ready
<1>3. i \in 1..Len(ranges)
  BY <1>1, <1>2
<1>4. /\ ranges[i].base \in Nat /\ ranges[i].pages \in Nat
      /\ Above(ranges[i]) = ranges[i].base + ranges[i].pages
  BY <1>2, <1>3, HeaderFacts
<1>5. ~ranges[i].used /\ ranges[i].pages >= pages
  BY <1>1 DEF Fits
<1> DEFINE a == Used(ranges[i].base, pages)
           b == Free(ranges[i].base + pages, ranges[i].pages - pages)
<1>6. a \in Header /\ a.base = ranges[i].base /\ a.pages = pages /\ a.used
      /\ BlockOf(a) = [base |-> ranges[i].base, size |-> pages]
  BY <1>0, <1>4 DEF Used, Header, BlockOf
<1>7. CASE ranges[i].pages > pages
  <2>1. b \in Header /\ b.base = ranges[i].base + pages
        /\ b.pages = ranges[i].pages - pages /\ ~b.used
    BY <1>0, <1>4, <1>7 DEF Free, Header
  <2>2. ranges' = SplitInto(ranges, i, a, b)
    BY <1>1, <1>7 DEF Take
  <2> HIDE DEF a, b
  <2>3. b.pages > 0 /\ b.base = Above(a) /\ Above(b) = Above(ranges[i])
    BY <2>1, <1>0, <1>4, <1>6, <1>7 DEF Above
  <2>4. Tiled(ranges')
    BY <2>1, <2>2, <2>3, <1>0, <1>2, <1>3, <1>6, SplitTiled
  <2>5. Settled(ranges')
    BY <2>1, <2>2, <1>2, <1>3, <1>5, <1>6, SplitSettled
  <2>6. Held(ranges') = Held(ranges) \cup {BlockOf(a)}
    BY <2>1, <2>2, <1>2, <1>3, <1>5, <1>6, SplitHeld
  <2>7. granted' = Held(ranges')
    BY <2>6, <1>1, <1>2, <1>6
  <2> QED
    BY <2>4, <2>5, <2>7, <1>0, StaysReady
<1>8. CASE ~(ranges[i].pages > pages)
  <2>1. ranges' = [ranges EXCEPT ![i] = a] /\ a.pages = ranges[i].pages
    BY <1>0, <1>1, <1>4, <1>5, <1>6, <1>8 DEF Take
  <2> HIDE DEF a
  <2>2. Tiled(ranges')
    BY <2>1, <1>2, <1>3, <1>6, FlagTiled, Zenon
  <2>3. Settled(ranges')
    BY <2>1, <1>2, <1>3, <1>6, TakeSettled, Zenon
  <2>4. Held(ranges') = Held(ranges) \cup {BlockOf(a)}
    BY <2>1, <1>2, <1>3, <1>5, <1>6, TakeHeld, Zenon
  <2>5. granted' = Held(ranges')
    BY <2>4, <1>1, <1>2, <1>6
  <2> QED
    BY <2>2, <2>3, <2>5, <1>0, StaysReady
<1> QED
  BY <1>7, <1>8

LEMMA UseIInv ==
  ASSUME IInv, NEW start \in Hints, NEW pages \in Pages, UseInside(start, pages)
  PROVE  IInv'
<1>1. PICK i \in DOMAIN ranges :
        UseIn(i, start, pages) /\ ranges[i].base # start /\ ranges' = Carve(i, start, pages)
  BY DEF UseInside
<1>0. pages \in Nat /\ pages > 0 /\ start \in Nat /\ pc = "ready" /\ pc' = pc /\ curr' = curr
  BY <1>1, RangeConstants DEF UseIn
<1>2. Tiled(ranges) /\ ranges \in Seq(Header) /\ Settled(ranges) /\ granted = Held(ranges)
  <2>1. ranges # <<>>
    BY <1>1
  <2> QED
    BY <2>1, <1>0, Ready
<1>3. i \in 1..Len(ranges) /\ Len(ranges) \in Nat
  BY <1>1, <1>2
<1> DEFINE r == ranges[i]
<1>4. r.base \in Nat /\ r.pages \in Nat /\ Above(r) = r.base + r.pages
  BY <1>2, <1>3, HeaderFacts
<1>5. /\ ~r.used /\ r.base < start /\ start + pages < Above(r)
      /\ granted' = granted \cup {[base |-> start, size |-> pages]}
  <2>1. ~r.used /\ r.base <= start /\ start + pages < Above(r) /\ r.base # start
    BY <1>1 DEF UseIn, Holds
  <2>2. granted' = granted \cup {[base |-> start, size |-> pages]}
    BY <1>1 DEF UseIn
  <2>3. r.base < start
    BY <2>1, <1>0, <1>4
  <2> QED
    BY <2>1, <2>2, <2>3
<1> DEFINE left == Free(r.base, start - r.base)
           behind == Free(start, r.pages - (start - r.base))
           taken == Used(start, pages)
           right == Free(start + pages, behind.pages - pages)
           s == SplitInto(ranges, i, left, behind)
           k == i + 1
           t == SplitInto(s, k, taken, right)
<1>6. ranges' = t
  BY <1>1 DEF Carve
<1> HIDE DEF r
<1>7. /\ left \in Header /\ left.base = r.base /\ left.pages = start - r.base /\ left.pages > 0
      /\ ~left.used
  BY <1>0, <1>4, <1>5 DEF Free, Header
<1>8. /\ behind \in Header /\ behind.base = start /\ behind.pages = r.pages - (start - r.base)
      /\ behind.pages > pages /\ behind.pages > 0 /\ ~behind.used
  BY <1>0, <1>4, <1>5 DEF Free, Header
<1>9. /\ taken \in Header /\ taken.base = start /\ taken.pages = pages /\ taken.used
      /\ BlockOf(taken) = [base |-> start, size |-> pages]
  BY <1>0 DEF Used, Header, BlockOf
<1>10. /\ right \in Header /\ right.base = start + pages
       /\ right.pages = behind.pages - pages /\ ~right.used
  <2> HIDE DEF behind
  <2>1. behind.pages \in Nat /\ behind.pages - pages \in Nat
    BY <1>0, <1>4, <1>5, <1>8
  <2> QED
    BY <2>1, <1>0 DEF Free, Header
<1> HIDE DEF left, behind, taken, right
<1>11. /\ Above(left) = behind.base /\ Above(behind) = Above(r)
       /\ Above(taken) = right.base /\ Above(right) = Above(behind) /\ right.pages > 0
  BY <1>0, <1>4, <1>5, <1>7, <1>8, <1>9, <1>10 DEF Above
<1>12. Tiled(s)
  BY <1>2, <1>3, <1>7, <1>8, <1>11, SplitTiled DEF r
<1>13. s \in Seq(Header) /\ Len(s) = Len(ranges) + 1 /\ s[i + 1] = behind
  <2>0. ranges \in Seq(Header) /\ i \in 1..Len(ranges) /\ left \in Header /\ behind \in Header
    BY <1>2, <1>3, <1>7, <1>8
  <2>1. s \in Seq(Header) /\ Len(s) = Len(ranges) + 1
    BY <2>0, SplitElements
  <2>2. s[i + 1] = behind
    BY <2>0, SplitSecond
  <2> QED
    BY <2>1, <2>2
<1>14. Held(s) = Held(ranges)
  BY <1>2, <1>3, <1>5, <1>7, <1>8, SplitHeld, Zenon DEF r
<1>15. Settled(t)
  BY <1>2, <1>3, <1>5, <1>7, <1>8, <1>9, <1>10, CarveSettled DEF r
<1> HIDE DEF s
<1>16. k \in 1..Len(s) /\ s[k] = behind
  BY <1>3, <1>13
<1> HIDE DEF k
<1>17. Tiled(t)
  BY <1>0, <1>8, <1>9, <1>10, <1>11, <1>12, <1>16, SplitTiled
<1>18. Held(t) = Held(s) \cup {BlockOf(taken)}
  BY <1>8, <1>9, <1>10, <1>13, <1>16, SplitHeld
<1>19. granted' = Held(ranges')
  BY <1>2, <1>5, <1>6, <1>9, <1>14, <1>18
<1> HIDE DEF t
<1> QED
  BY <1>0, <1>6, <1>15, <1>17, <1>19, StaysReady

LEMMA FreeIInv ==
  ASSUME IInv, NEW base, FreeRange(base)
  PROVE  IInv'
<1>1. PICK i \in DOMAIN ranges :
        /\ ranges[i].base = base /\ ranges[i].used
        /\ ranges' = [ranges EXCEPT ![i] = Free(base, ranges[i].pages)]
  BY Zenon DEF FreeRange
<1>0. pc = "ready" /\ pc' = "merge" /\ curr' = 1 /\ granted' = {g \in granted : g.base # base}
  BY DEF FreeRange, StartMerge
<1>2. Tiled(ranges) /\ ranges \in Seq(Header) /\ Settled(ranges) /\ granted = Held(ranges)
  <2>1. ranges # <<>>
    BY <1>1
  <2> QED
    BY <2>1, <1>0, Ready
<1>3. i \in 1..Len(ranges)
  BY <1>1, <1>2
<1>4. ranges[i].base \in Nat /\ ranges[i].pages \in Nat
  BY <1>2, <1>3, HeaderFacts
<1> DEFINE a == Free(base, ranges[i].pages)
<1>5. a \in Header /\ a.base = ranges[i].base /\ a.pages = ranges[i].pages /\ ~a.used
  BY <1>1, <1>4 DEF Free, Header
<1> HIDE DEF a
<1>6. ranges' = [ranges EXCEPT ![i] = a]
  BY <1>1 DEF a
<1>7. Tiled(ranges')
  BY <1>2, <1>3, <1>5, <1>6, FlagTiled, Zenon
<1>8. Held(ranges') = {g \in Held(ranges) : g.base # ranges[i].base}
  <2>1. Tiled(ranges) /\ i \in 1..Len(ranges) /\ a \in Header /\ ranges[i].used /\ ~a.used
    BY <1>1, <1>2, <1>3, <1>5
  <2>2. Held([ranges EXCEPT ![i] = a]) = {g \in Held(ranges) : g.base # ranges[i].base}
    BY <2>1, FreeHeld
  <2> QED
    BY <2>2, <1>6, Zenon
<1>9. granted' = Held(ranges')
  BY <1>0, <1>1, <1>2, <1>8, Zenon
<1>10. ranges' # <<>> /\ Len(ranges') = Len(ranges) /\ 1 \in 1..Len(ranges')
  BY <1>2, <1>3, <1>6
<1>11. SettledTo(ranges', 1)
  BY DEF SettledTo
<1>12. pc' = "merge" /\ curr' = 1 /\ curr' \in 1..Len(ranges')
  BY <1>0, <1>10
<1> QED
  BY <1>7, <1>9, <1>10, <1>11, <1>12 DEF IInv, Tiled, Held, SettledTo, Above, BlockOf

LEMMA MergeIInv ==
  ASSUME IInv, MergeNext
  PROVE  IInv'
<1>0. /\ pc = "merge" /\ pc' = "merge" /\ granted' = granted /\ granted = Held(ranges)
      /\ Tiled(ranges) /\ ranges \in Seq(Header) /\ curr \in 1..Len(ranges)
      /\ curr < Len(ranges) /\ SettledTo(ranges, curr)
  BY DEF IInv, MergeNext, Tiled
<1>a. curr \in 1..(Len(ranges) - 1) /\ Len(ranges) \in Nat
  BY <1>0
<1>1. CASE /\ Mergeable(ranges[curr], ranges[curr + 1])
           /\ ranges' = Merged(curr)
           /\ curr' = curr
  <2>1. ~ranges[curr].used /\ ~ranges[curr + 1].used
    BY <1>1 DEF Mergeable
  <2>2. Joined(ranges, ranges', curr)
    BY <1>0, <1>a, <1>1, MergedJoined
  <2>3. Tiled(ranges')
    BY <1>0, <1>a, <2>2, JoinTiled
  <2>4. Held(ranges') = Held(ranges)
    BY <1>0, <1>a, <2>1, <2>2, JoinHeld
  <2>5. SettledTo(ranges', curr)
    BY <1>0, <1>a, <2>1, <2>2, JoinSettled
  <2>6. /\ granted' = Held(ranges') /\ curr' \in 1..Len(ranges') /\ curr' \in Nat
        /\ ranges' # <<>>
    <3>1. Len(ranges') = Len(ranges) - 1
      BY <2>2 DEF Joined
    <3>2. curr' \in 1..Len(ranges')
      BY <3>1, <1>a, <1>1
    <3> QED
      BY <3>2, <2>4, <1>0
  <2>7. SettledTo(ranges', curr')
    BY <2>5, <1>1
  <2> QED
    BY <2>3, <2>6, <2>7, <1>0 DEF IInv, Tiled, Held, SettledTo, Above, BlockOf
<1>2. CASE /\ ~Mergeable(ranges[curr], ranges[curr + 1])
           /\ curr' = curr + 1
           /\ ranges' = ranges
  <2>1. ranges[curr].used \/ ranges[curr + 1].used
    <3>1. ranges[curr + 1].base = Above(ranges[curr])
      BY <1>0, <1>a DEF Tiled
    <3> QED
      BY <3>1, <1>2 DEF Mergeable
  <2>2. SettledTo(ranges, curr + 1)
    <3>1. \A i \in 1..(Len(ranges) - 1) : i < curr + 1 => i < curr \/ i = curr
      BY <1>a
    <3> QED
      BY <3>1, <2>1, <1>0 DEF SettledTo
  <2>3. curr' \in 1..Len(ranges') /\ curr' \in Nat /\ ranges' # <<>>
    BY <1>a, <1>0, <1>2
  <2>4. SettledTo(ranges', curr')
    BY <2>2, <1>2
  <2>5. Tiled(ranges') /\ granted' = Held(ranges')
    BY <1>0, <1>2
  <2> QED
    BY <2>3, <2>4, <2>5, <1>0 DEF IInv, Tiled, Held, SettledTo, Above, BlockOf
<1> QED
  BY <1>1, <1>2 DEF MergeNext

LEMMA DoneIInv ==
  ASSUME IInv, MergeDone
  PROVE  IInv'
<1>1. /\ pc' = "ready" /\ pc = "merge" /\ ranges' = ranges /\ curr' = curr /\ granted' = granted
      /\ curr = Len(ranges)
  BY DEF MergeDone
<1>2. SettledTo(ranges', Len(ranges'))
  BY <1>1 DEF IInv
<1> QED
  BY <1>1, <1>2 DEF IInv, Tiled, Held, SettledTo, Above, BlockOf

LEMMA NextIInv == IInv /\ [Next]_vars => IInv'
<1> SUFFICES ASSUME IInv, [Next]_vars PROVE IInv'
  OBVIOUS
<1>1. CASE UNCHANGED vars
  BY <1>1 DEF vars, IInv, Tiled, Held, SettledTo, Above, BlockOf
<1> QED
  BY <1>1, AddIInv, AllocateIInv, UseIInv, FreeIInv, MergeIInv, DoneIInv DEF Next

LEMMA Invariant == Spec => []IInv
  BY InitIInv, NextIInv, PTL DEF Spec
-------------------------------------------------------------------------------
\* The ranges always tile the memory added: no page is lost and none belongs to
\* two headers, whatever is allocated, carved out, freed and merged.
THEOREM RangesAlwaysTile == Spec => []RangesTile
<1>1. IInv => RangesTile
  BY DEF IInv, Tiled, RangesTile
<1> QED
  BY <1>1, Invariant, PTL

\* The used headers are exactly what the callers of allocateRange and useRange
\* hold.
THEOREM UsedAlwaysGranted == Spec => []UsedIsGranted
<1>1. IInv => UsedIsGranted
  <2> SUFFICES ASSUME IInv PROVE UsedIsGranted
    OBVIOUS
  <2>1. DOMAIN ranges = 1..Len(ranges)
    BY DEF IInv, Tiled
  <2> QED
    BY <2>1 DEF IInv, Held, BlockOf, UsedIsGranted
<1> QED
  BY <1>1, Invariant, PTL

\* Between calls mergeAll has left nothing to merge.
THEOREM NeverLeftToMerge == Spec => []NothingToMerge
<1>1. IInv => NothingToMerge
  <2> SUFFICES ASSUME IInv, pc = "ready", NEW i \in 1..(Len(ranges) - 1)
               PROVE  ~Mergeable(ranges[i], ranges[i + 1])
    BY DEF NothingToMerge
  <2>1. ranges # <<>>
    OBVIOUS
  <2> QED
    BY <2>1, Ready DEF Settled, Mergeable
<1> QED
  BY <1>1, Invariant, PTL

\* Every page between Start and End lies in a range of a tiled list: the first
\* one that ends above it.
LEMMA PageInRange ==
  ASSUME NEW s, Tiled(s), NEW p \in Start..(End - 1)
  PROVE  \E i \in 1..Len(s) : s[i].base <= p /\ p < Above(s[i])
<1>1. s \in Seq(Header) /\ Len(s) \in Nat /\ Len(s) > 0 /\ Above(s[Len(s)]) = End /\ s[1].base = Start
  BY DEF Tiled
<1>2. p \in Int /\ Start <= p /\ p < End
  BY RangeConstants
<1> DEFINE S == {i \in 1..Len(s) : p < Above(s[i])}
<1>3. S \in SUBSET Nat /\ Len(s) \in S
  BY <1>1, <1>2
<1>4. PICK i \in S : \A j \in S : i <= j
  <2>1. S # {}
    BY <1>3
  <2> HIDE DEF S
  <2> QED
    BY <1>3, <2>1, Least
<1>5. i \in 1..Len(s) /\ p < Above(s[i])
  BY <1>4
<1>6. CASE i = 1
  BY <1>1, <1>2, <1>5, <1>6
<1>7. CASE i # 1
  <2>1. i - 1 \in 1..(Len(s) - 1) /\ (i - 1) + 1 = i /\ i - 1 \in 1..Len(s) /\ i - 1 < i
    BY <1>1, <1>5, <1>7
  <2>2. ~(p < Above(s[i - 1]))
    <3>1. i - 1 \notin S
      BY <1>4, <1>5, <2>1
    <3> QED
      BY <2>1, <3>1
  <2>3. s[i].base = Above(s[i - 1])
    BY <2>1 DEF Tiled
  <2>4. Above(s[i - 1]) \in Nat
    BY <1>1, <2>1, HeaderFacts
  <2> QED
    BY <1>2, <1>5, <2>2, <2>3, <2>4
<1> QED
  BY <1>6, <1>7

\* In a list without free neighbours, pages nobody holds lie in one free range.
LEMMA UnheldFits ==
  ASSUME NEW s, Tiled(s), Settled(s), NEW pages \in Nat, pages > 0, NEW p \in Start..(End - 1),
         p + pages <= End,
         \A q \in p..(p + pages - 1) : \A g \in Held(s) : ~(g.base <= q /\ q < g.base + g.size)
  PROVE  \E i \in 1..Len(s) : Fits(s[i], pages)
<1>1. s \in Seq(Header) /\ Len(s) \in Nat /\ Above(s[Len(s)]) = End
  BY DEF Tiled
<1>2. PICK i \in 1..Len(s) : s[i].base <= p /\ p < Above(s[i])
  BY PageInRange
<1>3. p \in Int /\ pages \in Int
  BY RangeConstants
<1>4. ASSUME NEW j \in 1..Len(s), NEW q \in p..(p + pages - 1), s[j].base <= q, q < Above(s[j])
      PROVE  ~s[j].used
  <2> DEFINE g == BlockOf(s[j])
  <2>1. g.base = s[j].base /\ g.size = s[j].pages
    BY DEF BlockOf
  <2>2. s[j].used => g \in Held(s)
    BY HeldElements
  <2> HIDE DEF g
  <2> QED
    BY <1>4, <2>1, <2>2 DEF Above
<1>5. ~s[i].used
  <2>1. p \in p..(p + pages - 1)
    BY <1>3
  <2> QED
    BY <1>2, <1>4, <2>1
<1>6. /\ s[i].base \in Nat /\ s[i].pages \in Nat /\ Above(s[i]) \in Nat
      /\ Above(s[i]) = s[i].base + s[i].pages
  BY <1>1, HeaderFacts
<1>7. p + pages <= Above(s[i])
  <2> SUFFICES ASSUME Above(s[i]) < p + pages PROVE FALSE
    BY <1>3, <1>6
  <2>1. i # Len(s)
    BY <1>1, <1>3, <1>6, RangeConstants
  <2>2. i \in 1..(Len(s) - 1) /\ i + 1 \in 1..Len(s)
    BY <1>1, <2>1
  <2>3. s[i + 1].base = Above(s[i]) /\ s[i + 1].pages > 0 /\ s[i + 1].used
    BY <1>5, <2>2 DEF Tiled, Settled
  <2>4. s[i + 1].base \in Nat /\ s[i + 1].pages \in Nat /\ Above(s[i + 1]) = s[i + 1].base + s[i + 1].pages
    BY <1>1, <2>2, HeaderFacts
  <2>5. Above(s[i]) \in p..(p + pages - 1)
    BY <1>2, <1>3, <1>6
  <2>6. s[i + 1].base <= Above(s[i]) /\ Above(s[i]) < Above(s[i + 1])
    BY <2>3, <2>4
  <2> QED
    BY <1>4, <2>2, <2>3, <2>5, <2>6
<1>8. s[i].pages >= pages
  BY <1>2, <1>3, <1>6, <1>7
<1> QED
  BY <1>5, <1>8 DEF Fits

\* allocateRange returns NULL only when no stretch of that many pages is free of
\* what callers hold, whatever was allocated, carved out and freed before.
THEOREM NeverFailsSpuriously == Spec => []NoSpuriousFailure
<1>1. IInv => NoSpuriousFailure
  <2> SUFFICES ASSUME IInv, pc = "ready", ranges # <<>>, NEW pages \in Pages, NEW p \in Start..(End - 1),
                      p + pages <= End, \A q \in p..(p + pages - 1) : Holders(q) = {}
               PROVE  \E i \in DOMAIN ranges : Fits(ranges[i], pages)
    BY DEF NoSpuriousFailure
  <2>1. Tiled(ranges) /\ ranges \in Seq(Header) /\ Settled(ranges) /\ granted = Held(ranges)
    BY Ready
  <2>2. pages \in Nat /\ pages > 0
    BY RangeConstants
  <2>3. \A q \in p..(p + pages - 1) : \A g \in Held(ranges) : ~(g.base <= q /\ q < g.base + g.size)
    BY <2>1 DEF Holders
  <2>4. \E i \in 1..Len(ranges) : Fits(ranges[i], pages)
    BY <2>1, <2>2, <2>3, UnheldFits
  <2> QED
    BY <2>1, <2>4
<1> QED
  BY <1>1, Invariant, PTL

\* The allocator's variables keep their types; in particular no count of pages
\* in useRange and allocateRange is ever computed below zero.
THEOREM RangeTypes == Spec => []TypeOK
<1>1. IInv => TypeOK
  <2> SUFFICES ASSUME IInv PROVE TypeOK
    OBVIOUS
  <2>1. ranges \in Seq(Header)
    <3>1. CASE ranges = <<>>
      BY <3>1
    <3> QED
      BY <3>1 DEF IInv, Tiled
  <2>2. ASSUME NEW g \in granted PROVE g \in Block
    <3>1. PICK i \in 1..Len(ranges) : g = BlockOf(ranges[i])
      BY DEF IInv, Held
    <3>2. ranges[i].base \in Nat /\ ranges[i].pages \in Nat
      BY <2>1, HeaderFacts
    <3> QED
      BY <3>1, <3>2 DEF BlockOf, Block
  <2> QED
    BY <2>1, <2>2 DEF IInv, TypeOK
<1> QED
  BY <1>1, Invariant, PTL
-------------------------------------------------------------------------------
(* Refinement: the list implements BlockAllocator.                         *)

\* A range of a tiled list lies in the memory added.
LEMMA Inside ==
  ASSUME NEW s, Tiled(s), NEW i \in 1..Len(s)
  PROVE  Start <= s[i].base /\ Above(s[i]) <= End
<1> DEFINE n == Len(s)
<1>0. s \in Seq(Header) /\ n \in Nat /\ 1 \in 1..n /\ n \in 1..n
  <2>1. s \in Seq(Header)
    BY DEF Tiled
  <2> QED
    BY <2>1
<1>1. /\ s[i].base \in Nat /\ s[i].pages \in Nat /\ Above(s[i]) = s[i].base + s[i].pages
      /\ s[1].base \in Nat /\ s[1].pages \in Nat /\ Above(s[1]) = s[1].base + s[1].pages
      /\ s[n].base \in Nat /\ s[n].pages \in Nat /\ Above(s[n]) = s[n].base + s[n].pages
  BY <1>0, HeaderFacts
<1>2. s[1].base = Start /\ Above(s[n]) = End
  BY DEF Tiled
<1>3. i = 1 \/ Above(s[1]) <= s[i].base
  BY <1>0 DEF Tiled
<1>4. i = n \/ Above(s[i]) <= s[n].base
  BY <1>0 DEF Tiled
<1>5. Start <= s[i].base
  BY <1>1, <1>2, <1>3
<1>6. Above(s[i]) <= End
  BY <1>1, <1>2, <1>4
<1> QED
  BY <1>5, <1>6

\* A block cut from a free range is apart from everything held.
LEMMA CutApart ==
  ASSUME NEW s, Tiled(s), NEW i \in 1..Len(s), ~s[i].used,
         NEW base \in Nat, NEW size \in Nat, s[i].base <= base, base + size <= Above(s[i]),
         NEW a \in Held(s)
  PROVE  Promise!Apart(a, [base |-> base, size |-> size])
<1>1. PICK j \in 1..Len(s) : s[j].used /\ a = BlockOf(s[j])
  BY HeldElements
<1>2. s \in Seq(Header)
  BY DEF Tiled
<1>3. /\ s[i].base \in Nat /\ s[i].pages \in Nat /\ Above(s[i]) = s[i].base + s[i].pages
      /\ s[j].base \in Nat /\ s[j].pages \in Nat /\ Above(s[j]) = s[j].base + s[j].pages
  BY <1>2, HeaderFacts
<1>4. Above(s[i]) <= s[j].base \/ Above(s[j]) <= s[i].base
  <2>1. i # j
    BY <1>1
  <2>2. i < j \/ j < i
    BY <2>1, <1>2
  <2> QED
    BY <2>2 DEF Tiled
<1>5. a.base = s[j].base /\ a.size = s[j].pages
  BY <1>1 DEF BlockOf
<1>6. a.base + a.size <= base \/ base + size <= a.base
  BY <1>3, <1>4, <1>5
<1> QED
  BY <1>6 DEF Promise!Apart

\* Handing out a block cut from a free range is an Allocate of the promise.
LEMMA CutImplements ==
  ASSUME Tiled(ranges), granted = Held(ranges), NEW i \in 1..Len(ranges), ~ranges[i].used,
         NEW base \in Nat, NEW size \in Nat, size > 0,
         ranges[i].base <= base, base + size <= Above(ranges[i]),
         granted' = granted \cup {[base |-> base, size |-> size]}
  PROVE  Promise!Allocate
<1> DEFINE b == [base |-> base, size |-> size]
<1>1. \A a \in granted : Promise!Apart(a, b)
  BY CutApart
<1>2. Start <= base /\ base + size <= End
  <2>1. Start <= ranges[i].base /\ Above(ranges[i]) <= End
    BY Inside
  <2>2. ranges[i].base \in Nat /\ Above(ranges[i]) \in Nat /\ Start \in Nat /\ End \in Nat
    BY HeaderFacts, RangeConstants DEF Tiled
  <2> QED
    BY <2>1, <2>2
<1>3. b \in granted' /\ b.base = base /\ b.size = size
  OBVIOUS
<1> HIDE DEF b
<1>4. granted' = granted \cup {b}
  BY DEF b
<1> QED
  BY <1>1, <1>2, <1>3, <1>4 DEF Promise!Allocate

\* Every step of the allocator is a step of the promise, or leaves what is held
\* alone.
LEMMA StepImplements == IInv /\ [Next]_vars => [Promise!Next]_(<<granted, End>>)
<1> SUFFICES ASSUME IInv, [Next]_vars PROVE Promise!Next \/ granted' = granted
  OBVIOUS
<1>1. ASSUME NEW pages \in Pages, AllocateRange(pages) PROVE Promise!Next
  <2>0. pages \in Nat /\ pages > 0 /\ pc = "ready"
    BY <1>1, RangeConstants DEF AllocateRange
  <2>1. PICK i \in DOMAIN ranges :
          /\ Fits(ranges[i], pages)
          /\ granted' = granted \cup {[base |-> ranges[i].base, size |-> pages]}
    BY <1>1 DEF AllocateRange
  <2>2. Tiled(ranges) /\ granted = Held(ranges) /\ ranges \in Seq(Header)
    BY <2>0, <2>1, Ready
  <2>3. i \in 1..Len(ranges)
    BY <2>1, <2>2
  <2>4. /\ ranges[i].base \in Nat /\ ranges[i].pages \in Nat
        /\ Above(ranges[i]) = ranges[i].base + ranges[i].pages
    BY <2>2, <2>3, HeaderFacts
  <2>5. ~ranges[i].used /\ ranges[i].pages >= pages
    BY <2>1 DEF Fits
  <2>6. ranges[i].base <= ranges[i].base /\ ranges[i].base + pages <= Above(ranges[i])
    BY <2>0, <2>4, <2>5
  <2> QED
    BY <2>0, <2>1, <2>2, <2>3, <2>4, <2>5, <2>6, CutImplements, Zenon DEF Promise!Next
<1>2. ASSUME NEW start \in Hints, NEW pages \in Pages, UseInside(start, pages)
      PROVE  Promise!Next
  <2>1. PICK i \in DOMAIN ranges : UseIn(i, start, pages)
    BY <1>2 DEF UseInside
  <2>0. pages \in Nat /\ pages > 0 /\ start \in Nat /\ pc = "ready"
    BY <2>1, RangeConstants DEF UseIn
  <2>2. Tiled(ranges) /\ granted = Held(ranges) /\ ranges \in Seq(Header)
    BY <2>0, <2>1, Ready
  <2>3. i \in 1..Len(ranges)
    BY <2>1, <2>2
  <2>4. Above(ranges[i]) \in Nat
    BY <2>2, <2>3, HeaderFacts
  <2>5. /\ ~ranges[i].used /\ ranges[i].base <= start /\ start + pages < Above(ranges[i])
        /\ granted' = granted \cup {[base |-> start, size |-> pages]}
    BY <2>1 DEF UseIn, Holds
  <2>6. start + pages <= Above(ranges[i])
    BY <2>0, <2>4, <2>5
  <2> QED
    BY <2>0, <2>2, <2>3, <2>5, <2>6, CutImplements DEF Promise!Next
<1>3. ASSUME NEW base, FreeRange(base) PROVE Promise!Next
  <2>1. PICK i \in DOMAIN ranges : ranges[i].base = base /\ ranges[i].used
    BY <1>3 DEF FreeRange
  <2>0. pc = "ready" /\ granted' = {g \in granted : g.base # base}
    BY <1>3 DEF FreeRange
  <2>2. Tiled(ranges) /\ granted = Held(ranges) /\ ranges \in Seq(Header)
    BY <2>0, <2>1, Ready
  <2>3. i \in 1..Len(ranges)
    BY <2>1, <2>2
  <2>4. BlockOf(ranges[i]) \in granted /\ BlockOf(ranges[i]).base = base
    BY <2>1, <2>2, <2>3, HeldElements DEF BlockOf
  <2>5. ASSUME NEW g \in granted, g.base = base PROVE g = BlockOf(ranges[i])
    <3>1. PICK j \in 1..Len(ranges) : g = BlockOf(ranges[j])
      BY <2>2, HeldElements
    <3>2. ranges[j].base = ranges[i].base
      BY <3>1, <2>1, <2>5 DEF BlockOf
    <3>3. i = j
      BY <3>2, <2>2, <2>3, BasesDistinct
    <3> QED
      BY <3>1, <3>3
  <2>6. granted' = granted \ {BlockOf(ranges[i])}
    BY <2>0, <2>4, <2>5
  <2> QED
    BY <2>4, <2>6 DEF Promise!Next, Promise!Free
<1>4. CASE AddFirst \/ MergeNext \/ MergeDone \/ UNCHANGED vars
  BY <1>4 DEF AddFirst, MergeNext, MergeDone, vars
<1> QED
  BY <1>1, <1>2, <1>3, <1>4 DEF Next

\* The address range allocator implements the abstract allocator, for every
\* range added and every choice of request sizes and hints.
THEOREM RangesImplementAllocator == Spec => RangesAreAllocator
<1>1. Init => Promise!Init
  BY RangeConstants DEF Init, Promise!Init
<1> QED
  BY <1>1, StepImplements, Invariant, PTL DEF Spec, RangesAreAllocator, Promise!Spec
=============================================================================
