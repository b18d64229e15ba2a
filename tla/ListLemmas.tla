------------------------------ MODULE ListLemmas ------------------------------
(* What inserting into and removing from a list does to its elements, and   *)
(* facts about natural numbers the proofs share.                           *)
EXTENDS Lists, WellFoundedInduction, TLAPS

USE SMTT(20), ZenonT(20)  \* the provers of a leaf that names none

\* A set of natural numbers has a least element.
LEMMA Least ==
  ASSUME NEW S \in SUBSET Nat, S # {}
  PROVE  \E x \in S : \A y \in S : x <= y
<1> DEFINE R == OpToRel(<, Nat)
<1>1. IsWellFoundedOn(R, Nat) BY NatLessThanWellFounded, Zenon
<1>2. \A x, y \in Nat : <<x, y>> \in R <=> x < y BY DEF OpToRel
<1> HIDE DEF R
<1>3. \E x \in S : \A y \in S : ~ (<<y, x>> \in R) BY <1>1, WFMin, Zenon
<1>4. PICK x \in S : \A y \in S : ~ (<<y, x>> \in R) BY <1>3
<1>5. \A y \in S : ~ (y < x) BY <1>2, <1>4, Zenon
<1> QED BY <1>5

\* Induction: a set with 0 and with the successor of each of its numbers has
\* every natural number.
LEMMA Induct ==
  ASSUME NEW S, 0 \in S, \A n \in Nat : n \in S => n + 1 \in S
  PROVE  Nat \subseteq S
<1> DEFINE T == Nat \ S
<1> SUFFICES ASSUME T # {} PROVE FALSE OBVIOUS
<1>1. PICK x \in T : \A y \in T : x <= y BY Least, Zenon
<1>2. x # 0 /\ x \in Nat OBVIOUS
<1>3. x - 1 \in Nat /\ x - 1 \in S BY <1>1, <1>2
<1> QED BY <1>3

\* Concatenation, element by element.
LEMMA ConcatElements ==
  ASSUME NEW S, NEW a \in Seq(S), NEW b \in Seq(S)
  PROVE  /\ a \o b \in Seq(S)
         /\ Len(a \o b) = Len(a) + Len(b)
         /\ \A j \in 1..Len(a) : (a \o b)[j] = a[j]
         /\ \A j \in (Len(a) + 1)..(Len(a) + Len(b)) : (a \o b)[j] = b[j - Len(a)]
  OBVIOUS

\* The list n has e at i and the elements of s, a list of S, around it, in order.
Inserted(S, s, i, e, n) ==
  /\ n \in Seq(S)
  /\ Len(n) = Len(s) + 1
  /\ \A j \in 1..(i - 1) : n[j] = s[j]
  /\ n[i] = e
  /\ \A j \in (i + 1)..(Len(s) + 1) : n[j] = s[j - 1]

\* InsertAt puts e at i and moves the rest up: the effect of linking a new
\* header behind its predecessor (split->next = ...).
LEMMA InsertAtElements ==
  ASSUME NEW S, NEW s \in Seq(S), NEW e \in S, NEW i \in 1..(Len(s) + 1)
  PROVE  Inserted(S, s, i, e, InsertAt(s, i, e))
<1> DEFINE a == SubSeq(s, 1, i - 1)  b == SubSeq(s, i, Len(s))  c == a \o <<e>>
<1>1. a \in Seq(S) /\ Len(a) = i - 1 /\ \A j \in 1..(i - 1) : a[j] = s[j]
  OBVIOUS
<1>2. b \in Seq(S) /\ Len(b) = Len(s) - i + 1 /\ \A j \in 1..Len(b) : b[j] = s[j + i - 1]
  OBVIOUS
<1>3. InsertAt(s, i, e) = c \o b
  BY DEF InsertAt
<1>4. <<e>> \in Seq(S) /\ Len(<<e>>) = 1 /\ <<e>>[1] = e
  OBVIOUS
<1> HIDE DEF a, b
<1>5. c \in Seq(S) /\ Len(c) = i /\ c[i] = e /\ \A j \in 1..(i - 1) : c[j] = s[j]
  <2>1. c \in Seq(S) /\ Len(c) = i /\ (\A j \in 1..(i - 1) : c[j] = a[j])
        /\ \A j \in i..i : c[j] = <<e>>[j - (i - 1)]
    BY <1>1, <1>4, ConcatElements
  <2> QED
    BY <2>1, <1>1, <1>4
<1> HIDE DEF c
<1>6. /\ c \o b \in Seq(S)
      /\ Len(c \o b) = Len(s) + 1
      /\ \A j \in 1..i : (c \o b)[j] = c[j]
      /\ \A j \in (i + 1)..(Len(s) + 1) : (c \o b)[j] = b[j - i]
  BY <1>2, <1>5, ConcatElements
<1>7. \A j \in (i + 1)..(Len(s) + 1) : b[j - i] = s[j - 1]
  BY <1>2
<1> QED
  BY <1>3, <1>5, <1>6, <1>7 DEF Inserted

\* RemoveAt(s, i) is s without its i-th element, the later ones one place
\* earlier: the effect of unlinking a header (range->next = range->next->next).
LEMMA RemoveAtElements ==
  ASSUME NEW S, NEW s \in Seq(S), NEW i \in 1..Len(s)
  PROVE  /\ RemoveAt(s, i) \in Seq(S)
         /\ Len(RemoveAt(s, i)) = Len(s) - 1
         /\ \A j \in 1..(i - 1) : RemoveAt(s, i)[j] = s[j]
         /\ \A j \in i..(Len(s) - 1) : RemoveAt(s, i)[j] = s[j + 1]
<1> DEFINE a == SubSeq(s, 1, i - 1)  b == SubSeq(s, i + 1, Len(s))
<1>1. a \in Seq(S) /\ Len(a) = i - 1 /\ \A j \in 1..(i - 1) : a[j] = s[j]
  OBVIOUS
<1>2. b \in Seq(S) /\ Len(b) = Len(s) - i /\ \A j \in 1..Len(b) : b[j] = s[j + i]
  OBVIOUS
<1>3. RemoveAt(s, i) = a \o b
  BY DEF RemoveAt
<1> HIDE DEF a, b
<1>4. /\ a \o b \in Seq(S)
      /\ Len(a \o b) = Len(s) - 1
      /\ \A j \in 1..(i - 1) : (a \o b)[j] = a[j]
      /\ \A j \in i..(Len(s) - 1) : (a \o b)[j] = b[j - (i - 1)]
  BY <1>1, <1>2, ConcatElements
<1>5. ASSUME NEW j \in i..(Len(s) - 1)
      PROVE  b[j - (i - 1)] = s[j + 1]
  <2>1. j - (i - 1) \in 1..Len(b) /\ (j - (i - 1)) + i = j + 1
    BY <1>2
  <2> QED
    BY <1>2, <2>1, Zenon
<1> QED
  BY <1>1, <1>3, <1>4, <1>5

\* Element i replaced by e and element i + 1 dropped: merging a header with its
\* successor (curr->next = curr->next->next).
JoinAt(s, i, e) == RemoveAt([s EXCEPT ![i] = e], i + 1)

\* JoinAt, element by element.
LEMMA JoinElements ==
  ASSUME NEW S, NEW s \in Seq(S), NEW e \in S, NEW i \in 1..(Len(s) - 1)
  PROVE  /\ JoinAt(s, i, e) \in Seq(S)
         /\ Len(JoinAt(s, i, e)) = Len(s) - 1
         /\ \A j \in 1..(i - 1) : JoinAt(s, i, e)[j] = s[j]
         /\ JoinAt(s, i, e)[i] = e
         /\ \A j \in (i + 1)..(Len(s) - 1) : JoinAt(s, i, e)[j] = s[j + 1]
<1> DEFINE g == [s EXCEPT ![i] = e]  k == i + 1  t == RemoveAt(g, k)
<1>1. /\ g \in Seq(S) /\ Len(g) = Len(s) /\ g[i] = e
      /\ \A j \in 1..Len(s) : j # i => g[j] = s[j]
  OBVIOUS
<1>2. g \in Seq(S) /\ k \in 1..Len(g)
  BY <1>1
<1> HIDE DEF g, k
<1>3. /\ t \in Seq(S) /\ Len(t) = Len(g) - 1
      /\ \A j \in 1..(k - 1) : t[j] = g[j]
      /\ \A j \in k..(Len(g) - 1) : t[j] = g[j + 1]
  BY <1>2, RemoveAtElements
<1> HIDE DEF t
<1>4. Len(s) \in Nat /\ i \in Nat /\ k = i + 1 /\ Len(g) = Len(s)
  BY <1>1 DEF k
<1>5. t[i] = e
  <2>1. i \in 1..(k - 1)
    BY <1>4
  <2> QED
    BY <1>1, <1>3, <2>1
<1>6. ASSUME NEW j \in 1..(i - 1)
      PROVE  t[j] = s[j]
  <2>1. j \in 1..(k - 1) /\ j \in 1..Len(s) /\ j # i
    BY <1>4
  <2> QED
    BY <1>1, <1>3, <2>1
<1>7. ASSUME NEW j \in (i + 1)..(Len(s) - 1)
      PROVE  t[j] = s[j + 1]
  <2>1. j \in k..(Len(g) - 1) /\ j + 1 \in 1..Len(s) /\ j + 1 # i
    BY <1>4
  <2> QED
    BY <1>1, <1>3, <2>1
<1>8. t = JoinAt(s, i, e)
  BY DEF t, g, k, JoinAt
<1>9. t \in Seq(S) /\ Len(t) = Len(s) - 1
  BY <1>3, <1>4
<1> QED
  BY <1>5, <1>6, <1>7, <1>8, <1>9

\* f holds the sums of the first numbers of w, up to n of them.
Sums(f, w, n) == f = [i \in 0..n |-> IF i = 0 THEN 0 ELSE f[i - 1] + w[i]]

\* There are such sums.
LEMMA SumsExist ==
  ASSUME NEW w, NEW n \in Nat
  PROVE  \E f : Sums(f, w, n)
<1> DEFINE S == {m \in Nat : \E f : Sums(f, w, m)}
<1>1. 0 \in S
  <2>1. Sums([i \in 0..0 |-> 0], w, 0) BY DEF Sums
  <2> QED BY <2>1
<1>2. ASSUME NEW m \in Nat, m \in S PROVE m + 1 \in S
  <2>1. PICK f : Sums(f, w, m) BY <1>2
  <2> DEFINE g == [i \in 0..(m + 1) |-> IF i = m + 1 THEN f[m] + w[m + 1] ELSE f[i]]
  <2>2. Sums(g, w, m + 1) BY <2>1 DEF Sums
  <2> QED BY <2>2
<1> HIDE DEF S
<1>3. Nat \subseteq S BY <1>1, <1>2, Induct
<1> QED BY <1>3 DEF S

\* Sums of the same numbers agree as far as both go.
LEMMA SumsAgree ==
  ASSUME NEW w, NEW m \in Nat, NEW n \in Nat, NEW f, NEW g, Sums(f, w, m), Sums(g, w, n), m <= n
  PROVE  f[m] = g[m]
<1> DEFINE S == {i \in Nat : i <= m => f[i] = g[i]}
<1>1. 0 \in S BY DEF Sums
<1>2. ASSUME NEW i \in Nat, i \in S PROVE i + 1 \in S
  <2>1. CASE i + 1 <= m
    <3>1. f[i] = g[i] /\ i + 1 \in 0..m /\ i + 1 \in 0..n /\ i + 1 # 0 /\ (i + 1) - 1 = i BY <1>2, <2>1
    <3>2. f[i + 1] = f[i] + w[i + 1] BY <3>1 DEF Sums
    <3>3. g[i + 1] = g[i] + w[i + 1] BY <3>1 DEF Sums
    <3> QED BY <3>1, <3>2, <3>3
  <2> QED BY <2>1
<1> HIDE DEF S
<1>3. Nat \subseteq S BY <1>1, <1>2, Induct
<1> QED BY <1>3 DEF S

\* A total is one of the sums.
LEMMA TotalIsSum ==
  ASSUME NEW w, NEW n \in Nat
  PROVE  \E f : Sums(f, w, n) /\ Total(w, n) = f[n]
<1> DEFINE f == CHOOSE f : Sums(f, w, n)
<1>1. Sums(f, w, n) BY SumsExist, Zenon
<1>2. Total(w, n) = f[n] BY Zenon DEF Total, Sums
<1> QED BY <1>1, <1>2, Zenon

\* The total of no number is 0, and one number more adds that number.
LEMMA TotalStep ==
  ASSUME NEW w
  PROVE  /\ Total(w, 0) = 0
         /\ \A n \in Nat : Total(w, n + 1) = Total(w, n) + w[n + 1]
<1>1. Total(w, 0) = 0
  <2>1. PICK f : Sums(f, w, 0) /\ Total(w, 0) = f[0] BY TotalIsSum
  <2> QED BY <2>1 DEF Sums
<1>2. ASSUME NEW n \in Nat PROVE Total(w, n + 1) = Total(w, n) + w[n + 1]
  <2>1. PICK f : Sums(f, w, n) /\ Total(w, n) = f[n] BY TotalIsSum
  <2>2. PICK g : Sums(g, w, n + 1) /\ Total(w, n + 1) = g[n + 1] BY TotalIsSum
  <2>3. g[n + 1] = g[n] + w[n + 1] BY <2>2 DEF Sums
  <2>4. f[n] = g[n] BY <2>1, <2>2, SumsAgree
  <2> QED BY <2>1, <2>2, <2>3, <2>4
<1> QED BY <1>1, <1>2

\* A total of integers is an integer.
LEMMA TotalType ==
  ASSUME NEW n \in Nat, NEW w, \A i \in 1..n : w[i] \in Nat
  PROVE  Total(w, n) \in Nat
<1> DEFINE S == {i \in Nat : i <= n => Total(w, i) \in Nat}
<1>1. 0 \in S BY TotalStep
<1>2. ASSUME NEW i \in Nat, i \in S PROVE i + 1 \in S
  <2>1. CASE i + 1 <= n
    <3>1. Total(w, i) \in Nat /\ i + 1 \in 1..n BY <1>2, <2>1
    <3>2. Total(w, i + 1) = Total(w, i) + w[i + 1] BY TotalStep
    <3> QED BY <3>1, <3>2
  <2> QED BY <2>1
<1> HIDE DEF S
<1>3. Nat \subseteq S BY <1>1, <1>2, Induct
<1> QED BY <1>3 DEF S

\* The numbers from a + 1 to b of w are, d places further, those of v.
Shifted(v, w, a, b, d) ==
  /\ a \in Nat /\ b \in Nat /\ d \in Nat /\ a <= b
  /\ \A i \in 1..b : w[i] \in Nat
  /\ \A i \in 1..(b + d) : v[i] \in Nat
  /\ \A i \in (a + 1)..b : v[i + d] = w[i]

\* Such numbers add the same to both totals.
LEMMA TotalShift ==
  ASSUME NEW v, NEW w, NEW a, NEW b, NEW d, Shifted(v, w, a, b, d)
  PROVE  Total(v, b + d) - Total(v, a + d) = Total(w, b) - Total(w, a)
<1>0. /\ a \in Nat /\ b \in Nat /\ d \in Nat /\ a <= b
      /\ \A i \in 1..b : w[i] \in Nat
      /\ \A i \in 1..(b + d) : v[i] \in Nat
      /\ \A i \in (a + 1)..b : v[i + d] = w[i]
  BY DEF Shifted
<1> USE <1>0
<1>1. ASSUME NEW i \in 0..b PROVE Total(w, i) \in Nat /\ Total(v, i + d) \in Nat
  <2>1. \A j \in 1..i : w[j] \in Nat OBVIOUS
  <2>2. \A j \in 1..(i + d) : v[j] \in Nat OBVIOUS
  <2> QED BY <2>1, <2>2, TotalType
<1> DEFINE S == {k \in Nat : a + k <= b =>
                   Total(v, (a + k) + d) - Total(v, a + d) = Total(w, a + k) - Total(w, a)}
<1>2. 0 \in S
  <2>1. Total(w, a) \in Nat /\ Total(v, a + d) \in Nat BY <1>1
  <2> QED BY <2>1
<1>3. ASSUME NEW k \in Nat, k \in S PROVE k + 1 \in S
  <2>1. CASE a + (k + 1) <= b
    <3>1. /\ a + k \in 0..b /\ (a + k) + 1 \in (a + 1)..b /\ (a + k) + d \in Nat /\ a \in 0..b
          /\ a + k \in Nat
      BY <2>1
    <3>2. Total(w, (a + k) + 1) = Total(w, a + k) + w[(a + k) + 1] BY <3>1, TotalStep
    <3>3. Total(v, ((a + k) + d) + 1) = Total(v, (a + k) + d) + v[((a + k) + d) + 1] BY <3>1, TotalStep
    <3>4. v[((a + k) + 1) + d] = w[(a + k) + 1] /\ w[(a + k) + 1] \in Nat BY <3>1
    <3>5. ((a + k) + 1) + d = ((a + k) + d) + 1 /\ a + (k + 1) = (a + k) + 1 OBVIOUS
    <3>6. /\ Total(w, a + k) \in Nat /\ Total(v, (a + k) + d) \in Nat
          /\ Total(w, a) \in Nat /\ Total(v, a + d) \in Nat
      BY <1>1, <3>1
    <3>7. Total(v, (a + k) + d) - Total(v, a + d) = Total(w, a + k) - Total(w, a) BY <1>3, <2>1
    <3>8. Total(v, (a + (k + 1)) + d) - Total(v, a + d) = Total(w, a + (k + 1)) - Total(w, a)
      BY <3>2, <3>3, <3>4, <3>5, <3>6, <3>7
    <3> QED BY <3>8
  <2> QED BY <2>1
<1> HIDE DEF S
<1>4. Nat \subseteq S BY <1>2, <1>3, Induct
<1>5. b - a \in Nat /\ a + (b - a) = b OBVIOUS
<1>6. b - a \in S BY <1>4, <1>5
<1> QED BY <1>5, <1>6 DEF S
=============================================================================
