----------------------------- MODULE FilesProofs ----------------------------
(***************************************************************************)
(* For any keys, files, descriptors and lengths, on a disk that may fail   *)
(* at any call: keys are read in the order they were typed and none is     *)
(* skipped, the output is printed in order and once, and a descriptor      *)
(* names its file for ever.                                                *)
(***************************************************************************)
EXTENDS Files, ListLemmas, FiniteSetTheorems

USE SMTT(20), ZenonT(20)  \* the provers of a leaf that names none

AnyChar == Char \cup {Unknown}

FilRecord ==
  [data : Seq(AnyChar), fptr : Nat, flag : SUBSET {"read", "write"},
   err : BOOLEAN, valid : BOOLEAN]

\* A FIL whose position is within the file.
IsFile(f) == f \in FilRecord /\ f.fptr <= Len(f.data)

-----------------------------------------------------------------------------
(* What the FatFs calls do to a file.                                      *)

\* What every call keeps: a file that cannot be used stays as it is.
Kept(f, g) ==
  /\ IsFile(g) /\ g.flag = f.flag /\ g.valid = f.valid
  /\ f.err => g.err
  /\ ~ Usable(f) => g = f

\* A transfer that fails got less far than it should.
LEMMA ShortIs ==
  ASSUME NEW n \in Nat, NEW j \in Short(n)
  PROVE  j \in Nat /\ j < n
<1>1. j \in 0 .. n - 1 BY DEF Short
<1> QED BY <1>1

Moved(f, j) == [f EXCEPT !.fptr = j]
Failed(f, j) == [f EXCEPT !.fptr = j, !.err = TRUE]

\* A file whose position has moved.
LEMMA MovedIs ==
  ASSUME NEW f, IsFile(f), NEW j \in Nat, j <= Len(f.data), Usable(f)
  PROVE  /\ Kept(f, Moved(f, j)) /\ Moved(f, j).data = f.data
         /\ Moved(f, j).fptr = j /\ Moved(f, j).err = f.err
<1> DEFINE g == Moved(f, j)
<1>1. g \in FilRecord /\ g.data = f.data /\ g.flag = f.flag /\ g.valid = f.valid /\ g.fptr = j
  BY DEF IsFile, FilRecord, Moved
<1>2. g.err = f.err BY DEF IsFile, FilRecord, Moved
<1> HIDE DEF g
<1>3. Kept(f, g) BY <1>1, <1>2 DEF Kept, IsFile
<1> QED BY <1>1, <1>2, <1>3 DEF g

\* A file whose position has moved, and which has failed.
LEMMA FailedIs ==
  ASSUME NEW f, IsFile(f), NEW j \in Nat, j <= Len(f.data), Usable(f)
  PROVE  Kept(f, Failed(f, j)) /\ Failed(f, j).data = f.data /\ Failed(f, j).err
<1> DEFINE g == Failed(f, j)
<1>1. g \in FilRecord /\ g.data = f.data /\ g.flag = f.flag /\ g.valid = f.valid /\ g.fptr = j
  BY Zenon DEF IsFile, FilRecord, Failed
<1>2. g.err = TRUE BY DEF IsFile, FilRecord, Failed
<1> HIDE DEF g
<1>3. Kept(f, g) BY <1>1, <1>2 DEF Kept, IsFile
<1>4. g.err BY <1>2
<1> QED BY <1>1, <1>3, <1>4 DEF g

\* f_read moves the position by what it read, unless it fails.
LEMMA ReadIs ==
  ASSUME NEW f, IsFile(f), NEW n \in Nat, NEW r \in f_read(f, n)
  PROVE  /\ Kept(f, r.fil) /\ r.fil.data = f.data
         /\ r.n \in Nat /\ f.fptr + r.n <= Len(f.data) /\ r.n <= n
         /\ ~ Usable(f) => r.n = 0
         /\ r.fil.err \/ r.fil.fptr = f.fptr + r.n
<1> DEFINE k == Smaller(n, Len(f.data) - f.fptr)
<1>0. f.fptr \in Nat /\ Len(f.data) \in Nat /\ f.fptr <= Len(f.data) BY DEF IsFile, FilRecord
<1>1. k \in Nat /\ f.fptr + k <= Len(f.data) /\ k <= n BY <1>0 DEF Smaller
<1>2. \/ r = [fil |-> f, n |-> 0]
      \/ Usable(f) /\ r = [fil |-> Moved(f, f.fptr + k), n |-> k]
      \/ Usable(f) /\ \E j \in Short(k) : r = [fil |-> Failed(f, f.fptr + j), n |-> j]
  BY Zenon DEF f_read, Moved, Failed
<1> HIDE DEF k
<1>3. CASE r = [fil |-> f, n |-> 0]
  <2>1. r.fil = f /\ r.n = 0 BY <1>3
  <2>2. Kept(f, f) BY DEF Kept
  <2> QED BY <1>0, <2>1, <2>2
<1>4. CASE Usable(f) /\ r = [fil |-> Moved(f, f.fptr + k), n |-> k]
  <2>1. r.fil = Moved(f, f.fptr + k) /\ r.n = k BY <1>4
  <2>2. f.fptr + k \in Nat BY <1>0, <1>1
  <2> QED BY <1>1, <1>4, <2>1, <2>2, MovedIs
<1>5. CASE Usable(f) /\ \E j \in Short(k) : r = [fil |-> Failed(f, f.fptr + j), n |-> j]
  <2>1. PICK j \in Short(k) : r = [fil |-> Failed(f, f.fptr + j), n |-> j] BY <1>5
  <2>2. j \in Nat /\ j < k BY <1>1, ShortIs
  <2>3. f.fptr + j \in Nat /\ f.fptr + j <= Len(f.data) /\ j <= n BY <1>0, <1>1, <2>2
  <2>4. r.fil = Failed(f, f.fptr + j) /\ r.n = j BY <2>1
  <2> QED BY <1>5, <2>2, <2>3, <2>4, FailedIs
<1> QED BY <1>2, <1>3, <1>4, <1>5

\* f_lseek to a place within the file changes the position, and that only.
LEMMA SeekIs ==
  ASSUME NEW f, IsFile(f), NEW ofs \in Nat, ofs <= Len(f.data), NEW g \in f_lseek(f, ofs)
  PROVE  /\ Kept(f, g) /\ g.data = f.data
         /\ ~ Usable(f) \/ g.err \/ g.fptr = ofs
<1> DEFINE k == Smaller(ofs, Len(f.data))
<1>0. Len(f.data) \in Nat /\ ~ (ofs > Len(f.data)) BY DEF IsFile, FilRecord
<1>1. k \in Nat /\ k <= Len(f.data) BY <1>0 DEF Smaller
<1>2. \/ g = f /\ ~ Usable(f)
      \/ Usable(f) /\ g = Moved(f, ofs)
      \/ Usable(f) /\ \E j \in Short(k) : g = Failed(f, j)
  BY <1>0, Zenon DEF f_lseek, Moved, Failed
<1> HIDE DEF k
<1>3. CASE g = f /\ ~ Usable(f) BY <1>3 DEF Kept
<1>4. CASE Usable(f) /\ g = Moved(f, ofs) BY <1>4, MovedIs
<1>5. CASE Usable(f) /\ \E j \in Short(k) : g = Failed(f, j)
  <2>1. PICK j \in Short(k) : g = Failed(f, j) BY <1>5
  <2>2. j \in Nat /\ j < k BY <1>1, ShortIs
  <2>3. j <= Len(f.data) BY <1>0, <1>1, <2>2
  <2> QED BY <1>5, <2>1, <2>2, <2>3, FailedIs
<1> QED BY <1>2, <1>3, <1>4, <1>5

\* Storing nothing changes nothing, storing at the end appends.
LEMMA OverlayIs ==
  ASSUME NEW d \in Seq(AnyChar), NEW p \in Nat, p <= Len(d), NEW c \in AnyChar
  PROVE  /\ Overlay(d, p, <<>>) = d
         /\ Overlay(d, p, <<c>>) \in Seq(AnyChar)
         /\ p + 1 <= Len(Overlay(d, p, <<c>>))
         /\ p = Len(d) => Overlay(d, p, <<c>>) = Append(d, c)
<1>1. /\ SubSeq(d, 1, p) \in Seq(AnyChar) /\ Len(SubSeq(d, 1, p)) = p
      /\ \A i \in 1 .. p : SubSeq(d, 1, p)[i] = d[i]
  OBVIOUS
<1>2. ASSUME NEW s \in Seq(AnyChar)
      PROVE  /\ Overlay(d, p, s) \in Seq(AnyChar)
             /\ Len(Overlay(d, p, s)) = p + Len(s) + Len(SubSeq(d, p + Len(s) + 1, Len(d)))
             /\ \A i \in 1 .. p : Overlay(d, p, s)[i] = d[i]
             /\ \A i \in 1 .. Len(s) : Overlay(d, p, s)[p + i] = s[i]
             /\ \A i \in p + Len(s) + 1 .. Len(d) : Overlay(d, p, s)[i] = d[i]
  <2> DEFINE a == SubSeq(d, 1, p)
             t == SubSeq(d, p + Len(s) + 1, Len(d))
             b == a \o s
  <2>1. Overlay(d, p, s) = b \o t BY Zenon DEF Overlay
  <2>2. Len(s) \in Nat /\ Len(d) \in Nat OBVIOUS
  <2>3. /\ t \in Seq(AnyChar) /\ Len(t) \in Nat
        /\ p + Len(s) <= Len(d) => Len(t) = Len(d) - p - Len(s)
        /\ \A i \in 1 .. Len(t) : t[i] = d[p + Len(s) + i]
    <3>1. p + Len(s) + 1 \in Nat BY <2>2
    <3>2. t \in Seq(AnyChar) BY <2>2, <3>1
    <3>3. Len(t) \in Nat /\ (p + Len(s) <= Len(d) => Len(t) = Len(d) - p - Len(s)) BY <2>2, <3>1
    <3>4. \A i \in 1 .. Len(t) : t[i] = d[p + Len(s) + i] BY <2>2, <3>1
    <3> QED BY <3>2, <3>3, <3>4
  <2> HIDE DEF a, t
  <2>4. /\ b \in Seq(AnyChar) /\ Len(b) = p + Len(s)
        /\ \A i \in 1 .. p : b[i] = d[i]
        /\ \A i \in 1 .. Len(s) : b[p + i] = s[i]
    BY <1>1, <2>2 DEF a
  <2> HIDE DEF b
  <2>5. /\ b \o t \in Seq(AnyChar) /\ Len(b \o t) = p + Len(s) + Len(t)
        /\ \A i \in 1 .. p + Len(s) : (b \o t)[i] = b[i]
        /\ \A i \in 1 .. Len(t) : (b \o t)[p + Len(s) + i] = t[i]
    <3>1. /\ b \o t \in Seq(AnyChar) /\ Len(b \o t) = Len(b) + Len(t)
          /\ \A i \in 1 .. Len(b) : (b \o t)[i] = b[i]
          /\ \A i \in (Len(b) + 1) .. (Len(b) + Len(t)) : (b \o t)[i] = t[i - Len(b)]
      <4>1. b \in Seq(AnyChar) /\ t \in Seq(AnyChar) BY <2>3, <2>4
      <4> QED BY <4>1, ConcatElements, Zenon
    <3> DEFINE u == b \o t
    <3> HIDE DEF u
    <3>2. /\ u \in Seq(AnyChar) /\ Len(u) = p + Len(s) + Len(t)
          /\ \A i \in 1 .. p + Len(s) : u[i] = b[i]
      BY <2>4, <3>1 DEF u
    <3>3. ASSUME NEW i \in 1 .. Len(t) PROVE u[p + Len(s) + i] = t[i]
      <4>1. Len(b) + i \in (Len(b) + 1) .. (Len(b) + Len(t)) BY <2>2, <2>3, <2>4
      <4>2. u[Len(b) + i] = t[(Len(b) + i) - Len(b)] BY <3>1, <4>1 DEF u
      <4> QED BY <2>2, <2>3, <2>4, <4>2
    <3> QED BY <3>2, <3>3, ZenonT(30) DEF u
  <2> DEFINE o == Overlay(d, p, s)
  <2>6. o = b \o t BY <2>1
  <2> HIDE DEF o
  <2>7. o \in Seq(AnyChar) /\ Len(o) = p + Len(s) + Len(t) BY <2>5, <2>6
  <2>8. \A i \in 1 .. p : o[i] = d[i] BY <2>2, <2>4, <2>5, <2>6
  <2>9. \A i \in 1 .. Len(s) : o[p + i] = s[i] BY <2>2, <2>4, <2>5, <2>6
  <2>10. ASSUME NEW i \in p + Len(s) + 1 .. Len(d) PROVE o[i] = d[i]
    <3>1. i - p - Len(s) \in 1 .. Len(t) BY <2>2, <2>3
    <3> DEFINE k == i - p - Len(s)
    <3>2. i = p + Len(s) + k BY <2>2
    <3> HIDE DEF k
    <3> QED BY <2>3, <2>5, <2>6, <3>1, <3>2, Zenon DEF k
  <2> QED BY <2>7, <2>8, <2>9, <2>10, Zenon DEF o, t
<1>3. Overlay(d, p, <<>>) = d
  <2> DEFINE o == Overlay(d, p, <<>>)
  <2>1. Len(<<>>) = 0 /\ <<>> \in Seq(AnyChar) OBVIOUS
  <2>2. /\ o \in Seq(AnyChar) /\ Len(o) = p + 0 + Len(SubSeq(d, p + 0 + 1, Len(d)))
        /\ \A i \in 1 .. p : o[i] = d[i]
        /\ \A i \in p + 0 + 1 .. Len(d) : o[i] = d[i]
    BY <1>2, <2>1, Zenon
  <2> HIDE DEF o
  <2>3. Len(o) = Len(d) BY <2>2
  <2>4. \A i \in 1 .. Len(d) : o[i] = d[i] BY <2>2
  <2> QED BY <2>2, <2>3, <2>4 DEF o
<1> DEFINE o == Overlay(d, p, <<c>>)
<1>4. <<c>> \in Seq(AnyChar) /\ Len(<<c>>) = 1 /\ <<c>>[1] = c OBVIOUS
<1>5. /\ o \in Seq(AnyChar) /\ Len(o) = p + 1 + Len(SubSeq(d, p + 1 + 1, Len(d)))
      /\ \A i \in 1 .. p : o[i] = d[i]
      /\ o[p + 1] = c
  <2>1. /\ o \in Seq(AnyChar) /\ Len(o) = p + Len(<<c>>) + Len(SubSeq(d, p + Len(<<c>>) + 1, Len(d)))
        /\ \A i \in 1 .. p : o[i] = d[i]
        /\ \A i \in 1 .. Len(<<c>>) : o[p + i] = <<c>>[i]
    BY <1>2, <1>4, Zenon
  <2> HIDE DEF o
  <2>2. o[p + 1] = c
    <3>1. 1 \in 1 .. Len(<<c>>) BY <1>4
    <3> QED BY <2>1, <3>1, <1>4, Zenon
  <2> QED BY <1>4, <2>1, <2>2, Zenon
<1> HIDE DEF o
<1>6. p + 1 <= Len(o)
  <2>1. Len(SubSeq(d, p + 1 + 1, Len(d))) \in Nat OBVIOUS
  <2>2. Len(o) = p + 1 + Len(SubSeq(d, p + 1 + 1, Len(d))) BY <1>5
  <2>3. ASSUME NEW l \in Nat, Len(o) = p + 1 + l PROVE p + 1 <= Len(o) BY <2>3
  <2> QED BY <2>1, <2>2, <2>3, Zenon
<1>7. ASSUME p = Len(d) PROVE o = Append(d, c)
  <2>1. Len(o) = Len(d) + 1 BY <1>5, <1>7
  <2> DEFINE w == Append(d, c)
  <2>2. \A i \in 1 .. Len(d) + 1 : o[i] = w[i] BY <1>5, <1>7
  <2>3. w \in Seq(AnyChar) /\ Len(w) = Len(d) + 1 OBVIOUS
  <2> HIDE DEF w
  <2>4. o \in Seq(AnyChar) BY <1>5
  <2>5. o = w BY <2>1, <2>2, <2>3, <2>4
  <2> QED BY <2>5 DEF w
<1> QED BY <1>3, <1>5, <1>6, <1>7, Zenon DEF o

\* A file something has been stored in.
LEMMA StoredIs ==
  ASSUME NEW f, IsFile(f), Usable(f), NEW c \in AnyChar, NEW s \in {<<>>, <<c>>}
  PROVE  /\ Kept(f, Stored(f, s)) /\ Stored(f, s).fptr = f.fptr + Len(s)
         /\ s = <<>> => Stored(f, s).data = f.data
         /\ s = <<c>> /\ f.fptr = Len(f.data) => Stored(f, s).data = Append(f.data, c)
<1> DEFINE d == Overlay(f.data, f.fptr, s)
<1>1. f \in FilRecord /\ f.data \in Seq(AnyChar) /\ f.fptr \in Nat /\ f.fptr <= Len(f.data)
  BY DEF IsFile, FilRecord
<1>2. /\ d \in Seq(AnyChar) /\ Len(s) \in Nat /\ f.fptr + Len(s) <= Len(d)
      /\ s = <<>> => d = f.data
      /\ s = <<c>> /\ f.fptr = Len(f.data) => d = Append(f.data, c)
  <2>1. CASE s = <<>>
    <3>1. Len(s) = 0 /\ s # <<c>> BY <2>1
    <3>2. d = f.data BY <1>1, <2>1, OverlayIs, Zenon
    <3> HIDE DEF d
    <3> QED BY <1>1, <3>1, <3>2
  <2>2. CASE s = <<c>>
    <3>1. Len(s) = 1 /\ s # <<>> BY <2>2
    <3> QED BY <1>1, <2>2, <3>1, OverlayIs, Zenon
  <2> QED BY <2>1, <2>2
<1>3. Stored(f, s) = [f EXCEPT !.data = d, !.fptr = f.fptr + Len(s)] BY DEF Stored
<1> HIDE DEF d
<1> DEFINE h == Stored(f, s)
<1>4. /\ h \in FilRecord /\ h.data = d /\ h.fptr = f.fptr + Len(s)
      /\ h.flag = f.flag /\ h.valid = f.valid
  <2> DEFINE q == f.fptr + Len(s)  a == [f EXCEPT !.data = d]
  <2>1. q \in Nat BY <1>1, <1>2
  <2> HIDE DEF q
  <2>2. a \in FilRecord /\ a.data = d /\ a.flag = f.flag /\ a.valid = f.valid
    BY <1>1, <1>2 DEF FilRecord
  <2>3. h = [a EXCEPT !.fptr = q] BY <1>3 DEF q
  <2> HIDE DEF a, h
  <2>4. /\ h \in FilRecord /\ h.data = d /\ h.fptr = q
        /\ h.flag = f.flag /\ h.valid = f.valid
    BY <2>1, <2>2, <2>3 DEF FilRecord
  <2> QED BY <2>4 DEF q
<1> HIDE DEF h
<1>5. Kept(f, h) BY <1>2, <1>4 DEF Kept, IsFile, Usable
<1> QED BY <1>2, <1>4, <1>5 DEF h

\* The error is noted in a file.
Marked(h, e) == [h EXCEPT !.err = e]

\* Marking an entry keeps what the invariant says of a file.
LEMMA MarkedIs ==
  ASSUME NEW f, Usable(f), NEW h, Kept(f, h), NEW e \in BOOLEAN
  PROVE  Kept(f, Marked(h, e)) /\ Marked(h, e).data = h.data /\ Marked(h, e).fptr = h.fptr
<1> DEFINE g == Marked(h, e)
<1>1. h \in FilRecord BY DEF Kept, IsFile
<1>2. /\ g \in FilRecord /\ g.data = h.data /\ g.fptr = h.fptr
      /\ g.flag = h.flag /\ g.valid = h.valid
  BY <1>1 DEF FilRecord, Marked
<1> HIDE DEF g
<1>3. Kept(f, g) BY <1>2 DEF Kept, IsFile, Usable
<1> QED BY <1>2, <1>3 DEF g

\* f_write stores the character at the position or leaves the file as it is.
LEMMA WriteIs ==
  ASSUME NEW f, IsFile(f), NEW c \in AnyChar, NEW w \in f_write(f, <<c>>)
  PROVE  /\ Kept(f, w.fil)
         /\ ~ Usable(f) => w.n = 0
         /\ w.fil.err \/ ~ Usable(f) \/ w.fil.fptr = f.fptr + w.n
         /\ \/ w.n = 0 /\ w.fil.data = f.data
            \/ w.n = 1 /\ (f.fptr = Len(f.data) => w.fil.data = Append(f.data, c))
<1>1. Len(<<c>>) = 1 /\ f.fptr \in Nat BY DEF IsFile, FilRecord
<1>2. \/ w = [fil |-> f, n |-> 0, ok |-> FALSE]
      \/ Usable(f) /\ w = [fil |-> Stored(f, <<c>>), n |-> Len(<<c>>), ok |-> TRUE]
      \/ Usable(f) /\ \E j \in Short(Len(<<c>>)), e \in BOOLEAN :
            w = [fil |-> Marked(Stored(f, SubSeq(<<c>>, 1, j)), e), n |-> j, ok |-> ~ e]
  BY DEF f_write, Marked
<1>3. CASE w = [fil |-> f, n |-> 0, ok |-> FALSE]
  <2>1. w.fil = f /\ w.n = 0 BY <1>3
  <2>2. Kept(f, f) BY DEF Kept
  <2>3. f.fptr + 0 = f.fptr BY <1>1
  <2> QED BY <1>1, <2>1, <2>2, <2>3
<1>4. CASE Usable(f) /\ w = [fil |-> Stored(f, <<c>>), n |-> Len(<<c>>), ok |-> TRUE]
  <2> DEFINE g == Stored(f, <<c>>)
  <2>1. w.fil = g /\ w.n = 1 BY <1>1, <1>4
  <2>2. /\ Kept(f, g) /\ g.fptr = f.fptr + Len(<<c>>)
        /\ f.fptr = Len(f.data) => g.data = Append(f.data, c)
    BY <1>4, StoredIs, Zenon
  <2> HIDE DEF g
  <2> QED BY <1>1, <1>4, <2>1, <2>2
<1>5. CASE Usable(f) /\ \E j \in Short(Len(<<c>>)), e \in BOOLEAN :
             w = [fil |-> Marked(Stored(f, SubSeq(<<c>>, 1, j)), e), n |-> j, ok |-> ~ e]
  <2>1. PICK j \in Short(1), e \in BOOLEAN :
          w = [fil |-> Marked(Stored(f, SubSeq(<<c>>, 1, j)), e), n |-> j, ok |-> ~ e]
    BY <1>1, <1>5, Zenon
  <2>2. j = 0 BY DEF Short
  <2>3. SubSeq(<<c>>, 1, j) = <<>> BY <2>2
  <2> DEFINE h == Stored(f, <<>>)  g == Marked(h, e)
  <2>4. w.fil = g /\ w.n = 0 BY <2>1, <2>2, <2>3, Zenon
  <2>5. Kept(f, h) /\ h.fptr = f.fptr + Len(<<>>) /\ h.data = f.data
    BY <1>5, StoredIs, Zenon
  <2> HIDE DEF h
  <2>6. Kept(f, g) /\ g.fptr = h.fptr /\ g.data = h.data BY <1>5, <2>5, MarkedIs
  <2> HIDE DEF g
  <2> QED BY <1>1, <1>5, <2>4, <2>5, <2>6
<1> QED BY <1>2, <1>3, <1>4, <1>5

\* The keyboard handler on its file: the character is appended or lost, and
\* the position is where it was unless a call failed.
LEMMA KeyIs ==
  ASSUME NEW f, IsFile(f), NEW c \in AnyChar, NEW a \in f_lseek(f, Len(f.data)),
         NEW w \in f_write(a, <<c>>), NEW b \in f_lseek(w.fil, f.fptr)
  PROVE  /\ IsFile(b) /\ (f.err => b.err) /\ (b.err \/ b.fptr = f.fptr)
         /\ \/ w.n = 0 /\ b.data = f.data
            \/ w.n = 1 /\ b.data = Append(f.data, c)
<1>1. f.fptr \in Nat /\ Len(f.data) \in Nat /\ f.fptr <= Len(f.data) /\ f.data \in Seq(AnyChar)
  BY DEF IsFile, FilRecord
<1>2. Kept(f, a) /\ a.data = f.data /\ (~ Usable(f) \/ a.err \/ a.fptr = Len(f.data))
  BY <1>1, SeekIs
<1>3. IsFile(a) BY <1>2 DEF Kept
<1>4. /\ Kept(a, w.fil) /\ (~ Usable(a) => w.n = 0)
      /\ w.fil.err \/ ~ Usable(a) \/ w.fil.fptr = a.fptr + w.n
      /\ \/ w.n = 0 /\ w.fil.data = a.data
         \/ w.n = 1 /\ (a.fptr = Len(a.data) => w.fil.data = Append(a.data, c))
  BY <1>3, WriteIs
<1>5. w.n = 1 => Usable(a) /\ Usable(f) /\ a.fptr = Len(a.data)
  BY <1>2, <1>4 DEF Kept, Usable
<1>6. IsFile(w.fil) /\ f.fptr <= Len(w.fil.data)
  <2>1. CASE w.n = 0 BY <1>1, <1>2, <1>4, <2>1 DEF Kept
  <2>2. CASE w.n = 1
    <3>1. w.fil.data = Append(f.data, c) BY <1>2, <1>4, <1>5, <2>2
    <3>2. Len(Append(f.data, c)) = Len(f.data) + 1 BY <1>1
    <3> QED BY <1>1, <1>4, <3>1, <3>2 DEF Kept
  <2> QED BY <1>4, <2>1, <2>2
<1>7. /\ Kept(w.fil, b) /\ b.data = w.fil.data
      /\ ~ Usable(w.fil) \/ b.err \/ b.fptr = f.fptr
  BY <1>1, <1>6, SeekIs
<1>8. IsFile(b) /\ (f.err => b.err) BY <1>2, <1>4, <1>7 DEF Kept
<1>9. b.err \/ b.fptr = f.fptr
  <2>1. CASE f.valid
    <3>1. w.fil.valid BY <1>2, <1>4, <2>1 DEF Kept
    <3> QED BY <1>7, <3>1 DEF Kept, Usable
  <2>2. CASE ~ f.valid
    <3>1. a = f BY <1>2, <2>2 DEF Kept, Usable
    <3>2. w.fil = f BY <1>4, <2>2, <3>1 DEF Kept, Usable
    <3>3. b = f BY <1>7, <2>2, <3>2 DEF Kept, Usable
    <3> QED BY <3>3
  <2> QED BY <2>1, <2>2
<1> QED BY <1>2, <1>4, <1>5, <1>7, <1>8, <1>9

\* printSTDOUT on its file: what was read lies behind what was printed before,
\* and the position is where it was unless a call failed.
LEMMA PrintIs ==
  ASSUME NEW f, IsFile(f), NEW ofs \in Nat, ofs <= Len(f.data), NEW a \in f_lseek(f, ofs),
         NEW r \in f_read(a, Len(f.data) - ofs), NEW b \in f_lseek(r.fil, f.fptr)
  PROVE  /\ IsFile(b) /\ b.data = f.data /\ (f.err => b.err) /\ (b.err \/ b.fptr = f.fptr)
         /\ r.n \in Nat /\ r.n <= Len(f.data) - ofs
         /\ a.data = f.data /\ a.fptr \in Nat /\ (r.n # 0 => a.fptr = ofs)
<1>1. f.fptr \in Nat /\ Len(f.data) \in Nat /\ f.fptr <= Len(f.data) BY DEF IsFile, FilRecord
<1>2. Kept(f, a) /\ a.data = f.data /\ (~ Usable(f) \/ a.err \/ a.fptr = ofs)
  BY <1>1, SeekIs
<1>3. IsFile(a) /\ a.fptr \in Nat BY <1>2 DEF Kept, IsFile, FilRecord
<1>4. Len(f.data) - ofs \in Nat BY <1>1
<1>5. /\ Kept(a, r.fil) /\ r.fil.data = a.data
      /\ r.n \in Nat /\ r.n <= Len(f.data) - ofs
      /\ ~ Usable(a) => r.n = 0
  BY <1>3, <1>4, ReadIs
<1>6. r.n # 0 => a.fptr = ofs BY <1>2, <1>5 DEF Kept, Usable
<1>7. IsFile(r.fil) /\ f.fptr <= Len(r.fil.data) BY <1>1, <1>2, <1>5 DEF Kept
<1>8. /\ Kept(r.fil, b) /\ b.data = r.fil.data
      /\ ~ Usable(r.fil) \/ b.err \/ b.fptr = f.fptr
  BY <1>1, <1>7, SeekIs
<1>9. b.err \/ b.fptr = f.fptr
  <2>1. CASE f.valid
    <3>1. r.fil.valid BY <1>2, <1>5, <2>1 DEF Kept
    <3> QED BY <1>8, <3>1 DEF Kept, Usable
  <2>2. CASE ~ f.valid
    <3>1. a = f BY <1>2, <2>2 DEF Kept, Usable
    <3>2. r.fil = f BY <1>5, <2>2, <3>1 DEF Kept, Usable
    <3>3. b = f BY <1>8, <2>2, <3>2 DEF Kept, Usable
    <3> QED BY <3>3
  <2> QED BY <2>1, <2>2
<1> QED BY <1>2, <1>3, <1>5, <1>6, <1>8, <1>9 DEF Kept

\* f_close, too, leaves the contents and the position alone.
LEMMA CloseIs ==
  ASSUME NEW f, IsFile(f), NEW g \in f_close(f)
  PROVE  IsFile(g) /\ g.data = f.data /\ g.fptr = f.fptr /\ g.err = f.err
<1>1. g = f \/ g = [f EXCEPT !.valid = FALSE] BY Zenon DEF f_close
<1>2. CASE g = [f EXCEPT !.valid = FALSE]
  <2>1. g \in FilRecord /\ g.data = f.data /\ g.fptr = f.fptr
    BY <1>2, Zenon DEF IsFile, FilRecord
  <2>2. g.err = f.err BY <1>2 DEF IsFile, FilRecord
  <2> QED BY <2>1, <2>2 DEF IsFile
<1> QED BY <1>1, <1>2

-----------------------------------------------------------------------------
(* The inductive invariant.                                                *)

\* The table has room for what is in it, and no other descriptor names one of
\* the first two files.
Table ==
  /\ cnt \in Nat /\ cnt >= 3
  /\ \E size \in Nat : cnt <= size /\ buffer = [i \in 0 .. size - 1 |-> buffer[i]]
  /\ buffer[0] = 1 /\ buffer[1] = 2
  /\ \A i \in 2 .. cnt - 1 : buffer[i] \in 3 .. Len(fil)

AllFiles == fil \in Seq(FilRecord) /\ Len(fil) >= 3 /\ \A i \in 1 .. Len(fil) : IsFile(fil[i])

\* Characters are appended where the file ends and, as long as no call fails,
\* read where the last read ended.
Input ==
  /\ leftShift \in BOOLEAN
  /\ typed \in Seq(AnyChar) /\ fil[1].data = typed /\ stdinWritePtr = Len(typed)
  /\ consumed \in Seq(AnyChar) /\ Len(consumed) <= Len(typed)
  /\ \A i \in 1 .. Len(consumed) : consumed[i] = typed[i]
  /\ fil[1].err \/ fil[1].fptr = Len(consumed)

\* The same for the output, of which as much is printed as the pointer says.
Output ==
  /\ written \in Seq(Out) /\ fil[2].data = written
  /\ fil[2].err \/ fil[2].fptr = Len(written)
  /\ stdoutReadPtr \in Nat /\ stdoutReadPtr <= Len(written)
  /\ printed \in Seq(AnyChar)
  /\ Cardinality(KnownUpTo(Len(printed))) = stdoutReadPtr
  /\ PrintedInOrder

IInv == Table /\ AllFiles /\ Input /\ Output

\* The number of elements of an array.
LEMMA TotalSize ==
  ASSUME NEW size \in Nat, buffer = [i \in 0 .. size - 1 |-> buffer[i]]
  PROVE  totalSize = size
<1>1. DOMAIN buffer = 0 .. size - 1 OBVIOUS
<1>2. Cardinality(0 .. size - 1) = size BY FS_Interval
<1> QED BY <1>1, <1>2 DEF totalSize

\* At first there are the three standard files, and they are empty.
LEMMA InitEstablished == Init => IInv
<1> SUFFICES ASSUME Init PROVE IInv OBVIOUS
<1> DEFINE f == Fil(<<>>, {"read", "write"})
<1>1. IsFile(f) /\ f.data = <<>> /\ f.fptr = 0 BY DEF Fil, IsFile, FilRecord
<1> HIDE DEF f
<1>2. fil = <<f, f, f>> BY DEF Init, f
<1>3. AllFiles BY <1>1, <1>2 DEF AllFiles, IsFile
<1>4. Table
  <2>1. ListSize \in Nat /\ ListSize >= 3 BY FilesAssumption
  <2>2. /\ cnt = 3 /\ buffer = [i \in 0 .. ListSize - 1 |-> IF i < 3 THEN i + 1 ELSE Unset]
    BY DEF Init
  <2>3. buffer[0] = 1 /\ buffer[1] = 2 /\ buffer[2] = 3 BY <2>1, <2>2
  <2>4. \A i \in 2 .. cnt - 1 : i = 2 BY <2>2
  <2>5. Len(fil) = 3 BY <1>2
  <2>6. buffer = [i \in 0 .. ListSize - 1 |-> buffer[i]] BY <2>2
  <2> QED BY <2>1, <2>2, <2>3, <2>4, <2>5, <2>6 DEF Table
<1>5. /\ typed = <<>> /\ consumed = <<>> /\ written = <<>> /\ printed = <<>>
      /\ stdinWritePtr = 0 /\ stdoutReadPtr = 0
  BY DEF Init
<1>6. Input
  <2>1. leftShift \in BOOLEAN BY Zenon DEF Init
  <2> QED BY <1>1, <1>2, <1>5, <2>1 DEF Input
<1>7. Output
  <2>1. KnownUpTo(Len(printed)) = {} BY <1>5 DEF KnownUpTo
  <2>2. Cardinality(KnownUpTo(Len(printed))) = stdoutReadPtr BY <1>5, <2>1, FS_EmptySet
  <2>3. PrintedInOrder BY <1>5 DEF PrintedInOrder
  <2>4. fil[2].data = <<>> /\ fil[2].fptr = 0 BY <1>1, <1>2
  <2>5. written \in Seq(Out) /\ printed \in Seq(AnyChar) /\ Len(written) = 0 BY <1>5
  <2> QED BY <1>5, <2>2, <2>3, <2>4, <2>5 DEF Output
<1> QED BY <1>3, <1>4, <1>6, <1>7 DEF IInv

-----------------------------------------------------------------------------
(* The steps.                                                              *)

\* One file of the sequence is replaced.
LEMMA FileReplaced ==
  ASSUME AllFiles, NEW i \in 1 .. Len(fil), NEW g, IsFile(g), fil' = [fil EXCEPT ![i] = g]
  PROVE  /\ AllFiles' /\ Len(fil') = Len(fil) /\ fil'[i] = g
         /\ \A j \in 1 .. Len(fil) : j # i => fil'[j] = fil[j]
<1>1. fil \in Seq(FilRecord) /\ g \in FilRecord BY DEF AllFiles, IsFile
<1>2. fil' \in Seq(FilRecord) /\ Len(fil') = Len(fil) BY <1>1
<1>3. fil'[i] = g /\ \A j \in 1 .. Len(fil) : j # i => fil'[j] = fil[j] BY <1>1
<1>4. \A j \in 1 .. Len(fil) : IsFile(fil'[j]) BY <1>3 DEF AllFiles
<1> QED BY <1>2, <1>3, <1>4 DEF AllFiles

\* What the descriptors of a program name.
LEMMA Descriptors ==
  ASSUME Table, AllFiles, NEW fd \in Fd
  PROVE  /\ buffer[fd] \in 1 .. Len(fil) /\ IsFile(fil[buffer[fd]])
         /\ buffer[fd] = 1 <=> fd = 0
         /\ buffer[fd] = 2 <=> fd = 1
         /\ 1 \in 1 .. Len(fil) /\ 2 \in 1 .. Len(fil)
<1>1. Len(fil) \in Nat /\ Len(fil) >= 3 /\ cnt \in Nat BY DEF AllFiles, Table
<1>2. CASE fd = 0 BY <1>1, <1>2 DEF Table, AllFiles
<1>3. CASE fd = 1 BY <1>1, <1>3 DEF Table, AllFiles
<1>4. CASE fd # 0 /\ fd # 1
  <2>1. fd \in 2 .. cnt - 1 BY <1>1, <1>4 DEF Fd
  <2>2. buffer[fd] \in 3 .. Len(fil) BY <2>1 DEF Table
  <2> QED BY <1>1, <1>4, <2>2 DEF AllFiles
<1> QED BY <1>2, <1>3, <1>4

\* The table is not concerned.
LEMMA TableKept ==
  ASSUME Table, AllFiles, UNCHANGED <<buffer, cnt>>, Len(fil') = Len(fil)
  PROVE  Table'
  BY Zenon DEF Table, AllFiles

\* Nor are the two ends of the input or of the output.
LEMMA InputKept ==
  ASSUME Input, UNCHANGED <<leftShift, typed, consumed, stdinWritePtr>>, fil'[1].data = fil[1].data,
         fil[1].err => fil'[1].err, fil'[1].err \/ fil'[1].fptr = fil[1].fptr
  PROVE  Input'
  BY DEF Input

\* The same for what the output holds and what of it is printed.
LEMMA OutputKept ==
  ASSUME Output, UNCHANGED <<written, printed, stdoutReadPtr>>, fil'[2].data = fil[2].data,
         fil[2].err => fil'[2].err, fil'[2].err \/ fil'[2].fptr = fil[2].fptr
  PROVE  Output'
<1>1. \A i : KnownUpTo(i)' = KnownUpTo(i) BY DEF KnownUpTo
<1>2. PrintedInOrder' BY DEF Output, PrintedInOrder, KnownUpTo
<1>3. Cardinality(KnownUpTo(Len(printed)))' = Cardinality(KnownUpTo(Len(printed)))
  BY DEF KnownUpTo
<1> QED BY <1>2, <1>3 DEF Output

\* A stretch of a sequence.
LEMMA Stretch ==
  ASSUME NEW S, NEW s \in Seq(S), NEW p \in Nat, NEW n \in Nat, p + n <= Len(s)
  PROVE  /\ SubSeq(s, p + 1, p + n) \in Seq(S) /\ Len(SubSeq(s, p + 1, p + n)) = n
         /\ \A i \in 1 .. n : SubSeq(s, p + 1, p + n)[i] = s[p + i]
<1>1. SubSeq(s, p + 1, p + n) \in Seq(S) /\ Len(SubSeq(s, p + 1, p + n)) = n OBVIOUS
<1>2. ASSUME NEW i \in 1 .. n PROVE SubSeq(s, p + 1, p + n)[i] = s[p + i]
  <2>1. SubSeq(s, p + 1, p + n)[i] = s[(p + 1) + i - 1] OBVIOUS
  <2> QED BY <2>1
<1> QED BY <1>1, <1>2

\* What a transfer of one character adds to a history.
LEMMA OneTaken ==
  ASSUME NEW S, NEW s \in Seq(S), NEW c \in S
  PROVE  /\ s \o SubSeq(<<c>>, 1, 0) = s
         /\ s \o SubSeq(<<c>>, 1, 1) = Append(s, c)
<1>1. SubSeq(<<c>>, 1, 0) = <<>> OBVIOUS
<1>2. SubSeq(<<c>>, 1, 1) = <<c>>
  <2> DEFINE t == SubSeq(<<c>>, 1, 1)  u == <<c>>
  <2>1. t \in Seq(S) /\ Len(t) = 1 /\ t[1] = c OBVIOUS
  <2>2. u \in Seq(S) /\ Len(u) = 1 /\ u[1] = c OBVIOUS
  <2> HIDE DEF t, u
  <2>3. t = u BY <2>1, <2>2
  <2> QED BY <2>3 DEF t, u
<1>3. s \o <<>> = s OBVIOUS
<1>4. s \o <<c>> = Append(s, c) OBVIOUS
<1> QED BY <1>1, <1>2, <1>3, <1>4, Zenon

\* keyboardHandler.
LEMMA TypeKeyKeeps ==
  ASSUME IInv, NEW k \in Key, TypeKey(k)
  PROVE  IInv'
<1> DEFINE c == [key |-> k, shift |-> leftShift]  f == fil[1]
<1>1. c \in AnyChar BY DEF AnyChar, Char, IInv, Input
<1> HIDE DEF c
<1>2. PICK a, w, b :
        /\ a \in f_lseek(f, stdinWritePtr) /\ w \in f_write(a, <<c>>) /\ b \in f_lseek(w.fil, f.fptr)
        /\ fil' = [fil EXCEPT ![1] = b]
        /\ stdinWritePtr' = stdinWritePtr + w.n
        /\ typed' = typed \o SubSeq(<<c>>, 1, w.n)
  BY Zenon DEF TypeKey, stdin, c
<1>3. UNCHANGED <<buffer, cnt, leftShift, stdoutReadPtr, consumed, written, printed>>
  BY Zenon DEF TypeKey
<1>4. 1 \in 1 .. Len(fil) /\ 2 \in 1 .. Len(fil) /\ IsFile(f) BY DEF IInv, AllFiles
<1>5. f.data = typed /\ stdinWritePtr = Len(f.data) BY DEF IInv, Input
<1> HIDE DEF f
<1>6. /\ IsFile(b) /\ (f.err => b.err) /\ (b.err \/ b.fptr = f.fptr)
      /\ \/ w.n = 0 /\ b.data = f.data
         \/ w.n = 1 /\ b.data = Append(f.data, c)
  BY <1>1, <1>2, <1>4, <1>5, KeyIs, Zenon
<1>7. AllFiles' /\ Len(fil') = Len(fil) /\ fil'[1] = b /\ fil'[2] = fil[2]
  <2>1. fil' = [fil EXCEPT ![1] = b] /\ AllFiles BY <1>2 DEF IInv
  <2>2. IsFile(b) BY <1>6
  <2>3. /\ AllFiles' /\ Len(fil') = Len(fil) /\ fil'[1] = b
        /\ \A j \in 1 .. Len(fil) : j # 1 => fil'[j] = fil[j]
    BY <1>4, <2>1, <2>2, FileReplaced, Zenon
  <2> QED BY <1>4, <2>3
<1>8. Table' BY <1>3, <1>7, TableKept DEF IInv
<1>9. Output' BY <1>3, <1>7, OutputKept DEF IInv
<1>10. Input'
  <2>1. /\ typed \in Seq(AnyChar) /\ consumed \in Seq(AnyChar) /\ Len(consumed) <= Len(typed)
        /\ \A i \in 1 .. Len(consumed) : consumed[i] = typed[i]
        /\ f.err \/ f.fptr = Len(consumed)
    BY DEF IInv, Input, f
  <2>2. CASE w.n = 0
    <3>2. typed' = typed BY <1>1, <1>2, <2>1, <2>2, OneTaken, Zenon
    <3>3. stdinWritePtr' = stdinWritePtr BY <1>2, <1>5, <2>1, <2>2
    <3>4. b.data = f.data BY <1>6, <2>2
    <3> QED BY <1>3, <1>6, <1>7, <3>2, <3>3, <3>4, InputKept DEF IInv, f
  <2>3. CASE w.n = 1
    <3>2. typed' = Append(typed, c) BY <1>1, <1>2, <2>1, <2>3, OneTaken, Zenon
    <3>3. /\ Append(typed, c) \in Seq(AnyChar) /\ Len(Append(typed, c)) = Len(typed) + 1
          /\ \A i \in 1 .. Len(typed) : Append(typed, c)[i] = typed[i]
      BY <1>1, <2>1
    <3>4. stdinWritePtr' = Len(typed) + 1 BY <1>2, <1>5, <2>3
    <3>5. b.data = Append(typed, c) BY <1>5, <1>6, <2>3
    <3>6. \A i \in 1 .. Len(consumed) : consumed[i] = Append(typed, c)[i] BY <2>1, <3>3
    <3>7. Len(consumed) <= Len(Append(typed, c)) BY <2>1, <3>3
    <3>8. leftShift' \in BOOLEAN BY <1>3 DEF IInv, Input
    <3>9. b.err \/ b.fptr = Len(consumed) BY <1>6, <2>1
    <3> HIDE DEF c
    <3> QED BY <1>3, <1>7, <2>1, <3>2, <3>3, <3>4, <3>5, <3>6, <3>7, <3>8, <3>9 DEF Input
  <2> QED BY <1>6, <2>2, <2>3
<1> QED BY <1>7, <1>8, <1>9, <1>10 DEF IInv

\* What read returns is what comes next of what was typed.
LEMMA ReadKeeps ==
  ASSUME IInv, NEW fd \in Fd \ {1, 2}, NEW n \in Sizes, Read(fd, n)
  PROVE  IInv'
<1> DEFINE x == buffer[fd]  f == fil[x]
<1>1. /\ x \in 1 .. Len(fil) /\ x # 2 /\ (fd # 0 => x # 1) /\ (fd = 0 => x = 1)
      /\ 1 \in 1 .. Len(fil) /\ 2 \in 1 .. Len(fil) /\ IsFile(f)
  BY Descriptors DEF IInv
<1>2. PICK r \in f_read(f, n) :
        /\ fil' = [fil EXCEPT ![x] = r.fil]
        /\ consumed' = IF fd # 0 THEN consumed
                       ELSE consumed \o SubSeq(f.data, f.fptr + 1, f.fptr + r.n)
  BY Zenon DEF Read
<1>3. UNCHANGED <<buffer, cnt, leftShift, stdinWritePtr, stdoutReadPtr, typed, written, printed>>
  BY Zenon DEF Read
<1>4. n \in Nat BY FilesAssumption
<1> HIDE DEF f, x
<1>5. /\ Kept(f, r.fil) /\ r.fil.data = f.data
      /\ r.n \in Nat /\ f.fptr + r.n <= Len(f.data)
      /\ ~ Usable(f) => r.n = 0
      /\ r.fil.err \/ r.fil.fptr = f.fptr + r.n
  BY <1>1, <1>4, ReadIs
<1>6. /\ AllFiles' /\ Len(fil') = Len(fil) /\ fil'[x] = r.fil
      /\ \A j \in 1 .. Len(fil) : j # x => fil'[j] = fil[j]
  <2>1. IsFile(r.fil) /\ AllFiles BY <1>5 DEF Kept, IInv
  <2> QED BY <1>1, <1>2, <2>1, FileReplaced, Zenon
<1>7. Table' BY <1>3, <1>6, TableKept DEF IInv
<1>8. fil'[2] = fil[2] BY <1>1, <1>6
<1>9. Output' BY <1>3, <1>8, OutputKept DEF IInv
<1>10. Input'
  <2>1. CASE fd # 0
    <3>1. fil'[1] = fil[1] BY <1>1, <1>6, <2>1
    <3>2. consumed' = consumed BY <1>2, <2>1, ZenonT(30)
    <3> QED BY <1>3, <3>1, <3>2, InputKept DEF IInv
  <2>2. CASE fd = 0
    <3>1. f = fil[1] /\ fil'[1] = r.fil BY <1>1, <1>6, <2>2 DEF f
    <3>2. /\ typed \in Seq(AnyChar) /\ f.data = typed /\ stdinWritePtr = Len(typed)
          /\ consumed \in Seq(AnyChar) /\ Len(consumed) <= Len(typed)
          /\ \A i \in 1 .. Len(consumed) : consumed[i] = typed[i]
          /\ f.err \/ f.fptr = Len(consumed)
      BY <3>1 DEF IInv, Input
    <3>3. f.fptr \in Nat BY <1>1 DEF IsFile, FilRecord
    <3> DEFINE t == SubSeq(typed, f.fptr + 1, f.fptr + r.n)
    <3>4. /\ t \in Seq(AnyChar) /\ Len(t) = r.n
          /\ \A i \in 1 .. r.n : t[i] = typed[f.fptr + i]
      <4>1. f.fptr + r.n <= Len(typed) /\ r.n \in Nat BY <1>5, <3>2
      <4>2. typed \in Seq(AnyChar) BY <3>2
      <4> DEFINE u(p, m) == SubSeq(typed, p + 1, p + m)
      <4>3. ASSUME NEW p \in Nat, NEW m \in Nat, p + m <= Len(typed)
            PROVE  /\ u(p, m) \in Seq(AnyChar) /\ Len(u(p, m)) = m
                   /\ \A i \in 1 .. m : u(p, m)[i] = typed[p + i]
        BY <4>2, <4>3, Stretch, ZenonT(30)
      <4>4. t = u(f.fptr, r.n) OBVIOUS
      <4> HIDE DEF t, u
      <4> QED BY <3>3, <4>1, <4>3, <4>4
    <3>5. consumed' = consumed \o t BY <1>2, <2>2, <3>2
    <3> HIDE DEF t
    <3>6. /\ consumed' \in Seq(AnyChar) /\ Len(consumed') = Len(consumed) + r.n
          /\ \A i \in 1 .. Len(consumed) : consumed'[i] = consumed[i]
          /\ \A i \in (Len(consumed) + 1) .. (Len(consumed) + r.n) : consumed'[i] = t[i - Len(consumed)]
      <4>1. consumed \in Seq(AnyChar) /\ t \in Seq(AnyChar) /\ Len(t) = r.n BY <3>2, <3>4
      <4> DEFINE u == consumed \o t
      <4>2. /\ u \in Seq(AnyChar) /\ Len(u) = Len(consumed) + Len(t)
            /\ \A i \in 1 .. Len(consumed) : u[i] = consumed[i]
            /\ \A i \in (Len(consumed) + 1) .. (Len(consumed) + Len(t)) : u[i] = t[i - Len(consumed)]
        BY <4>1, ConcatElements, ZenonT(30)
      <4> HIDE DEF u
      <4>3. consumed' = u BY <3>5 DEF u
      <4> QED BY <4>1, <4>2, <4>3
    <3>7. r.n = 0 \/ f.fptr = Len(consumed) BY <1>5, <3>2 DEF Usable
    <3>8. Len(consumed') <= Len(typed) BY <1>5, <3>2, <3>6, <3>7
    <3>9. ASSUME NEW i \in 1 .. Len(consumed') PROVE consumed'[i] = typed[i]
      <4>1. CASE i <= Len(consumed) BY <3>2, <3>6, <4>1
      <4>2. CASE i > Len(consumed)
        <5>1. i - Len(consumed) \in 1 .. r.n /\ r.n # 0 BY <1>5, <3>2, <3>6, <4>2
        <5>2. consumed'[i] = t[i - Len(consumed)] BY <3>2, <3>6, <4>2
        <5>3. f.fptr + (i - Len(consumed)) = i
          <6>1. f.fptr = Len(consumed) BY <3>7, <5>1
          <6>2. i \in Int BY <3>6
          <6> QED BY <3>3, <6>1, <6>2
        <5>4. t[i - Len(consumed)] = typed[f.fptr + (i - Len(consumed))] BY <3>4, <5>1
        <5> QED BY <5>2, <5>3, <5>4
      <4> QED BY <3>2, <3>6, <4>1, <4>2
    <3>10. r.fil.err \/ r.fil.fptr = Len(consumed')
      <4>1. CASE f.err BY <1>5, <4>1 DEF Kept
      <4>2. CASE ~ f.err BY <1>5, <3>2, <3>6, <4>2
      <4> QED BY <4>1, <4>2
    <3>11. leftShift' \in BOOLEAN BY <1>3 DEF IInv, Input
    <3>12. typed' = typed /\ stdinWritePtr' = stdinWritePtr BY <1>3
    <3>13. /\ fil'[1].data = typed' /\ stdinWritePtr' = Len(typed') /\ typed' \in Seq(AnyChar)
           /\ fil'[1].err \/ fil'[1].fptr = Len(consumed')
      BY <1>5, <3>1, <3>2, <3>10, <3>12 DEF Kept
    <3>14. Len(consumed') <= Len(typed') /\ \A i \in 1 .. Len(consumed') : consumed'[i] = typed'[i]
      BY <3>8, <3>9, <3>12
    <3>15. consumed' \in Seq(AnyChar) BY <3>6
    <3> QED BY <3>11, <3>13, <3>14, <3>15, ZenonT(30) DEF Input
  <2> QED BY <2>1, <2>2
<1> QED BY <1>6, <1>7, <1>9, <1>10 DEF IInv

\* write appends to the output.
LEMMA WriteKeeps ==
  ASSUME IInv, NEW fd \in Fd \ {0, 2}, NEW c \in Out, Write(fd, c)
  PROVE  IInv'
<1> DEFINE x == buffer[fd]  f == fil[x]
<1>1. /\ x \in 1 .. Len(fil) /\ x # 1 /\ (x = 2 <=> fd = 1)
      /\ 1 \in 1 .. Len(fil) /\ 2 \in 1 .. Len(fil) /\ IsFile(f)
  BY Descriptors DEF IInv
<1>2. PICK w \in f_write(f, <<c>>) :
        /\ fil' = [fil EXCEPT ![x] = w.fil]
        /\ written' = IF fd # 1 THEN written ELSE written \o SubSeq(<<c>>, 1, w.n)
  BY Zenon DEF Write
<1>3. UNCHANGED <<buffer, cnt, leftShift, stdinWritePtr, stdoutReadPtr, typed, consumed, printed>>
  BY Zenon DEF Write
<1>4. c \in AnyChar BY DEF AnyChar, Char
<1> HIDE DEF f, x
<1>5. /\ Kept(f, w.fil)
      /\ ~ Usable(f) => w.n = 0
      /\ w.fil.err \/ ~ Usable(f) \/ w.fil.fptr = f.fptr + w.n
      /\ \/ w.n = 0 /\ w.fil.data = f.data
         \/ w.n = 1 /\ (f.fptr = Len(f.data) => w.fil.data = Append(f.data, c))
  BY <1>1, <1>4, WriteIs
<1>6. /\ AllFiles' /\ Len(fil') = Len(fil) /\ fil'[x] = w.fil
      /\ \A j \in 1 .. Len(fil) : j # x => fil'[j] = fil[j]
  <2>1. IsFile(w.fil) /\ AllFiles BY <1>5 DEF Kept, IInv
  <2> QED BY <1>1, <1>2, <2>1, FileReplaced, Zenon
<1>7. Table' BY <1>3, <1>6, TableKept DEF IInv
<1>8. fil'[1] = fil[1] BY <1>1, <1>6
<1>9. Input' BY <1>3, <1>8, InputKept DEF IInv
<1>10. Output'
  <2>1. CASE fd # 1
    <3>1. fil'[2] = fil[2] /\ written' = written BY <1>1, <1>2, <1>6, <2>1
    <3> QED BY <1>3, <3>1, OutputKept DEF IInv
  <2>2. CASE fd = 1
    <3>1. f = fil[2] /\ fil'[2] = w.fil BY <1>1, <1>6, <2>2 DEF f
    <3>2. /\ written \in Seq(Out) /\ f.data = written
          /\ f.err \/ f.fptr = Len(written)
          /\ stdoutReadPtr \in Nat /\ stdoutReadPtr <= Len(written)
          /\ printed \in Seq(AnyChar)
      BY <3>1 DEF IInv, Output
    <3>3. f.fptr \in Nat BY <1>1 DEF IsFile, FilRecord
    <3>a. written' = written \o SubSeq(<<c>>, 1, w.n) /\ written \in Seq(Out) BY <1>2, <2>2, <3>2, Zenon
    <3>4. CASE w.n = 0
      <4>1. written' = written BY <3>4, <3>a, OneTaken, ZenonT(30)
      <4>2. w.fil.err \/ w.fil.fptr = f.fptr
        <5>1. CASE Usable(f) BY <1>5, <3>3, <3>4, <5>1
        <5>2. CASE ~ Usable(f) BY <1>5, <5>2 DEF Kept
        <5> QED BY <5>1, <5>2
      <4> QED BY <1>3, <1>5, <3>1, <3>4, <4>1, <4>2, OutputKept DEF IInv, Kept
    <3>5. CASE w.n = 1
      <4>1. Usable(f) /\ f.fptr = Len(written) BY <1>5, <3>2, <3>5 DEF Usable
      <4>2. written' = Append(written, c) BY <3>5, <3>a, OneTaken, ZenonT(30)
      <4>3. w.fil.data = Append(written, c) BY <1>5, <3>2, <3>5, <4>1
      <4>4. /\ Append(written, c) \in Seq(Out) /\ Len(Append(written, c)) = Len(written) + 1
            /\ \A i \in 1 .. Len(written) : Append(written, c)[i] = written[i]
        BY <3>2
      <4>5. w.fil.err \/ w.fil.fptr = Len(written) + 1 BY <1>5, <3>5, <4>1
      <4>6. PrintedInOrder'
        <5>1. ASSUME NEW i \in 1 .. Len(printed), printed[i] # Unknown
              PROVE  /\ Cardinality(KnownUpTo(i)) <= Len(written')
                     /\ printed[i] = written'[Cardinality(KnownUpTo(i))]
          <6> DEFINE n == Cardinality(KnownUpTo(i))
          <6>1. n <= Len(written) /\ printed[i] = written[n]
            BY <5>1 DEF IInv, Output, PrintedInOrder
          <6>2. n \in Nat /\ n # 0
            <7>1. IsFiniteSet(1 .. i) BY FS_Interval
            <7>2. KnownUpTo(i) \subseteq 1 .. i /\ i \in KnownUpTo(i) BY <5>1 DEF KnownUpTo
            <7>3. IsFiniteSet(KnownUpTo(i)) BY <7>1, <7>2, FS_Subset
            <7> QED BY <7>2, <7>3, FS_CardinalityType, FS_EmptySet
          <6> HIDE DEF n
          <6> QED BY <3>2, <4>2, <4>4, <6>1, <6>2 DEF n
        <5> QED BY <1>3, <5>1 DEF PrintedInOrder, KnownUpTo
      <4>7. Cardinality(KnownUpTo(Len(printed)))' = stdoutReadPtr'
        BY <1>3 DEF IInv, Output, KnownUpTo
      <4>8. printed' = printed /\ stdoutReadPtr' = stdoutReadPtr BY <1>3
      <4>9. /\ written' \in Seq(Out) /\ fil'[2].data = written'
            /\ fil'[2].err \/ fil'[2].fptr = Len(written')
        BY <3>1, <4>2, <4>3, <4>4, <4>5
      <4>10. /\ stdoutReadPtr' \in Nat /\ stdoutReadPtr' <= Len(written') /\ printed' \in Seq(AnyChar)
        BY <3>2, <4>2, <4>4, <4>8
      <4> QED BY <4>6, <4>7, <4>9, <4>10, ZenonT(30) DEF Output
    <3> QED BY <1>5, <3>4, <3>5
  <2> QED BY <2>1, <2>2
<1> QED BY <1>6, <1>7, <1>9, <1>10 DEF IInv

\* What is printed grows by n characters of the output and some unknown ones.
LEMMA PrintedGrows ==
  ASSUME Output, NEW n \in Nat, stdoutReadPtr + n <= Len(written), NEW z \in Nat,
         written' = written, Len(printed') = Len(printed) + n + z,
         \A i \in 1 .. Len(printed) : printed'[i] = printed[i],
         \A i \in 1 .. n : printed'[Len(printed) + i] = written[stdoutReadPtr + i],
         \A i \in Len(printed) + n + 1 .. Len(printed) + n + z : printed'[i] = Unknown
  PROVE  Cardinality(KnownUpTo(Len(printed)))' = stdoutReadPtr + n /\ PrintedInOrder'
<1> DEFINE L == Len(printed)
           K(i) == {j \in 1 .. i : printed'[j] # Unknown}
           known == KnownUpTo(L)
<1>1. L \in Nat /\ stdoutReadPtr \in Nat /\ Cardinality(known) = stdoutReadPtr BY DEF Output
<1>2. \A i \in 1 .. n : printed'[L + i] # Unknown
  <2>1. ASSUME NEW i \in 1 .. n PROVE written[stdoutReadPtr + i] \in Out
    BY <1>1 DEF Output
  <2> QED BY <2>1, UnknownAssumption, Zenon
<1>3. known \subseteq 1 .. L /\ IsFiniteSet(known)
  <2>1. known \subseteq 1 .. L BY DEF KnownUpTo
  <2>2. IsFiniteSet(1 .. L) BY <1>1, FS_Interval
  <2> QED BY <2>1, <2>2, FS_Subset
<1>4. \A i \in 1 .. L : K(i) = KnownUpTo(i) BY <1>1 DEF KnownUpTo
<1>5. ASSUME NEW k \in 0 .. n, NEW m \in L + k .. L + n + z, k = n \/ m = L + k
      PROVE  Cardinality(K(m)) = stdoutReadPtr + k
  <2> DEFINE new == L + 1 .. L + k
  <2>1. K(m) = known \cup new
    <3>1. ASSUME NEW j \in 1 .. m PROVE printed'[j] # Unknown <=> j \in known \cup new
      <4>1. CASE j <= L BY <1>1, <4>1 DEF KnownUpTo
      <4>2. CASE j > L /\ j <= L + k
        <5>1. j - L \in 1 .. n /\ L + (j - L) = j /\ j \in new BY <1>1, <4>2
        <5> QED BY <1>2, <5>1, Zenon
      <4>3. CASE j > L + k
        <5>1. k = n /\ j \in L + n + 1 .. L + n + z /\ j \notin new /\ j \notin 1 .. L
          BY <1>1, <1>5, <4>3
        <5> QED BY <1>3, <5>1
      <4> QED BY <1>1, <4>1, <4>2, <4>3
    <3>2. known \cup new \subseteq 1 .. m BY <1>1, <1>3, <1>5
    <3> QED BY <3>1, <3>2
  <2>2. IsFiniteSet(new) /\ Cardinality(new) = k
    <3>1. L + 1 \in Int /\ L + k \in Int /\ (L + 1 > L + k <=> k = 0) BY <1>1
    <3>2. IsFiniteSet(new) /\ Cardinality(new) = IF L + 1 > L + k THEN 0 ELSE (L + k) - (L + 1) + 1
      BY <3>1, FS_Interval, Zenon
    <3> HIDE DEF new
    <3> QED BY <1>1, <3>1, <3>2
  <2>3. known \cap new = {} BY <1>1, <1>3
  <2> HIDE DEF new, known
  <2>4. Cardinality(known \cup new) = Cardinality(known) + Cardinality(new) - Cardinality(known \cap new)
    BY <1>3, <2>2, FS_Union
  <2>5. Cardinality(known \cap new) = 0 BY <2>3, FS_EmptySet, Zenon
  <2> HIDE DEF K
  <2> QED BY <1>1, <2>1, <2>2, <2>4, <2>5
<1>6. Cardinality(KnownUpTo(Len(printed)))' = stdoutReadPtr + n
  <2>1. Cardinality(K(L + n + z)) = stdoutReadPtr + n
    <3>1. n \in 0 .. n /\ L + n + z \in L + n .. L + n + z BY <1>1
    <3> HIDE DEF K
    <3> QED BY <1>5, <3>1
  <2>2. KnownUpTo(Len(printed))' = K(L + n + z) BY DEF KnownUpTo
  <2> HIDE DEF K, L
  <2> QED BY <2>1, <2>2
<1>7. ASSUME NEW i \in 1 .. L + n + z, printed'[i] # Unknown
      PROVE  Cardinality(K(i)) <= Len(written) /\ printed'[i] = written[Cardinality(K(i))]
  <2>1. CASE i <= L
    <3>1. i \in 1 .. L BY <1>1, <2>1
    <3>2. printed[i] # Unknown /\ printed'[i] = printed[i] /\ K(i) = KnownUpTo(i) BY <1>4, <1>7, <3>1
    <3> HIDE DEF K, L
    <3> QED BY <3>1, <3>2 DEF Output, PrintedInOrder, L
  <2>2. CASE i > L
    <3>1. i - L \in 1 .. n /\ L + (i - L) = i /\ i - L \in 0 .. n /\ i \in L + (i - L) .. L + n + z
      BY <1>1, <1>7, <2>2
    <3> DEFINE k == i - L
    <3> HIDE DEF K, k
    <3>2. Cardinality(K(i)) = stdoutReadPtr + k BY <1>5, <3>1 DEF k
    <3>3. printed'[i] = written[stdoutReadPtr + k] BY <3>1 DEF k
    <3>4. stdoutReadPtr + k <= Len(written) BY <1>1, <3>1 DEF k, Output
    <3> QED BY <3>2, <3>3, <3>4
  <2> QED BY <1>1, <2>1, <2>2
<1>8. PrintedInOrder' BY <1>7 DEF PrintedInOrder, KnownUpTo
<1> QED BY <1>6, <1>8

\* printSTDOUT.
LEMMA PrintKeeps ==
  ASSUME IInv, PrintSTDOUT
  PROVE  IInv'
<1> DEFINE f == fil[2]  size == Len(f.data) - stdoutReadPtr
<1>1. /\ 1 \in 1 .. Len(fil) /\ 2 \in 1 .. Len(fil) /\ IsFile(f) /\ buffer[1] = 2
      /\ f.data = written /\ written \in Seq(Out) /\ stdoutReadPtr \in Nat
      /\ stdoutReadPtr <= Len(written) /\ printed \in Seq(AnyChar)
      /\ f.err \/ f.fptr = Len(written)
  <2>1. 1 \in 1 .. Len(fil) /\ 2 \in 1 .. Len(fil) /\ IsFile(f) BY DEF IInv, AllFiles
  <2>2. /\ f.data = written /\ written \in Seq(Out) /\ stdoutReadPtr \in Nat
        /\ stdoutReadPtr <= Len(written) /\ printed \in Seq(AnyChar)
        /\ f.err \/ f.fptr = Len(written)
    BY DEF IInv, Output
  <2>3. buffer[1] = 2 BY DEF IInv, Table
  <2> QED BY <2>1, <2>2, <2>3, Zenon
<1>2. PICK a, r, b :
        /\ a \in f_lseek(f, stdoutReadPtr) /\ r \in f_read(a, size) /\ b \in f_lseek(r.fil, f.fptr)
        /\ fil' = [fil EXCEPT ![2] = b]
        /\ stdoutReadPtr' = stdoutReadPtr + r.n
        /\ printed' = printed \o SubSeq(a.data, a.fptr + 1, a.fptr + r.n) \o Padding(size - r.n)
  <2> DEFINE x == buffer[1]  g == fil[x]  l == Len(g.data) - stdoutReadPtr
  <2>1. PICK a, r, b :
          /\ a \in f_lseek(g, stdoutReadPtr) /\ r \in f_read(a, l) /\ b \in f_lseek(r.fil, g.fptr)
          /\ fil' = [fil EXCEPT ![x] = b]
          /\ stdoutReadPtr' = stdoutReadPtr + r.n
          /\ printed' = printed \o SubSeq(a.data, a.fptr + 1, a.fptr + r.n) \o Padding(l - r.n)
    BY Zenon DEF PrintSTDOUT
  <2>2. x = 2 /\ g = f /\ l = size BY <1>1
  <2> HIDE DEF x, g, l, f, size
  <2> QED BY <2>1, <2>2, Zenon
<1>3. UNCHANGED <<buffer, cnt, leftShift, stdinWritePtr, typed, consumed, written>>
  BY Zenon DEF PrintSTDOUT
<1> HIDE DEF f
<1>4. /\ IsFile(b) /\ b.data = f.data /\ (f.err => b.err) /\ (b.err \/ b.fptr = f.fptr)
      /\ r.n \in Nat /\ r.n <= size
      /\ a.data = f.data /\ a.fptr \in Nat /\ (r.n # 0 => a.fptr = stdoutReadPtr)
  <2>1. stdoutReadPtr <= Len(f.data) BY <1>1
  <2>2. a \in f_lseek(f, stdoutReadPtr) /\ r \in f_read(a, size) /\ b \in f_lseek(r.fil, f.fptr)
    BY <1>2, Zenon
  <2>3. IsFile(f) /\ stdoutReadPtr \in Nat BY <1>1
  <2> QED BY <2>1, <2>2, <2>3, PrintIs, Zenon
<1>5. /\ AllFiles' /\ Len(fil') = Len(fil) /\ fil'[2] = b
      /\ \A j \in 1 .. Len(fil) : j # 2 => fil'[j] = fil[j]
  <2>1. IsFile(b) /\ AllFiles BY <1>4 DEF IInv
  <2> QED BY <1>1, <1>2, <2>1, FileReplaced, Zenon
<1>6. Table' BY <1>3, <1>5, TableKept DEF IInv
<1>7. Input'
  <2>1. fil'[1] = fil[1] BY <1>1, <1>5
  <2> QED BY <1>3, <2>1, InputKept DEF IInv
<1>8. Output'
  <2> DEFINE n == r.n  z == size - n  s == SubSeq(a.data, a.fptr + 1, a.fptr + n)  q == Padding(z)
  <2>1. size = Len(written) - stdoutReadPtr /\ n \in Nat /\ z \in Nat BY <1>1, <1>4
  <2> HIDE DEF size, z, n
  <2>2. /\ s \in Seq(AnyChar) /\ Len(s) = n
        /\ \A i \in 1 .. n : s[i] = written[stdoutReadPtr + i]
    <3>1. written \in Seq(AnyChar)
      <4>1. Out \subseteq AnyChar BY DEF AnyChar, Char
      <4> QED BY <1>1, <4>1
    <3>2. CASE n = 0
      <4>1. s = <<>> BY <1>1, <1>4, <2>1, <3>1, <3>2
      <4> HIDE DEF s
      <4>2. Len(<<>>) = 0 /\ <<>> \in Seq(AnyChar) OBVIOUS
      <4> QED BY <3>2, <4>1, <4>2
    <3>3. CASE n # 0
      <4>1. a.fptr = stdoutReadPtr /\ stdoutReadPtr + n <= Len(written) BY <1>1, <1>4, <2>1, <3>3 DEF n
      <4> DEFINE u(p, m) == SubSeq(written, p + 1, p + m)
      <4>2. ASSUME NEW p \in Nat, NEW m \in Nat, p + m <= Len(written)
            PROVE  /\ u(p, m) \in Seq(AnyChar) /\ Len(u(p, m)) = m
                   /\ \A i \in 1 .. m : u(p, m)[i] = written[p + i]
        BY <3>1, <4>2, Stretch, ZenonT(30)
      <4>3. s = u(stdoutReadPtr, n) BY <1>1, <1>4, <4>1
      <4> HIDE DEF s, u
      <4> QED BY <1>1, <2>1, <4>1, <4>2, <4>3, Zenon
    <3> QED BY <3>2, <3>3
  <2>3. /\ q \in Seq(AnyChar) /\ Len(q) = z /\ \A i \in 1 .. z : q[i] = Unknown
    BY <2>1 DEF Padding, AnyChar
  <2>4. printed' = printed \o s \o q BY <1>2, Zenon DEF n, z, size
  <2> HIDE DEF s, q
  <2> DEFINE t == printed \o s
  <2>5. /\ t \in Seq(AnyChar) /\ Len(t) = Len(printed) + n
        /\ \A i \in 1 .. Len(printed) : t[i] = printed[i]
        /\ \A i \in 1 .. n : t[Len(printed) + i] = s[i]
    <3>1. /\ t \in Seq(AnyChar) /\ Len(t) = Len(printed) + Len(s)
          /\ \A i \in 1 .. Len(printed) : t[i] = printed[i]
          /\ \A i \in (Len(printed) + 1) .. (Len(printed) + Len(s)) : t[i] = s[i - Len(printed)]
      <4>1. printed \in Seq(AnyChar) /\ s \in Seq(AnyChar) BY <1>1, <2>2
      <4> QED BY <4>1, ConcatElements, Zenon
    <3> HIDE DEF t
    <3>2. ASSUME NEW i \in 1 .. n PROVE t[Len(printed) + i] = s[i]
      <4>1. /\ Len(printed) + i \in (Len(printed) + 1) .. (Len(printed) + Len(s))
            /\ (Len(printed) + i) - Len(printed) = i
        BY <1>1, <2>1, <2>2
      <4> QED BY <3>1, <4>1, Zenon
    <3> QED BY <2>2, <3>1, <3>2
  <2> HIDE DEF t
  <2>6. /\ t \o q \in Seq(AnyChar) /\ Len(t \o q) = Len(t) + Len(q)
        /\ \A i \in 1 .. Len(t) : (t \o q)[i] = t[i]
        /\ \A i \in (Len(t) + 1) .. (Len(t) + Len(q)) : (t \o q)[i] = q[i - Len(t)]
    <3>1. t \in Seq(AnyChar) /\ q \in Seq(AnyChar) BY <2>3, <2>5
    <3> QED BY <3>1, ConcatElements, ZenonT(30)
  <2>7. printed' = t \o q BY <2>4 DEF t
  <2>8. printed' \in Seq(AnyChar) /\ Len(printed') = Len(printed) + n + z
    BY <1>1, <2>1, <2>3, <2>5, <2>6, <2>7
  <2>9. \A i \in 1 .. Len(printed) : printed'[i] = printed[i]
    BY <1>1, <2>1, <2>5, <2>6, <2>7
  <2>10. \A i \in 1 .. n : printed'[Len(printed) + i] = written[stdoutReadPtr + i]
    <3> SUFFICES ASSUME NEW i \in 1 .. n
                 PROVE  printed'[Len(printed) + i] = written[stdoutReadPtr + i]
      OBVIOUS
    <3>1. Len(printed) + i \in 1 .. Len(t) BY <1>1, <2>1, <2>5
    <3>2. (t \o q)[Len(printed) + i] = t[Len(printed) + i] BY <2>6, <3>1
    <3> QED BY <2>2, <2>5, <2>7, <3>2
  <2>11. \A i \in Len(printed) + n + 1 .. Len(printed) + n + z : printed'[i] = Unknown
    <3> SUFFICES ASSUME NEW i \in Len(printed) + n + 1 .. Len(printed) + n + z
                 PROVE  printed'[i] = Unknown
      OBVIOUS
    <3>1. i \in (Len(t) + 1) .. (Len(t) + Len(q)) /\ i - Len(t) \in 1 .. z BY <1>1, <2>1, <2>3, <2>5
    <3>2. (t \o q)[i] = q[i - Len(t)] BY <2>6, <3>1
    <3> QED BY <2>3, <2>7, <3>1, <3>2
  <2>12. stdoutReadPtr + n <= Len(written) BY <1>1, <1>4, <2>1 DEF n
  <2>13. Output /\ written' = written BY <1>3 DEF IInv
  <2>14. Cardinality(KnownUpTo(Len(printed)))' = stdoutReadPtr + n /\ PrintedInOrder'
    BY <2>1, <2>8, <2>9, <2>10, <2>11, <2>12, <2>13, PrintedGrows, Zenon
  <2>15. stdoutReadPtr' = stdoutReadPtr + n BY <1>2 DEF n
  <2>16. b.err \/ b.fptr = Len(written) BY <1>1, <1>4
  <2>17. stdoutReadPtr' \in Nat /\ stdoutReadPtr' <= Len(written')
    BY <1>1, <2>1, <2>12, <2>13, <2>15
  <2>19. Cardinality(KnownUpTo(Len(printed)))' = stdoutReadPtr' BY <2>14, <2>15, Zenon
  <2>18. /\ written' \in Seq(Out) /\ fil'[2].data = written'
         /\ fil'[2].err \/ fil'[2].fptr = Len(written')
    BY <1>1, <1>4, <1>5, <2>1, <2>13, <2>16
  <2> QED BY <2>8, <2>14, <2>17, <2>18, <2>19, ZenonT(30) DEF Output
<1> QED BY <1>5, <1>6, <1>7, <1>8 DEF IInv

\* close.
LEMMA CloseKeeps ==
  ASSUME IInv, NEW fd \in Fd, Close(fd)
  PROVE  IInv'
<1> DEFINE x == buffer[fd]
<1>1. x \in 1 .. Len(fil) /\ IsFile(fil[x]) /\ 1 \in 1 .. Len(fil) /\ 2 \in 1 .. Len(fil)
  BY Descriptors DEF IInv
<1>2. PICK g \in f_close(fil[x]) : fil' = [fil EXCEPT ![x] = g] BY Zenon DEF Close
<1>3. UNCHANGED <<buffer, cnt, leftShift, stdinWritePtr, stdoutReadPtr, histories>>
  BY Zenon DEF Close
<1> HIDE DEF x
<1>4. IsFile(g) /\ g.data = fil[x].data /\ g.fptr = fil[x].fptr /\ g.err = fil[x].err
  BY <1>1, <1>2, CloseIs
<1>5. /\ AllFiles' /\ Len(fil') = Len(fil) /\ fil'[x] = g
      /\ \A j \in 1 .. Len(fil) : j # x => fil'[j] = fil[j]
  <2>1. IsFile(g) /\ AllFiles BY <1>4 DEF IInv
  <2> QED BY <1>1, <1>2, <2>1, FileReplaced, Zenon
<1>6. ASSUME NEW j \in {1, 2}
      PROVE  fil'[j].data = fil[j].data /\ fil'[j].fptr = fil[j].fptr /\ fil'[j].err = fil[j].err
  BY <1>1, <1>4, <1>5
<1>7. Table' BY <1>3, <1>5, TableKept DEF IInv
<1>8. Input' BY <1>3, <1>6, InputKept DEF IInv, histories
<1>9. Output' BY <1>3, <1>6, OutputKept DEF IInv, histories
<1> QED BY <1>5, <1>7, <1>8, <1>9 DEF IInv

\* add puts an element behind the others and moves none, when the array has to
\* be replaced as well.
LEMMA AddIs ==
  ASSUME Table, NEW t, add(t)
  PROVE  /\ cnt' = cnt + 1 /\ buffer'[cnt] = t
         /\ \A i \in 0 .. cnt - 1 : buffer'[i] = buffer[i]
         /\ \E size \in Nat : cnt' <= size /\ buffer' = [i \in 0 .. size - 1 |-> buffer'[i]]
<1>1. cnt \in Nat /\ cnt >= 3 BY DEF Table
<1>2. PICK size \in Nat : cnt <= size /\ buffer = [i \in 0 .. size - 1 |-> buffer[i]] BY DEF Table
<1>3. totalSize = size BY <1>2, TotalSize
<1>4. cnt' = cnt + 1 BY DEF add
<1>5. CASE cnt = size
  <2>1. buffer' = [Resized(buffer, cnt, size * 2) EXCEPT ![cnt] = t] BY <1>3, <1>5 DEF add
  <2>2. Resized(buffer, cnt, size * 2) = [i \in 0 .. size * 2 - 1 |-> IF i < cnt THEN buffer[i] ELSE Unset]
    BY DEF Resized
  <2>3. size * 2 \in Nat /\ cnt + 1 <= size * 2 /\ cnt \in 0 .. size * 2 - 1 BY <1>1, <1>2, <1>5
  <2>4. buffer' = [i \in 0 .. size * 2 - 1 |-> buffer'[i]] BY <2>1, <2>2
  <2>5. buffer'[cnt] = t BY <2>1, <2>2, <2>3
  <2>6. \A i \in 0 .. cnt - 1 : buffer'[i] = buffer[i] BY <1>1, <2>1, <2>2, <2>3
  <2> QED BY <1>4, <2>3, <2>4, <2>5, <2>6
<1>6. CASE cnt # size
  <2>1. buffer' = [buffer EXCEPT ![cnt] = t] BY <1>3, <1>6 DEF add
  <2>2. cnt \in 0 .. size - 1 /\ cnt + 1 <= size BY <1>1, <1>2, <1>6
  <2>3. buffer' = [i \in 0 .. size - 1 |-> buffer'[i]] BY <1>2, <2>1, Zenon
  <2>4. buffer'[cnt] = t BY <1>2, <2>1, <2>2
  <2>5. \A i \in 0 .. cnt - 1 : buffer'[i] = buffer[i] BY <1>1, <1>2, <2>1, <2>2
  <2> QED BY <1>4, <2>2, <2>3, <2>4, <2>5
<1> QED BY <1>5, <1>6

\* open.
LEMMA OpenKeeps ==
  ASSUME IInv, NEW data \in Contents, NEW flag \in Flags, Open(data, flag)
  PROVE  IInv'
<1> DEFINE g == Fil(data, flag)
<1>1. IsFile(g)
  <2>1. data \in Seq(AnyChar)
    <3>1. data \in Seq(Out) /\ Out \subseteq AnyChar BY FilesAssumption DEF AnyChar, Char
    <3> QED BY <3>1
  <2>2. flag \in SUBSET {"read", "write"} BY FilesAssumption
  <2> QED BY <2>1, <2>2 DEF Fil, IsFile, FilRecord
<1>2. fil' = Append(fil, g) /\ add(Len(fil')) BY DEF Open
<1>3. UNCHANGED <<leftShift, stdinWritePtr, stdoutReadPtr, histories>> BY Zenon DEF Open
<1> HIDE DEF g
<1>4. fil \in Seq(FilRecord) /\ Len(fil) >= 3 /\ g \in FilRecord BY <1>1 DEF IInv, AllFiles, IsFile
<1>5. /\ fil' \in Seq(FilRecord) /\ Len(fil') = Len(fil) + 1 /\ fil'[Len(fil) + 1] = g
      /\ \A i \in 1 .. Len(fil) : fil'[i] = fil[i]
  BY <1>2, <1>4
<1>6. AllFiles'
  <2>1. ASSUME NEW i \in 1 .. Len(fil') PROVE IsFile(fil'[i])
    <3>1. CASE i = Len(fil) + 1 BY <1>1, <1>5, <3>1
    <3>2. CASE i # Len(fil) + 1
      <4>1. i \in 1 .. Len(fil) BY <1>4, <1>5, <3>2
      <4> QED BY <1>5, <4>1 DEF IInv, AllFiles
    <3> QED BY <3>1, <3>2
  <2> QED BY <1>4, <1>5, <2>1 DEF AllFiles
<1>7. fil'[1] = fil[1] /\ fil'[2] = fil[2] BY <1>4, <1>5
<1>8. Input' BY <1>3, <1>7, InputKept DEF IInv, histories
<1>9. Output' BY <1>3, <1>7, OutputKept DEF IInv, histories
<1>10. Table'
  <2>1. Table BY DEF IInv
  <2>2. /\ cnt' = cnt + 1 /\ buffer'[cnt] = Len(fil')
        /\ \A i \in 0 .. cnt - 1 : buffer'[i] = buffer[i]
        /\ \E size \in Nat : cnt' <= size /\ buffer' = [i \in 0 .. size - 1 |-> buffer'[i]]
    BY <1>2, <2>1, AddIs
  <2>3. cnt \in Nat /\ cnt >= 3 /\ Len(fil') \in Nat BY <1>4, <1>5, <2>1 DEF Table
  <2>a. buffer[0] = 1 /\ buffer[1] = 2 /\ \A i \in 2 .. cnt - 1 : buffer[i] \in 3 .. Len(fil)
    BY <2>1, Zenon DEF Table
  <2>4. buffer'[0] = 1 /\ buffer'[1] = 2
    <3>1. 0 \in 0 .. cnt - 1 /\ 1 \in 0 .. cnt - 1 BY <2>3
    <3> QED BY <2>a, <2>2, <3>1, ZenonT(30)
  <2>5. ASSUME NEW i \in 2 .. cnt' - 1 PROVE buffer'[i] \in 3 .. Len(fil')
    <3>1. CASE i = cnt BY <1>4, <1>5, <2>2, <2>3, <3>1
    <3>2. CASE i # cnt
      <4>1. i \in 2 .. cnt - 1 /\ i \in 0 .. cnt - 1 BY <2>2, <2>3, <3>2
      <4>2. buffer'[i] = buffer[i] BY <2>2, <4>1
      <4>3. buffer[i] \in 3 .. Len(fil) BY <2>a, <4>1, ZenonT(30)
      <4> QED BY <1>4, <1>5, <4>2, <4>3
    <3> QED BY <3>1, <3>2
  <2>6. cnt' \in Nat /\ cnt' >= 3 BY <2>2, <2>3
  <2> QED BY <2>2, <2>4, <2>5, <2>6 DEF Table
<1> QED BY <1>6, <1>8, <1>9, <1>10 DEF IInv

\* Every step keeps the invariant.
LEMMA StepKeeps ==
  ASSUME IInv, [Next]_vars
  PROVE  IInv'
<1>1. CASE Shift
  <2>1. /\ UNCHANGED <<fil, buffer, cnt, stdinWritePtr, stdoutReadPtr, histories>>
        /\ leftShift' \in BOOLEAN
    BY <1>1 DEF Shift
  <2>2. Table' BY <2>1 DEF IInv, Table
  <2>3. AllFiles' BY <2>1 DEF IInv, AllFiles
  <2>4. Input' BY <2>1 DEF IInv, Input, histories
  <2>5. Output' BY <2>1, OutputKept DEF IInv, histories
  <2> QED BY <2>2, <2>3, <2>4, <2>5 DEF IInv
<1>2. CASE \E k \in Key : TypeKey(k) BY <1>2, TypeKeyKeeps
<1>3. CASE \E data \in Contents, flag \in Flags : Open(data, flag) BY <1>3, OpenKeeps
<1>4. CASE \E fd \in Fd \ {2} : Close(fd) BY <1>4, CloseKeeps
<1>5. CASE \E fd \in Fd \ {1, 2}, n \in Sizes : Read(fd, n) BY <1>5, ReadKeeps
<1>6. CASE \E fd \in Fd \ {0, 2}, c \in Out : Write(fd, c) BY <1>6, WriteKeeps
<1>7. CASE PrintSTDOUT BY <1>7, PrintKeeps
<1>8. CASE UNCHANGED vars
  <2>1. UNCHANGED <<fil, buffer, cnt, leftShift, stdinWritePtr, stdoutReadPtr, histories>>
    BY <1>8 DEF vars
  <2>2. Table' BY <2>1, Zenon DEF IInv, Table
  <2>3. AllFiles' BY <2>1 DEF IInv, AllFiles
  <2>4. Input' BY <2>1 DEF IInv, Input, histories
  <2>5. Output' BY <2>1, OutputKept DEF IInv, histories
  <2> QED BY <2>2, <2>3, <2>4, <2>5 DEF IInv
<1> QED BY <1>1, <1>2, <1>3, <1>4, <1>5, <1>6, <1>7, <1>8 DEF Next

\* No step moves an entry of the table.
LEMMA StepMovesNone ==
  ASSUME IInv, [Next]_vars
  PROVE  \A fd \in Fd : buffer'[fd] = buffer[fd]
<1>1. CASE UNCHANGED buffer BY <1>1
<1>2. CASE \E data \in Contents, flag \in Flags : Open(data, flag)
  <2>1. PICK t : add(t) BY <1>2 DEF Open
  <2> QED BY <2>1, AddIs DEF IInv, Fd
<1> QED BY <1>1, <1>2, Zenon DEF Next, vars, Shift, TypeKey, Close, Read, Write, PrintSTDOUT

-----------------------------------------------------------------------------
(* The theorems.                                                           *)

\* The invariant holds throughout.
LEMMA InvariantAlways == Spec => []IInv
<1>1. Init => IInv BY InitEstablished
<1>2. IInv /\ [Next]_vars => IInv' BY StepKeeps
<1> QED BY <1>1, <1>2, PTL DEF Spec

\* The process reads the characters typed, in the order they were typed, none
\* lost and none twice, however the interrupts fall and whatever the disk does.
THEOREM KeysAlwaysInOrder == Spec => []KeysInOrder
<1>1. IInv => KeysInOrder
  <2> SUFFICES ASSUME IInv PROVE KeysInOrder OBVIOUS
  <2>1. /\ typed \in Seq(AnyChar) /\ consumed \in Seq(AnyChar) /\ Len(consumed) <= Len(typed)
        /\ \A i \in 1 .. Len(consumed) : consumed[i] = typed[i]
    BY DEF IInv, Input
  <2> DEFINE t == SubSeq(typed, 1, Len(consumed))
  <2>2. /\ t \in Seq(AnyChar) /\ Len(t) = Len(consumed)
        /\ \A i \in 1 .. Len(consumed) : t[i] = typed[i]
    BY <2>1
  <2> HIDE DEF t
  <2>3. consumed = t BY <2>1, <2>2
  <2> QED BY <2>3 DEF KeysInOrder, stdin, IInv, Input, t
<1> QED BY <1>1, InvariantAlways, PTL

\* While the disk works, an interrupt leaves the position of the process alone.
THEOREM NothingEverSkipped == Spec => []NothingSkipped
<1>1. IInv => NothingSkipped BY DEF IInv, Input, NothingSkipped, stdin
<1> QED BY <1>1, InvariantAlways, PTL

\* What is printed is what was written, in order, none of it twice.
THEOREM PrintedAlwaysInOrder == Spec => []PrintedInOrder
<1>1. IInv => PrintedInOrder BY DEF IInv, Output
<1> QED BY <1>1, InvariantAlways, PTL

\* A descriptor names the same file for ever, also when the table grows.
THEOREM DescriptorsAlwaysKept == Spec => DescriptorsKept
<1>1. IInv /\ [Next]_vars => [\A fd \in Fd : buffer'[fd] = buffer[fd]]_vars BY StepMovesNone
<1> QED BY <1>1, InvariantAlways, PTL DEF Spec, DescriptorsKept

=============================================================================
