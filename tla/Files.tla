------------------------------- MODULE Files --------------------------------
(***************************************************************************)
(* The files of the focused process: its table of descriptors, the open,   *)
(* close, read, write and print system calls (syscalls_calls.cpp), and the *)
(* keyboard interrupt, which appends to the file of descriptor 0 behind    *)
(* the position the process reads it at (ps2.cpp).                         *)
(*                                                                         *)
(* An interrupt and a system call run with interrupts off, one after the   *)
(* other.  A file is the sequence of its characters.  FatFs calls are the  *)
(* sets of their outcomes: a disk that fails, or is full, makes any of     *)
(* them end early.                                                         *)
(***************************************************************************)
EXTENDS Integers, Sequences, FiniteSets

CONSTANTS Key,        \* the keys that have a character
          Out,        \* the characters the process writes
          Contents,   \* what the files it opens hold
          Flags,      \* the modes it opens them in
          Sizes,      \* how much it reads at a time
          ListSize,   \* the initial size of a List (5)
          DiskFails,  \* may the disk fail or be full?
          MaxKeys, MaxOut, MaxFils   \* bounds: keys, characters written, FILs

ASSUME FilesAssumption ==
  /\ \A data \in Contents : data \in Seq(Out)
  /\ \A flag \in Flags : flag \subseteq {"read", "write"}
  /\ Sizes \subseteq Nat
  /\ ListSize \in Nat /\ ListSize >= 3 /\ DiskFails \in BOOLEAN
  /\ MaxKeys \in Nat /\ MaxOut \in Nat /\ MaxFils \in Nat

VARIABLES
  fil,            \* the FIL objects
  buffer, cnt,    \* the List of descriptors: its array and how much is used
  leftShift,
  stdinWritePtr, stdoutReadPtr,
  typed,          \* history: the characters that went into stdin
  consumed,       \* history: what reads of stdin returned
  written,        \* history: the characters that went into stdout
  printed         \* history: what was printed

histories == <<typed, consumed, written, printed>>
vars == <<fil, buffer, cnt, leftShift, stdinWritePtr, stdoutReadPtr, histories>>

Char == [key : Key, shift : BOOLEAN] \cup Out
Unset == -1            \* an element of the array nothing was stored in
Unknown == [key |-> "unknown", shift |-> FALSE]   \* what a stack buffer held

ASSUME UnknownAssumption == Unknown \notin Out

-----------------------------------------------------------------------------
(* FatFs (fatfs/ff.cpp).                                                   *)

Fil(data, flag) == [data |-> data, fptr |-> 0, flag |-> flag, err |-> FALSE, valid |-> TRUE]

\* validate, and no error earlier.
Usable(f) == f.valid /\ ~ f.err

\* How far a transfer of n characters may get before the disk fails.
Short(n) == IF DiskFails THEN 0 .. n - 1 ELSE {}

Smaller(a, b) == IF a < b THEN a ELSE b

\* f_read: the file and the number of characters read.
f_read(f, n) ==
  LET k == Smaller(n, Len(f.data) - f.fptr)
  IN  IF ~ Usable(f) \/ "read" \notin f.flag THEN {[fil |-> f, n |-> 0]}
      ELSE {[fil |-> [f EXCEPT !.fptr = @ + k], n |-> k]}
           \cup {[fil |-> [f EXCEPT !.fptr = @ + j, !.err = TRUE], n |-> j] : j \in Short(k)}

Overlay(d, p, s) == SubSeq(d, 1, p) \o s \o SubSeq(d, p + Len(s) + 1, Len(d))

Stored(f, s) == [f EXCEPT !.data = Overlay(@, f.fptr, s), !.fptr = @ + Len(s)]

\* f_write: a full disk ends it early without an error.
f_write(f, s) ==
  IF ~ Usable(f) \/ "write" \notin f.flag THEN {[fil |-> f, n |-> 0, ok |-> FALSE]}
  ELSE {[fil |-> Stored(f, s), n |-> Len(s), ok |-> TRUE]}
       \cup {[fil |-> [Stored(f, SubSeq(s, 1, j)) EXCEPT !.err = e], n |-> j, ok |-> ~ e] :
               j \in Short(Len(s)), e \in BOOLEAN}

\* f_lseek: a position behind the end stretches a file that is written.
Padding(n) == [i \in 1 .. n |-> Unknown]
f_lseek(f, ofs) ==
  LET beyond == ofs > Len(f.data)
  IN  IF ~ Usable(f) THEN {f}
      ELSE {IF beyond /\ "write" \notin f.flag THEN [f EXCEPT !.fptr = Len(f.data)]
            ELSE IF beyond THEN [f EXCEPT !.data = @ \o Padding(ofs - Len(@)), !.fptr = ofs]
            ELSE [f EXCEPT !.fptr = ofs]}
           \cup {[f EXCEPT !.fptr = j, !.err = TRUE] : j \in Short(Smaller(ofs, Len(f.data)))}

\* f_close: a file that cannot be synchronised stays open.
f_close(f) ==
  IF ~ f.valid THEN {f}
  ELSE {[f EXCEPT !.valid = FALSE]} \cup (IF DiskFails THEN {f} ELSE {})

-----------------------------------------------------------------------------
(* The List of descriptors (utils/list.hpp).                               *)

totalSize == Cardinality(DOMAIN buffer)

Resized(b, n, size) == [i \in 0 .. size - 1 |-> IF i < n THEN b[i] ELSE Unset]

add(t) ==
  /\ buffer' = [(IF cnt = totalSize THEN Resized(buffer, cnt, totalSize * 2) ELSE buffer)
                  EXCEPT ![cnt] = t]
  /\ cnt' = cnt + 1

\* The program passes on descriptors it was given.
Fd == 0 .. cnt - 1
stdin == 1
stdout == 2

-----------------------------------------------------------------------------

\* taskingCreateProcess, and taskingSetFocusedProcess.
Init ==
  LET standard == Fil(<<>>, {"read", "write"})
  IN  /\ fil = <<standard, standard, standard>>
      /\ buffer = [i \in 0 .. ListSize - 1 |-> IF i < 3 THEN i + 1 ELSE Unset]
      /\ cnt = 3
      /\ leftShift = FALSE
      /\ stdinWritePtr = 0 /\ stdoutReadPtr = 0
      /\ typed = <<>> /\ consumed = <<>> /\ written = <<>> /\ printed = <<>>

\* keyboardHandler: left shift goes down or up.
Shift ==
  /\ leftShift' \in BOOLEAN
  /\ UNCHANGED <<fil, buffer, cnt, stdinWritePtr, stdoutReadPtr, histories>>

\* A mutant: the read position is not restored.
MutantTypeKey(k) ==
  LET c == [key |-> k, shift |-> leftShift]
      f == fil[stdin]
  IN  /\ Len(typed) < MaxKeys
      /\ \E a \in f_lseek(f, stdinWritePtr) : \E w \in f_write(a, <<c>>) :
           /\ fil' = [fil EXCEPT ![stdin] = w.fil]
           /\ stdinWritePtr' = stdinWritePtr + w.n
           /\ typed' = typed \o SubSeq(<<c>>, 1, w.n)
      /\ UNCHANGED <<buffer, cnt, leftShift, stdoutReadPtr, consumed, written, printed>>

\* A mutant: the character goes to the read position.
MutantTypeKeyInPlace(k) ==
  LET c == [key |-> k, shift |-> leftShift]
      f == fil[stdin]
  IN  /\ Len(typed) < MaxKeys
      /\ \E w \in f_write(f, <<c>>) : \E b \in f_lseek(w.fil, f.fptr) :
           /\ fil' = [fil EXCEPT ![stdin] = b]
           /\ stdinWritePtr' = stdinWritePtr + w.n
           /\ typed' = typed \o SubSeq(<<c>>, 1, w.n)
      /\ UNCHANGED <<buffer, cnt, leftShift, stdoutReadPtr, consumed, written, printed>>

\* keyboardHandler: a key with a character.
TypeKey(k) ==
  LET c == [key |-> k, shift |-> leftShift]
      f == fil[stdin]
  IN  /\ Len(typed) < MaxKeys
      /\ \E a \in f_lseek(f, stdinWritePtr) : \E w \in f_write(a, <<c>>) :
         \E b \in f_lseek(w.fil, f.fptr) :
           /\ fil' = [fil EXCEPT ![stdin] = b]
           /\ stdinWritePtr' = stdinWritePtr + w.n
           /\ typed' = typed \o SubSeq(<<c>>, 1, w.n)
      /\ UNCHANGED <<buffer, cnt, leftShift, stdoutReadPtr, consumed, written, printed>>

\* open: a FIL that could not be opened is not reached again.
Open(data, flag) ==
  /\ Len(fil) < MaxFils
  /\ fil' = Append(fil, Fil(data, flag))
  /\ add(Len(fil'))
  /\ UNCHANGED <<leftShift, stdinWritePtr, stdoutReadPtr, histories>>

\* A mutant: the descriptors above move down.
MutantClose(fd) ==
  /\ \E f \in f_close(fil[buffer[fd]]) : fil' = [fil EXCEPT ![buffer[fd]] = f]
  /\ buffer' = [i \in DOMAIN buffer |-> IF i \in fd .. cnt - 2 THEN buffer[i + 1] ELSE buffer[i]]
  /\ cnt' = cnt - 1
  /\ UNCHANGED <<leftShift, stdinWritePtr, stdoutReadPtr, histories>>

\* close: the descriptor keeps its place in the table.
Close(fd) ==
  /\ \E f \in f_close(fil[buffer[fd]]) : fil' = [fil EXCEPT ![buffer[fd]] = f]
  /\ UNCHANGED <<buffer, cnt, leftShift, stdinWritePtr, stdoutReadPtr, histories>>

\* read.
Read(fd, n) ==
  LET f == fil[buffer[fd]]
  IN  /\ \E r \in f_read(f, n) :
           /\ fil' = [fil EXCEPT ![buffer[fd]] = r.fil]
           /\ consumed' = IF fd # 0 THEN consumed
                          ELSE consumed \o SubSeq(f.data, f.fptr + 1, f.fptr + r.n)
      /\ UNCHANGED <<buffer, cnt, leftShift, stdinWritePtr, stdoutReadPtr,
                     typed, written, printed>>

\* write.
Write(fd, c) ==
  /\ Len(fil[buffer[fd]].data) < MaxOut
  /\ \E w \in f_write(fil[buffer[fd]], <<c>>) :
       /\ fil' = [fil EXCEPT ![buffer[fd]] = w.fil]
       /\ written' = IF fd # 1 THEN written ELSE written \o SubSeq(<<c>>, 1, w.n)
  /\ UNCHANGED <<buffer, cnt, leftShift, stdinWritePtr, stdoutReadPtr,
                 typed, consumed, printed>>

\* A mutant: what was read is not counted.
MutantPrintSTDOUT ==
  LET f == fil[buffer[1]]
      size == Len(f.data) - stdoutReadPtr
  IN  /\ \E a \in f_lseek(f, stdoutReadPtr) : \E r \in f_read(a, size) :
         \E b \in f_lseek(r.fil, f.fptr) :
           /\ fil' = [fil EXCEPT ![buffer[1]] = b]
           /\ printed' = printed \o SubSeq(a.data, a.fptr + 1, a.fptr + r.n)
                                 \o Padding(size - r.n)
      /\ Len(printed) < 2 * MaxOut
      /\ UNCHANGED <<buffer, cnt, leftShift, stdinWritePtr, stdoutReadPtr,
                     typed, consumed, written>>

\* printSTDOUT: all of the buffer is printed, however much was read into it.
PrintSTDOUT ==
  LET f == fil[buffer[1]]
      size == Len(f.data) - stdoutReadPtr
  IN  /\ \E a \in f_lseek(f, stdoutReadPtr) : \E r \in f_read(a, size) :
         \E b \in f_lseek(r.fil, f.fptr) :
           /\ fil' = [fil EXCEPT ![buffer[1]] = b]
           /\ stdoutReadPtr' = stdoutReadPtr + r.n
           /\ printed' = printed \o SubSeq(a.data, a.fptr + 1, a.fptr + r.n)
                                 \o Padding(size - r.n)
      /\ Len(printed) < 2 * MaxOut
      /\ UNCHANGED <<buffer, cnt, leftShift, stdinWritePtr, typed, consumed, written>>

\* The process uses the standard files as the shell does: it reads the input,
\* writes the output and leaves the error output alone.
Next ==
  \/ Shift
  \/ \E k \in Key : TypeKey(k)
  \/ \E data \in Contents, flag \in Flags : Open(data, flag)
  \/ \E fd \in Fd \ {2} : Close(fd)
  \/ \E fd \in Fd \ {1, 2}, n \in Sizes : Read(fd, n)
  \/ \E fd \in Fd \ {0, 2}, c \in Out : Write(fd, c)
  \/ PrintSTDOUT

Spec == Init /\ [][Next]_vars

-----------------------------------------------------------------------------
(* Properties.                                                             *)

\* The variables have their types, a position is within its file, and the
\* pointers of the standard files never pass their ends.
TypeOK ==
  /\ \A i \in 1 .. Len(fil) :
       /\ fil[i].data \in Seq(Char \cup {Unknown})
       /\ fil[i].fptr \in 0 .. Len(fil[i].data)
  /\ cnt \in 0 .. totalSize
  /\ \A fd \in Fd : buffer[fd] \in 1 .. Len(fil)
  /\ stdinWritePtr \in 0 .. Len(fil[stdin].data)
  /\ stdoutReadPtr \in 0 .. Len(fil[stdout].data)

\* The process reads the characters typed, in the order they were typed, none
\* lost and none twice, however the interrupts of the keyboard fall between
\* its calls, and whatever the disk does.
KeysInOrder == consumed = SubSeq(typed, 1, Len(consumed)) /\ fil[stdin].data = typed

\* While the disk works, what was typed and not read yet is what the next
\* reads return: an interrupt leaves the position of the process alone.
NothingSkipped == ~ fil[stdin].err => fil[stdin].fptr = Len(consumed)

\* The first i characters on the screen that came from the file.
KnownUpTo(i) == {j \in 1 .. i : printed[j] # Unknown}

\* What is printed is what was written, in order, none of it twice; only what
\* the disk did not deliver is anything else: the n-th character on the screen
\* that came from the file is the n-th one written.
PrintedInOrder ==
  \A i \in 1 .. Len(printed) : printed[i] # Unknown =>
    /\ Cardinality(KnownUpTo(i)) <= Len(written)
    /\ printed[i] = written[Cardinality(KnownUpTo(i))]

\* A descriptor names the same file for ever, also when the table grows.
DescriptorsKept == [][\A fd \in Fd : buffer'[fd] = buffer[fd]]_vars

=============================================================================
