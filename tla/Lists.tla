-------------------------------- MODULE Lists --------------------------------
(***************************************************************************)
(* The linked lists of the kernel as sequences.  (SequencesExt has these    *)
(* operators too; with its other definitions in sight the proofs about the  *)
(* lists take ten times as long.)                                           *)
(***************************************************************************)
EXTENDS Integers, Sequences

Last(s) == s[Len(s)]

\* A new element is linked in as the i-th.
InsertAt(s, i, e) == SubSeq(s, 1, i - 1) \o <<e>> \o SubSeq(s, i, Len(s))

\* The i-th element is unlinked.
RemoveAt(s, i) == SubSeq(s, 1, i - 1) \o SubSeq(s, i + 1, Len(s))

\* The sum of the first n numbers of w.
Total(w, n) ==
  LET upTo[i \in 0..n] == IF i = 0 THEN 0 ELSE upTo[i - 1] + w[i]
  IN  upTo[n]
=============================================================================
