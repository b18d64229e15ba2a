--------------------------- MODULE KernelScheduler ----------------------------
(***************************************************************************)
(* The scheduler when the boot creates kernel threads only: none is ever   *)
(* demoted, so that everything happens in queue 0, where AddJob links      *)
(* correctly.                                                              *)
(***************************************************************************)
EXTENDS Scheduler, FiniteSets

ASSUME FiniteThreads == IsFiniteSet(Threads)

\* The jobs of queue 0 of l from its head along next, and where the walk over as
\* many jobs as there are threads ends.
Walk(l) ==
  LET steps[n \in 0..Cardinality(Threads)] ==
        IF n = 0 THEN [line |-> <<>>, job |-> l.head[0]]
        ELSE LET w == steps[n - 1]
             IN  IF w.job = Null THEN w
                 ELSE [line |-> Append(w.line, w.job), job |-> l.next[w.job]]
  IN  steps[Cardinality(Threads)]

UserThreads ==
  \/ \E t \in Threads : privilege[t] = "USER"
  \/ \E i \in 1..Len(boot) : boot[i].privilege = "USER"

\* The list w of queue 0 ends, at its tail, and every prev undoes a next.
WellFormed(l, w) ==
  /\ w.job = Null
  /\ l.tail[0] = IF w.line = <<>> THEN Null ELSE w.line[Len(w.line)]
  /\ \A i \in 1..Len(w.line) : l.prev[w.line[i]] = IF i = 1 THEN Null ELSE w.line[i - 1]

\* the line of kernel threads; a list that is not well formed is no line
LineOf(l) == IF WellFormed(l, Walk(l)) THEN Walk(l).line ELSE <<Null>>

Line == INSTANCE RoundRobin WITH
  line <- IF UserThreads THEN <<>> ELSE LineOf(q),
  runner <- IF UserThreads THEN Null ELSE runningJob

\* The pointers of jobs and queues, next and prev, implement a line in which
\* everybody waits for the front and leaves it for the back.
LinesUp == Line!Spec

\* Every kernel thread has its turn again and again.
EverybodyRuns == \A t \in Threads : []<>(UserThreads \/ current = t)
=============================================================================
