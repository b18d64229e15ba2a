------------------------------ MODULE RoundRobin ------------------------------
(***************************************************************************)
(* What the scheduler promises threads of equal priority: they stand in    *)
(* one line, whoever is in front runs, and whoever has used up its time    *)
(* goes to the back of the line.                                           *)
(***************************************************************************)
EXTENDS Sequences

CONSTANTS Threads, Null

VARIABLES line,   \* the threads, the next to run first
          runner  \* the thread that runs

Init == line = <<>> /\ runner = Null

Join ==
  /\ \E t \in Threads : line' = Append(line, t)
  /\ UNCHANGED runner

Run ==
  /\ line # <<>>
  /\ runner' = Head(line)
  /\ UNCHANGED line

ToTheBack ==
  /\ line # <<>> /\ runner = Head(line)
  /\ line' = Append(Tail(line), Head(line))
  /\ UNCHANGED runner

Next == Join \/ Run \/ ToTheBack

Spec == Init /\ [][Next]_<<line, runner>>
=============================================================================
