---------------------------- MODULE SchedulerProofs ----------------------------
(***************************************************************************)
(* Whatever the queues look like, and AddJob may link them wrongly, nobody *)
(* but the current thread is RUNNING, a thread that exited loses the       *)
(* processor for good unless the queues are empty, and no time slice is    *)
(* exceeded; and as long as there are kernel threads only the queues are   *)
(* one line, in which everybody has its turn: for any threads, queues,     *)
(* allotment and boost period.                                             *)
(***************************************************************************)
EXTENDS KernelScheduler, ListLemmas, FiniteSetTheorems

USE SMTT(20), ZenonT(20)  \* the provers of a leaf that names none

\* A queue that is not marked empty has a head: SelectTake never takes NULL.
HeadsSet == \A p \in Priority : ~q.isEmpty[p] => q.head[p] # Null

\* Nobody runs, because nobody was started or because the current thread exited.
Nobody == runningJob = Null /\ (current = Null \/ status[current] = "DEAD")

Alive(t) == status[t] = "RUNNING" \/ status[t] = "READY"

\* Who runs, by what the kernel is at.
Runner ==
  /\ pc \in {"boot", "run", "timer", "boost"} =>
       Nobody \/ (runningJob # Null /\ runningJob = current /\ status[current] = "RUNNING")
  /\ pc = "boot" => current = Null /\ \A t \in Threads : status[t] # "DEAD"
  /\ pc = "switch" =>
       Nobody \/ (runningJob # Null /\ runningJob = current
                    /\ (status[current] = "RUNNING" \/ status[current] = "DEAD"))
  /\ pc = "select" => Nobody \/ (runningJob # Null /\ status[runningJob] = "READY")
  /\ pc = "dispatch" => Nobody \/ (runningJob # Null /\ Alive(runningJob))

\* Only the thread that is being charged may be over its allotment, and only until
\* the switch that follows.
Overtime ==
  \A t \in Threads : time[t] > Allotment =>
    pc \in {"boost", "switch"} /\ t = runningJob /\ status[t] = "RUNNING"

OnlyCurrentRuns == \A t \in Threads : status[t] = "RUNNING" => t = current

\* schedulerSchedule comes back with nobody only after it has found every queue
\* empty, and nothing is queued before the processor is outside the kernel again.
Searched ==
  /\ pc = "select" => \A p \in Priority : p < at.queue => q.isEmpty[p]
  /\ pc = "dispatch" /\ runningJob = Null => \A p \in Priority : q.isEmpty[p]
  /\ pc = "run" /\ current # Null /\ runningJob = Null => \A p \in Priority : q.isEmpty[p]

IInv == TypeOK /\ HeadsSet /\ Runner /\ Overtime /\ OnlyCurrentRuns /\ Searched

-------------------------------------------------------------------------------
(* The lists.                                                              *)

SetHeads(l) == \A p \in Priority : ~l.isEmpty[p] => l.head[p] # Null

\* schedulerRemoveJob keeps the types, and a queue it leaves without a head is
\* marked empty.
LEMMA RemoveKeeps ==
  ASSUME NEW l \in QueueType, NEW job \in Threads, SetHeads(l)
  PROVE  RemoveJob(l, job) \in QueueType /\ SetHeads(RemoveJob(l, job))
<1> DEFINE p == l.priority[job]
           r == RemoveJob(l, job)
           h == IF l.prev[job] = Null THEN l.next[job] ELSE l.head[p]
<1>1. p \in Priority /\ l.prev[job] \in Job /\ l.next[job] \in Job
  BY DEF QueueType
<1>2. h \in Job
  BY <1>1 DEF QueueType
<1>3. r \in QueueType
  BY <1>1, <1>2, Zenon DEF RemoveJob, QueueType, Job
<1>4. \A x \in Priority : ~r.isEmpty[x] => r.head[x] # Null
  BY <1>1 DEF RemoveJob, QueueType, SetHeads
<1> QED BY <1>3, <1>4 DEF SetHeads

\* schedulerAddJob keeps the types, and the queue it adds to has a head.
LEMMA AddKeeps ==
  ASSUME NEW l \in QueueType, NEW job \in Threads, NEW p \in Priority, SetHeads(l)
  PROVE  AddJob(l, job, p) \in QueueType /\ SetHeads(AddJob(l, job, p))
<1> DEFINE r == AddJob(l, job, p)
<1>1. 0 \in Priority
  BY SchedulerConstants DEF Priority
<1>2. r \in QueueType
  BY <1>1 DEF AddJob, QueueType, Job
<1>3. \A x \in Priority : ~r.isEmpty[x] => r.head[x] # Null
  BY SchedulerConstants DEF AddJob, QueueType, SetHeads
<1> QED BY <1>2, <1>3 DEF SetHeads

-------------------------------------------------------------------------------
(* The invariant.                                                          *)

LEMMA InitInvariant == Init => IInv
<1> SUFFICES ASSUME Init PROVE IInv
  OBVIOUS
<1>1. 0 \in Priority
  BY SchedulerConstants DEF Priority
<1>2. TypeOK
  BY <1>1, SchedulerConstants, Zenon DEF Init, TypeOK, QueueType, Job
<1>3. HeadsSet
  BY DEF Init, HeadsSet
<1>4. Runner /\ Overtime /\ OnlyCurrentRuns /\ Searched
  BY SchedulerConstants DEF Init, Runner, Nobody, Overtime, OnlyCurrentRuns, Searched
<1> QED BY <1>2, <1>3, <1>4 DEF IInv

\* What the lists look like after a step that puts job into queue p, having taken
\* it out first or not.
LEMMA Relinked ==
  ASSUME TypeOK, HeadsSet, NEW job \in Threads, NEW p \in Priority
  PROVE  /\ RemoveJob(q, job) \in QueueType /\ SetHeads(RemoveJob(q, job))
         /\ AddJob(q, job, p) \in QueueType /\ SetHeads(AddJob(q, job, p))
         /\ AddJob(RemoveJob(q, job), job, p) \in QueueType
         /\ SetHeads(AddJob(RemoveJob(q, job), job, p))
<1>1. q \in QueueType /\ SetHeads(q)
  BY DEF TypeOK, HeadsSet, SetHeads
<1>2. RemoveJob(q, job) \in QueueType /\ SetHeads(RemoveJob(q, job))
  BY <1>1, RemoveKeeps
<1> QED BY <1>1, <1>2, AddKeeps

\* Every step keeps the types and the heads.
LEMMA StepTypes ==
  ASSUME IInv, [Next]_vars
  PROVE  TypeOK' /\ HeadsSet'
<1> USE SchedulerConstants DEF IInv
<1>0. 0 \in Priority
  BY DEF Priority
<1>1. CASE CreateThread
  <2> DEFINE New == [thread : Threads, privilege : {"KERNEL", "USER"}]
  <2>0. boot \in Seq(New) /\ boot # <<>>
    BY <1>1 DEF CreateThread, TypeOK
  <2>1. Head(boot) \in New /\ Tail(boot) \in Seq(New)
    <3> HIDE DEF New
    <3> QED BY <2>0
  <2>2. q' \in QueueType /\ SetHeads(q')
    BY <1>0, <1>1, <2>1, Relinked DEF CreateThread
  <2> QED BY <1>1, <2>1, <2>2 DEF CreateThread, TypeOK, HeadsSet, SetHeads
<1>2. CASE StartTimer \/ Interrupt \/ Exit \/ SchedulerTime \/ BoostQueue \/ SwitchStays
           \/ SwitchFirst \/ SelectSkip \/ SelectTake \/ Dispatch
  <2>1. q' = q
    BY <1>2 DEF StartTimer, Interrupt, Exit, SchedulerTime, BoostQueue, SwitchStays,
                SwitchFirst, SelectSkip, SelectTake, Dispatch
  <2>2. HeadsSet'
    BY <2>1 DEF HeadsSet
  <2>3. CASE StartTimer \/ Interrupt \/ Exit
    BY <2>1, <2>2, <2>3 DEF StartTimer, Interrupt, Exit, TypeOK, kind, Job
  <2>4. CASE SchedulerTime
    BY <1>0, <2>1, <2>2, <2>4 DEF SchedulerTime, TypeOK, kind, Job, QueueType
  <2>5. CASE BoostQueue
    BY <2>1, <2>2, <2>5 DEF BoostQueue, TypeOK, kind, QueueType, Priority
  <2>6. CASE SwitchStays \/ SwitchFirst
    BY <1>0, <2>1, <2>2, <2>6 DEF SwitchStays, SwitchFirst, GoSelect, TypeOK, kind, Job
  <2>7. CASE SelectSkip
    BY <2>1, <2>2, <2>7 DEF SelectSkip, TypeOK, kind, Priority
  <2>8. CASE SelectTake
    BY <2>1, <2>2, <2>8 DEF SelectTake, TypeOK, kind, QueueType
  <2>9. CASE Dispatch
    BY <2>1, <2>2, <2>9 DEF Dispatch, TypeOK, kind
  <2> QED BY <1>2, <2>2, <2>3, <2>4, <2>5, <2>6, <2>7, <2>8, <2>9
<1>3. CASE BoostJob
  <2>1. at.job \in Threads
    BY <1>3 DEF BoostJob, TypeOK, Job
  <2>2. q' \in QueueType /\ SetHeads(q')
    <3>1. q \in QueueType /\ SetHeads(q)
      BY DEF TypeOK, HeadsSet, SetHeads
    <3> QED BY <1>0, <1>3, <2>1, <3>1, Relinked DEF BoostJob
  <2>3. at' \in [queue : Priority, job : Job]
    BY <1>3, <2>1, <2>2, Zenon DEF BoostJob, TypeOK, QueueType
  <2> QED BY <1>3, <2>1, <2>2, <2>3 DEF BoostJob, TypeOK, kind, HeadsSet, SetHeads
<1>4. CASE SwitchDead \/ SwitchExpired
  <2>1. runningJob \in Threads
    BY <1>4 DEF SwitchDead, SwitchExpired, Expired, TypeOK, Job
  <2>2. NextPriority(runningJob) \in Priority
    BY <2>1 DEF NextPriority, TypeOK, QueueType, Priority
  <2>3. q' \in QueueType /\ SetHeads(q')
    BY <1>4, <2>1, <2>2, Relinked DEF SwitchDead, SwitchExpired
  <2>4. HeadsSet'
    BY <2>3 DEF HeadsSet, SetHeads
  <2>5. CASE SwitchDead
    BY <1>0, <2>1, <2>3, <2>4, <2>5 DEF SwitchDead, GoSelect, TypeOK, kind, Job
  <2>6. CASE SwitchExpired
    BY <1>0, <2>1, <2>3, <2>4, <2>6 DEF SwitchExpired, GoSelect, TypeOK, kind, Job
  <2> QED BY <1>4, <2>5, <2>6
<1>5. CASE SelectAgain \/ Spin
  <2>1. at.queue \in Priority /\ q.head[at.queue] \in Job
    BY DEF TypeOK, QueueType
  <2>2. q' \in QueueType /\ SetHeads(q')
    <3>1. q \in QueueType /\ SetHeads(q)
      BY DEF TypeOK, HeadsSet, SetHeads
    <3>2. runningJob \in Threads \/ runningJob = Null
      BY DEF TypeOK, Job
    <3> QED BY <1>5, <2>1, <3>1, <3>2, Relinked DEF SelectAgain, Spin, RemoveRunning
  <2> QED BY <1>5, <2>1, <2>2, Zenon
          DEF SelectAgain, Spin, RemoveRunning, TypeOK, kind, HeadsSet, SetHeads
<1>6. CASE UNCHANGED vars
  BY <1>6 DEF vars, TypeOK, HeadsSet
<1> QED BY <1>1, <1>2, <1>3, <1>4, <1>5, <1>6 DEF Next, BootStep, Handler

\* Every step keeps what is known about who runs, and for how long.
LEMMA StepRunner ==
  ASSUME IInv, [Next]_vars
  PROVE  Runner' /\ Overtime' /\ OnlyCurrentRuns'
<1> USE SchedulerConstants DEF IInv, TypeOK, Job, kind,
      Runner, Nobody, Alive, Overtime, OnlyCurrentRuns
<1>1. CASE CreateThread
  BY <1>1 DEF CreateThread
<1>2. CASE StartTimer
  BY <1>2 DEF StartTimer
<1>3. CASE Interrupt
  BY <1>3 DEF Interrupt
<1>4. CASE Exit
  BY <1>4 DEF Exit
<1>5. CASE SchedulerTime
  BY <1>5 DEF SchedulerTime
<1>6. CASE BoostJob
  BY <1>6 DEF BoostJob
<1>7. CASE BoostQueue
  BY <1>7 DEF BoostQueue
<1>8. CASE SwitchStays
  BY <1>8 DEF SwitchStays, Expired
<1>9. CASE SwitchDead
  BY <1>9 DEF SwitchDead, GoSelect
<1>10. CASE SwitchExpired
  BY <1>10 DEF SwitchExpired, Expired, GoSelect
<1>11. CASE SwitchFirst
  BY <1>11 DEF SwitchFirst, GoSelect
<1>12. CASE SelectSkip
  BY <1>12 DEF SelectSkip
<1>13. CASE SelectTake
  BY <1>13 DEF SelectTake, HeadReady, HeadsSet, QueueType
<1>14. CASE SelectAgain
  BY <1>14 DEF SelectAgain, RemoveRunning
<1>15. CASE Spin
  BY <1>15 DEF Spin, RemoveRunning
<1>16. CASE Dispatch
  BY <1>16 DEF Dispatch
<1>17. CASE UNCHANGED vars
  BY <1>17 DEF vars
<1> QED BY <1>1, <1>2, <1>3, <1>4, <1>5, <1>6, <1>7, <1>8,
          <1>9, <1>10, <1>11, <1>12, <1>13, <1>14, <1>15, <1>16, <1>17, Zenon DEF Next, BootStep, Handler

\* Every step keeps what the search of the queues has established.
LEMMA StepSearched ==
  ASSUME IInv, [Next]_vars
  PROVE  Searched'
<1> USE SchedulerConstants DEF IInv, Searched
<1>1. CASE CreateThread
  BY <1>1 DEF CreateThread
<1>2. CASE StartTimer
  BY <1>2 DEF StartTimer, Runner
<1>3. CASE Interrupt \/ Exit \/ SchedulerTime \/ BoostJob \/ BoostQueue
  BY <1>3 DEF Interrupt, Exit, SchedulerTime, BoostJob, BoostQueue
<1>4. CASE SwitchStays
  BY <1>4 DEF SwitchStays
<1>5. CASE SwitchDead \/ SwitchExpired \/ SwitchFirst
  <2>1. pc' = "select" /\ at'.queue = 0
    BY <1>5 DEF SwitchDead, SwitchExpired, SwitchFirst, GoSelect
  <2>2. \A p \in Priority : ~(p < 0)
    BY DEF Priority
  <2> QED BY <2>1, <2>2
<1>6. CASE SelectSkip
  <2>1. at.queue \in Priority /\ at \in [queue : Priority, job : Job] /\ pc = "select" /\ q' = q
    BY <1>6 DEF TypeOK, SelectSkip
  <2>2. \A p \in Priority : p < at.queue + 1 => q.isEmpty[p]
    BY <1>6, <2>1 DEF SelectSkip, Priority
  <2>3. CASE at.queue = Queues - 1
    <3>1. \A p \in Priority : q.isEmpty[p]
      BY <2>2, <2>3 DEF Priority
    <3> QED BY <1>6, <2>1, <2>3, <3>1 DEF SelectSkip
  <2>4. CASE at.queue # Queues - 1
    <3>1. pc' = "select" /\ at'.queue = at.queue + 1
      BY <1>6, <2>1, <2>4 DEF SelectSkip
    <3> QED BY <2>1, <2>2, <3>1
  <2> QED BY <2>3, <2>4
<1>7. CASE SelectTake
  <2>1. at.queue \in Priority
    BY DEF TypeOK
  <2> QED BY <1>7, <2>1 DEF SelectTake, HeadsSet
<1>8. CASE SelectAgain \/ Spin
  BY <1>8 DEF SelectAgain, Spin, RemoveRunning
<1>9. CASE Dispatch
  BY <1>9 DEF Dispatch, TypeOK
<1>10. CASE UNCHANGED vars
  BY <1>10 DEF vars
<1> QED BY <1>1, <1>2, <1>3, <1>4, <1>5, <1>6, <1>7, <1>8, <1>9, <1>10, Zenon
        DEF Next, BootStep, Handler

LEMMA Invariant == Spec => []IInv
<1>1. IInv /\ [Next]_vars => IInv'
  BY StepTypes, StepRunner, StepSearched DEF IInv
<1> QED BY <1>1, InitInvariant, PTL DEF Spec

-------------------------------------------------------------------------------
\* Types: every job has the priority of a queue that exists, however often it is
\* demoted and boosted.
THEOREM SchedulerTypes == Spec => []TypeOK
<1>1. IInv => TypeOK
  BY DEF IInv
<1> QED BY <1>1, Invariant, PTL

\* Scheduler and processor always agree about who runs: taskingSwitch, the timer
\* interrupt and exit leave no second RUNNING thread, whatever the lists say.
THEOREM RunnerAlwaysAgreed == Spec => []RunnerAgreed
<1>1. IInv => RunnerAgreed
  BY DEF IInv, Runner, Nobody, OnlyCurrentRuns, RunnerAgreed
<1> QED BY <1>1, Invariant, PTL

\* No thread runs on with its allotment used up: schedulerSchedule resets the time
\* of a job at the first interrupt that finds it over the allotment.
THEOREM SlicesAlwaysBounded == Spec => []SliceBounded
<1>1. IInv => SliceBounded
  <2> SUFFICES ASSUME IInv, pc = "run", NEW t \in Threads PROVE time[t] <= Allotment
    BY Zenon DEF SliceBounded
  <2>1. ~(time[t] > Allotment)
    BY DEF IInv, Overtime
  <2>2. time[t] \in Nat /\ Allotment \in Nat
    BY SchedulerConstants DEF IInv, TypeOK
  <2> QED BY <2>1, <2>2
<1> QED BY <1>1, Invariant, PTL

\* A thread that exited is never made READY or RUNNING again, although its job may
\* stay linked in a queue, and taskingSwitch returns into it only with every queue
\* empty.
THEOREM ExitedAlwaysGone == Spec => ExitedGone
<1>1. ASSUME IInv, [Next]_vars
      PROVE  [\A t \in Threads : status[t] = "DEAD" => status'[t] = "DEAD"]_vars
  <2> SUFFICES ASSUME Next, NEW t \in Threads, status[t] = "DEAD" PROVE status'[t] = "DEAD"
    BY <1>1
  <2> USE <1>1 DEF IInv, TypeOK
  <2>1. CASE CreateThread
    BY <2>1 DEF CreateThread, Runner
  <2>2. CASE Exit
    BY <2>2 DEF Exit
  <2>3. CASE SwitchExpired
    BY <2>3 DEF SwitchExpired, Expired
  <2>4. CASE Dispatch
    BY <2>4 DEF Dispatch, Runner, Nobody, Alive
  <2>5. CASE StartTimer \/ Interrupt \/ SchedulerTime \/ BoostJob \/ BoostQueue
    BY <2>5 DEF StartTimer, Interrupt, SchedulerTime, BoostJob, BoostQueue
  <2>6. CASE SwitchStays \/ SwitchDead \/ SwitchFirst
    BY <2>6 DEF SwitchStays, SwitchDead, SwitchFirst
  <2>7. CASE SelectSkip \/ SelectTake \/ SelectAgain \/ Spin
    BY <2>7 DEF SelectSkip, SelectTake, SelectAgain, Spin
  <2> QED BY <2>1, <2>2, <2>3, <2>4, <2>5, <2>6, <2>7 DEF Next, BootStep, Handler
<1>2. IInv => (pc = "run" /\ current # Null /\ status[current] = "DEAD" =>
                 \A p \in Priority : q.isEmpty[p])
  BY DEF IInv, Runner, Nobody, Searched
<1> QED BY <1>1, <1>2, Invariant, PTL DEF Spec, ExitedGone

-------------------------------------------------------------------------------
(* Kernel threads only: the pointers implement a line.                     *)

\* Queue 0 of l is the line s, linked both ways, and the other queues are empty.
IsLine(l, s) ==
  /\ s \in Seq(Threads)
  /\ \A i, j \in 1..Len(s) : s[i] = s[j] => i = j
  /\ l.head[0] = IF Len(s) = 0 THEN Null ELSE s[1]
  /\ l.tail[0] = IF Len(s) = 0 THEN Null ELSE s[Len(s)]
  /\ l.isEmpty[0] <=> Len(s) = 0
  /\ \A i \in 1..Len(s) :
       /\ l.next[s[i]] = IF i = Len(s) THEN Null ELSE s[i + 1]
       /\ l.prev[s[i]] = IF i = 1 THEN Null ELSE s[i - 1]
       /\ l.priority[s[i]] = 0
  /\ \A p \in Priority \ {0} : l.head[p] = Null /\ l.isEmpty[p]

\* f[n] is the walk over the first n jobs of queue 0.
IsWalk(f, l) ==
  f = [n \in 0..Cardinality(Threads) |->
         IF n = 0 THEN [line |-> <<>>, job |-> l.head[0]]
         ELSE LET w == f[n - 1]
              IN  IF w.job = Null THEN w
                  ELSE [line |-> Append(w.line, w.job), job |-> l.next[w.job]]]

\* What the walk over n jobs of the line s has passed, and where it is then.
Passed(s, n) ==
  [line |-> IF n <= Len(s) THEN SubSeq(s, 1, n) ELSE s,
   job |-> IF n < Len(s) THEN s[n + 1] ELSE Null]

\* A line has no more threads than there are.
LEMMA LineFits ==
  ASSUME NEW s \in Seq(Threads), \A i, j \in 1..Len(s) : s[i] = s[j] => i = j
  PROVE  Cardinality(Threads) \in Nat /\ Len(s) <= Cardinality(Threads)
<1>1. s \in Injection(1..Len(s), Threads)
  BY DEF Injection, IsInjective
<1>2. Cardinality(1..Len(s)) = Len(s)
  <2> DEFINE n == Len(s)
  <2>1. n \in Nat /\ n \in Int /\ 1 \in Int OBVIOUS
  <2> HIDE DEF n
  <2>2. Cardinality(1..n) = IF 1 > n THEN 0 ELSE n - 1 + 1
    BY <2>1, FS_Interval, Zenon
  <2>3. Cardinality(1..n) = n BY <2>1, <2>2
  <2> QED BY <2>3 DEF n
<1>3. Cardinality(Threads) \in Nat
  BY FiniteThreads, FS_CardinalityType
<1> QED BY <1>1, <1>2, <1>3, FiniteThreads, FS_Injection

\* One job further along next.
LEMMA PassedOn ==
  ASSUME NEW l, NEW s, IsLine(l, s), NEW n \in Nat
  PROVE  /\ Passed(s, 0) = [line |-> <<>>, job |-> l.head[0]]
         /\ Passed(s, n + 1) =
              IF Passed(s, n).job = Null THEN Passed(s, n)
              ELSE [line |-> Append(Passed(s, n).line, Passed(s, n).job),
                    job |-> l.next[Passed(s, n).job]]
<1>0. s \in Seq(Threads) /\ Len(s) \in Nat
  BY DEF IsLine
<1>1. Passed(s, 0) = [line |-> <<>>, job |-> l.head[0]]
  <2>1. SubSeq(s, 1, 0) = <<>> BY <1>0
  <2>2. l.head[0] = IF 0 < Len(s) THEN s[0 + 1] ELSE Null BY <1>0 DEF IsLine
  <2> QED BY <1>0, <2>1, <2>2 DEF Passed
<1>2. CASE n < Len(s)
  <2>1. s[n + 1] \in Threads /\ s[n + 1] # Null
    BY <1>0, <1>2, SchedulerConstants
  <2>2. SubSeq(s, 1, n + 1) = Append(SubSeq(s, 1, n), s[n + 1])
    BY <1>0, <1>2
  <2>3. l.next[s[n + 1]] = IF n + 1 < Len(s) THEN s[(n + 1) + 1] ELSE Null
    BY <1>0, <1>2 DEF IsLine
  <2>4. Passed(s, n) = [line |-> SubSeq(s, 1, n), job |-> s[n + 1]]
    BY <1>0, <1>2 DEF Passed
  <2>5. Passed(s, n + 1) = [line |-> SubSeq(s, 1, n + 1), job |-> l.next[s[n + 1]]]
    BY <1>0, <1>2, <2>3 DEF Passed
  <2>6. Passed(s, n).line = SubSeq(s, 1, n) /\ Passed(s, n).job = s[n + 1]
    BY <2>4
  <2>7. Passed(s, n + 1) = [line |-> Append(Passed(s, n).line, Passed(s, n).job),
                            job |-> l.next[Passed(s, n).job]]
    BY <2>2, <2>5, <2>6, Zenon
  <2> QED BY <1>1, <2>1, <2>6, <2>7, Zenon
<1>3. CASE n >= Len(s)
  <2>1. SubSeq(s, 1, Len(s)) = s BY <1>0
  <2>2. Passed(s, n) = [line |-> s, job |-> Null]
    BY <1>0, <1>3, <2>1 DEF Passed
  <2>3. Passed(s, n + 1) = [line |-> s, job |-> Null]
    BY <1>0, <1>3 DEF Passed
  <2> QED BY <1>1, <2>2, <2>3
<1> QED BY <1>0, <1>2, <1>3

\* Walking a line from its head to its end gives that line.
LEMMA WalkIs ==
  ASSUME NEW l, NEW s, IsLine(l, s)
  PROVE  Walk(l) = [line |-> s, job |-> Null]
<1> DEFINE N == Cardinality(Threads)
<1>0. s \in Seq(Threads) /\ Len(s) \in Nat /\ N \in Nat /\ Len(s) <= N
  BY LineFits DEF IsLine
<1> DEFINE g == [n \in 0..N |-> Passed(s, n)]
           f == CHOOSE x : IsWalk(x, l)
<1>1. IsWalk(g, l)
  <2> DEFINE Step(n) == IF n = 0 THEN [line |-> <<>>, job |-> l.head[0]]
                        ELSE LET w == g[n - 1]
                             IN  IF w.job = Null THEN w
                                 ELSE [line |-> Append(w.line, w.job), job |-> l.next[w.job]]
  <2>1. ASSUME NEW n \in 0..N PROVE g[n] = Step(n)
    <3>1. CASE n = 0
      BY <1>0, <3>1, PassedOn, Zenon
    <3>2. CASE n # 0
      <4>1. n - 1 \in Nat /\ n - 1 \in 0..N /\ (n - 1) + 1 = n BY <1>0, <3>2
      <4>2. g[n] = Passed(s, n) /\ g[n - 1] = Passed(s, n - 1) BY <4>1
      <4>3. Passed(s, (n - 1) + 1) =
              IF Passed(s, n - 1).job = Null THEN Passed(s, n - 1)
              ELSE [line |-> Append(Passed(s, n - 1).line, Passed(s, n - 1).job),
                    job |-> l.next[Passed(s, n - 1).job]]
        BY <4>1, PassedOn
      <4> QED BY <3>2, <4>1, <4>2, <4>3
    <3> QED BY <3>1, <3>2, ZenonT(30)
  <2>2. g = [n \in 0..N |-> Step(n)]
    <3> HIDE DEF Step
    <3> QED BY <2>1
  <2> QED BY <2>2, Zenon DEF IsWalk
<1>2. IsWalk(f, l)
  BY <1>1, Zenon
<1>3. Walk(l) = f[N]
  BY Zenon DEF Walk, IsWalk
<1> HIDE DEF f, g
<1> DEFINE S == {n \in Nat : n <= N => f[n] = Passed(s, n)}
<1>4. 0 \in S
  <2>1. 0 \in 0..N BY <1>0
  <2>2. f[0] = [line |-> <<>>, job |-> l.head[0]] BY <1>2, <2>1 DEF IsWalk
  <2>3. Passed(s, 0) = [line |-> <<>>, job |-> l.head[0]] BY PassedOn, Zenon
  <2> QED BY <2>2, <2>3
<1>5. ASSUME NEW n \in Nat, n \in S PROVE n + 1 \in S
  <2> SUFFICES ASSUME n + 1 <= N PROVE f[n + 1] = Passed(s, n + 1)
    OBVIOUS
  <2>1. n + 1 \in 0..N /\ n + 1 # 0 /\ (n + 1) - 1 = n /\ f[n] = Passed(s, n)
    BY <1>0, <1>5
  <2>2. f[n + 1] = IF f[n].job = Null THEN f[n]
                   ELSE [line |-> Append(f[n].line, f[n].job), job |-> l.next[f[n].job]]
    BY <1>2, <2>1, ZenonT(30) DEF IsWalk
  <2> QED BY <2>1, <2>2, PassedOn
<1> HIDE DEF S
<1>6. Nat \subseteq S
  BY <1>4, <1>5, Induct
<1>7. f[N] = Passed(s, N)
  BY <1>0, <1>6 DEF S
<1>8. Passed(s, N) = [line |-> s, job |-> Null]
  <2>1. SubSeq(s, 1, Len(s)) = s BY <1>0
  <2> QED BY <1>0, <2>1 DEF Passed
<1> QED BY <1>3, <1>7, <1>8

\* A line is what the abstract line is.
LEMMA LineIs ==
  ASSUME NEW l, NEW s, IsLine(l, s)
  PROVE  LineOf(l) = s
<1>1. Walk(l) = [line |-> s, job |-> Null]
  BY WalkIs
<1>2. WellFormed(l, [line |-> s, job |-> Null])
  <2>1. s = <<>> <=> Len(s) = 0 BY DEF IsLine
  <2> QED BY <2>1 DEF WellFormed, IsLine
<1> QED BY <1>1, <1>2 DEF LineOf

\* schedulerAddJob on queue 0 puts a job that is not in the line at its back.
LEMMA AddLine ==
  ASSUME NEW l \in QueueType, NEW s, IsLine(l, s), NEW t \in Threads,
         \A i \in 1..Len(s) : s[i] # t
  PROVE  IsLine(AddJob(l, t, 0), Append(s, t))
<1> DEFINE n == Len(s)  r == AddJob(l, t, 0)  u == Append(s, t)
<1>0. s \in Seq(Threads) /\ n \in Nat /\ 0 \in Priority
  BY SchedulerConstants DEF IsLine, Priority
<1>1. u \in Seq(Threads) /\ Len(u) = n + 1 /\ u[n + 1] = t /\ \A i \in 1..n : u[i] = s[i]
  BY <1>0
<1>2. \A i \in 1..n : s[i] \in Threads /\ s[i] # Null
  BY <1>0, SchedulerConstants
<1>3. \A i, j \in 1..Len(u) : u[i] = u[j] => i = j
  <2>1. \A i, j \in 1..n : s[i] = s[j] => i = j BY DEF IsLine
  <2>2. \A i \in 1..Len(u) : i \in 1..n \/ i = n + 1 BY <1>0, <1>1
  <2>3. \A i \in 1..n : s[i] # t OBVIOUS
  <2> HIDE DEF n, u
  <2> QED BY <1>1, <2>1, <2>2, <2>3
<1>4. /\ r.head = [l.head EXCEPT ![0] = IF @ = Null THEN t ELSE @]
      /\ r.tail = [l.tail EXCEPT ![0] = t]
      /\ r.isEmpty = [l.isEmpty EXCEPT ![0] = FALSE]
      /\ r.prev = [l.prev EXCEPT ![t] = l.tail[0]]
      /\ r.priority = [l.priority EXCEPT ![t] = 0]
      /\ r.next = IF l.tail[0] = Null THEN [l.next EXCEPT ![t] = Null]
                  ELSE [[l.next EXCEPT ![t] = Null] EXCEPT ![l.tail[0]] = t]
  BY DEF AddJob
<1>5. /\ l.head \in [Priority -> Job] /\ l.tail \in [Priority -> Job]
      /\ l.isEmpty \in [Priority -> BOOLEAN] /\ l.priority \in [Threads -> Priority]
      /\ l.prev \in [Threads -> Job] /\ l.next \in [Threads -> Job]
  BY DEF QueueType
<1>6. /\ l.head[0] = IF n = 0 THEN Null ELSE s[1]
      /\ l.tail[0] = IF n = 0 THEN Null ELSE s[n]
  BY DEF IsLine
<1> HIDE DEF r, u
<1>7. r.head[0] = u[1] /\ r.tail[0] = u[n + 1] /\ r.isEmpty[0] = FALSE
  BY <1>0, <1>1, <1>2, <1>4, <1>5, <1>6
<1>8. ASSUME NEW i \in 1..(n + 1)
      PROVE  /\ r.next[u[i]] = IF i = n + 1 THEN Null ELSE u[i + 1]
             /\ r.prev[u[i]] = IF i = 1 THEN Null ELSE u[i - 1]
             /\ r.priority[u[i]] = 0
  <2>1. CASE i = n + 1
    <3>1. l.tail[0] # t BY <1>0, <1>6, SchedulerConstants
    <3>2. r.next[t] = Null BY <1>4, <1>5, <3>1
    <3>3. r.prev[t] = l.tail[0] /\ r.priority[t] = 0 BY <1>4, <1>5
    <3> QED BY <1>0, <1>1, <1>6, <2>1, <3>2, <3>3
  <2>2. CASE i \in 1..n
    <3>1. u[i] = s[i] /\ s[i] \in Threads /\ s[i] # t /\ s[i] # Null
      BY <1>1, <1>2, <2>2
    <3>2. r.prev[s[i]] = l.prev[s[i]] /\ r.priority[s[i]] = l.priority[s[i]]
      BY <1>4, <1>5, <3>1
    <3>3. /\ l.next[s[i]] = IF i = n THEN Null ELSE s[i + 1]
          /\ l.prev[s[i]] = IF i = 1 THEN Null ELSE s[i - 1]
          /\ l.priority[s[i]] = 0
      BY <2>2 DEF IsLine
    <3>4. CASE i = n
      <4>1. l.tail[0] = s[i] BY <1>0, <1>6, <2>2, <3>4
      <4>2. r.next[s[i]] = t BY <1>4, <1>5, <3>1, <4>1
      <4> QED BY <1>0, <1>1, <2>2, <3>1, <3>2, <3>3, <3>4, <4>2
    <3>5. CASE i # n
      <4>1. l.tail[0] # s[i]
        <5>1. n # 0 /\ l.tail[0] = s[n] /\ n \in 1..n BY <1>0, <1>6, <2>2
        <5> QED BY <2>2, <3>5, <5>1 DEF IsLine
      <4>2. r.next[s[i]] = l.next[s[i]] BY <1>4, <1>5, <3>1, <4>1
      <4>3. i + 1 \in 1..n BY <1>0, <2>2, <3>5
      <4> QED BY <1>0, <1>1, <2>2, <3>1, <3>2, <3>3, <3>5, <4>2, <4>3
    <3> QED BY <3>4, <3>5
  <2> QED BY <1>0, <2>1, <2>2
<1>9. \A p \in Priority \ {0} : r.head[p] = Null /\ r.isEmpty[p]
  BY <1>4, <1>5 DEF IsLine
<1> QED BY <1>0, <1>1, <1>3, <1>7, <1>8, <1>9 DEF IsLine, r, u

\* schedulerRemoveJob of the job in front leaves the rest of the line.
LEMMA RemoveFront ==
  ASSUME NEW l \in QueueType, NEW s, IsLine(l, s), Len(s) # 0
  PROVE  IsLine(RemoveJob(l, s[1]), Tail(s))
<1> DEFINE n == Len(s)  r == RemoveJob(l, s[1])  u == Tail(s)
<1>0. s \in Seq(Threads) /\ n \in Nat /\ n # 0 /\ 1 \in 1..n /\ s # <<>> /\ 0 \in Priority
  BY SchedulerConstants DEF IsLine, Priority
<1>1. u \in Seq(Threads) /\ Len(u) = n - 1 /\ \A i \in 1..(n - 1) : u[i] = s[i + 1]
  BY <1>0
<1>2. \A i \in 1..n : s[i] \in Threads /\ s[i] # Null
  BY <1>0, SchedulerConstants
<1>3. \A i, j \in 1..Len(u) : u[i] = u[j] => i = j
  <2>1. \A i, j \in 1..n : s[i] = s[j] => i = j BY DEF IsLine
  <2>2. \A i \in 1..Len(u) : i + 1 \in 1..n /\ u[i] = s[i + 1] BY <1>0, <1>1
  <2> HIDE DEF n, u
  <2> QED BY <2>1, <2>2
<1>4. /\ l.head \in [Priority -> Job] /\ l.tail \in [Priority -> Job]
      /\ l.isEmpty \in [Priority -> BOOLEAN] /\ l.priority \in [Threads -> Priority]
      /\ l.prev \in [Threads -> Job] /\ l.next \in [Threads -> Job]
  BY DEF QueueType
<1>5. /\ l.priority[s[1]] = 0 /\ l.prev[s[1]] = Null
      /\ l.next[s[1]] = IF n = 1 THEN Null ELSE s[2]
  <2>1. /\ l.next[s[1]] = IF 1 = n THEN Null ELSE s[1 + 1]
        /\ l.prev[s[1]] = IF 1 = 1 THEN Null ELSE s[1 - 1]
        /\ l.priority[s[1]] = 0
    BY <1>0, ZenonT(30) DEF IsLine
  <2> QED BY <2>1
<1>6. /\ r.head = [l.head EXCEPT ![0] = l.next[s[1]]]
      /\ r.tail = [l.tail EXCEPT ![0] = IF l.next[s[1]] = Null THEN Null ELSE @]
      /\ r.isEmpty = [l.isEmpty EXCEPT ![0] = IF l.next[s[1]] = Null THEN TRUE ELSE @]
      /\ r.prev = IF l.next[s[1]] = Null THEN l.prev ELSE [l.prev EXCEPT ![l.next[s[1]]] = Null]
      /\ r.next = l.next
      /\ r.priority = l.priority
  BY <1>5, Zenon DEF RemoveJob
<1>7. l.tail[0] = s[n] /\ ~l.isEmpty[0]
  BY <1>0 DEF IsLine
<1> HIDE DEF n, r, u
<1>8. \A p \in Priority \ {0} : r.head[p] = Null /\ r.isEmpty[p]
  BY <1>4, <1>6 DEF IsLine
<1>9. CASE n = 1
  <2>1. Len(u) = 0 BY <1>1, <1>9
  <2>2. r.head[0] = Null /\ r.tail[0] = Null /\ r.isEmpty[0]
    BY <1>0, <1>4, <1>5, <1>6, <1>9
  <2>3. 1..Len(u) = {} BY <2>1
  <2>4. IsLine(r, u) BY <1>1, <1>3, <1>8, <2>1, <2>2, <2>3, Zenon DEF IsLine
  <2> QED BY <2>4 DEF r, u
<1>10. CASE n # 1
  <2>0. n > 1 /\ 2 \in 1..n /\ 1 \in 1..(n - 1) /\ n - 1 \in 1..(n - 1) BY <1>0, <1>10
  <2>1. l.next[s[1]] = s[2] /\ s[2] # Null /\ s[2] \in Threads BY <1>2, <1>5, <1>10, <2>0
  <2>2. r.head[0] = u[1] /\ r.tail[0] = u[n - 1] /\ ~r.isEmpty[0]
    BY <1>0, <1>1, <1>4, <1>6, <1>7, <2>0, <2>1
  <2>3. ASSUME NEW i \in 1..(n - 1)
        PROVE  /\ r.next[u[i]] = IF i = n - 1 THEN Null ELSE u[i + 1]
               /\ r.prev[u[i]] = IF i = 1 THEN Null ELSE u[i - 1]
               /\ r.priority[u[i]] = 0
    <3>1. i + 1 \in 1..n /\ u[i] = s[i + 1] /\ s[i + 1] \in Threads BY <1>0, <1>1, <1>2
    <3>2. /\ l.next[s[i + 1]] = IF i + 1 = n THEN Null ELSE s[(i + 1) + 1]
          /\ l.prev[s[i + 1]] = s[i]
          /\ l.priority[s[i + 1]] = 0
      <4>1. i + 1 # 1 /\ (i + 1) - 1 = i OBVIOUS
      <4> QED BY <3>1, <4>1 DEF IsLine, n
    <3>3. r.next[u[i]] = IF i = n - 1 THEN Null ELSE u[i + 1]
      <4>1. CASE i = n - 1 BY <1>0, <1>6, <3>1, <3>2, <4>1
      <4>2. CASE i # n - 1
        <5>1. i + 1 # n /\ i + 1 \in 1..(n - 1) BY <1>0, <4>2
        <5> QED BY <1>1, <1>6, <3>1, <3>2, <4>2, <5>1
      <4> QED BY <4>1, <4>2
    <3>4. r.prev[u[i]] = IF i = 1 THEN Null ELSE u[i - 1]
      <4>1. CASE i = 1 BY <1>4, <1>6, <2>1, <3>1, <4>1
      <4>2. CASE i # 1
        <5>1. i - 1 \in 1..(n - 1) /\ (i - 1) + 1 = i /\ i + 1 # 2 BY <1>0, <4>2
        <5>2. s[i + 1] # s[2] BY <2>0, <3>1, <5>1 DEF IsLine, n
        <5>3. r.prev[s[i + 1]] = l.prev[s[i + 1]] BY <1>4, <1>6, <2>1, <3>1, <5>2
        <5> QED BY <1>1, <3>1, <3>2, <4>2, <5>1, <5>3
      <4> QED BY <4>1, <4>2
    <3> QED BY <1>6, <3>1, <3>2, <3>3, <3>4
  <2>4. Len(u) # 0 BY <1>1, <2>0
  <2>5. IsLine(r, u) BY <1>1, <1>3, <1>8, <2>2, <2>3, <2>4 DEF IsLine
  <2> QED BY <2>5 DEF r, u
<1> QED BY <1>9, <1>10

\* Taken out and added to queue 0 again, the job in front is at the back.
LEMMA ToBack ==
  ASSUME NEW l \in QueueType, SetHeads(l), NEW s, IsLine(l, s), Len(s) # 0
  PROVE  IsLine(AddJob(RemoveJob(l, s[1]), s[1], 0), Append(Tail(s), s[1]))
<1> DEFINE r == RemoveJob(l, s[1])  u == Tail(s)
<1>0. s \in Seq(Threads) /\ Len(s) \in Nat /\ 1 \in 1..Len(s) /\ s # <<>>
  BY DEF IsLine
<1>1. s[1] \in Threads BY <1>0
<1>2. r \in QueueType BY <1>1, RemoveKeeps
<1>3. IsLine(r, u) BY RemoveFront
<1>4. \A i \in 1..Len(u) : u[i] # s[1]
  <2>1. Len(u) = Len(s) - 1 /\ \A i \in 1..Len(u) : u[i] = s[i + 1] BY <1>0
  <2>2. \A i \in 1..Len(u) : i + 1 \in 1..Len(s) /\ i + 1 # 1 BY <1>0, <2>1
  <2>3. \A i, j \in 1..Len(s) : s[i] = s[j] => i = j BY DEF IsLine
  <2> HIDE DEF u
  <2> QED BY <1>0, <2>1, <2>2, <2>3
<1> HIDE DEF r, u
<1>5. IsLine(AddJob(r, s[1], 0), Append(u, s[1])) BY <1>1, <1>2, <1>3, <1>4, AddLine
<1> QED BY <1>5 DEF r, u

-------------------------------------------------------------------------------
\* The threads that are still to be created are new ones.
BootsNew ==
  /\ \A i, j \in 1..Len(boot) : boot[i].thread = boot[j].thread => i = j
  /\ \A i \in 1..Len(boot) : privilege[boot[i].thread] = "NONE"

\* The line s is in queue 0, and where the kernel is with it.
Lined(s) ==
  /\ IsLine(q, s)
  /\ \A i \in 1..Len(s) : privilege[s[i]] = "KERNEL" /\ Alive(s[i])
  /\ \A i \in 1..Len(boot), j \in 1..Len(s) : boot[i].thread # s[j]
  /\ runningJob # Null => Len(s) # 0 /\ (pc # "select" => runningJob = s[1])
  /\ pc = "select" => /\ Len(s) # 0 => at.queue = 0
                      /\ \A t \in Threads : status[t] # "RUNNING"
  /\ pc = "boost" /\ at.queue # 0 => at.job = Null
  /\ pc # "spin" /\ pc # "fault"
  /\ \A t \in Threads : status[t] # "DEAD"

LInv == IInv /\ BootsNew /\ (~UserThreads => \E s : Lined(s))

LEMMA InitLined == Init => LInv /\ (~UserThreads => Lined(<<>>))
<1> SUFFICES ASSUME Init PROVE LInv /\ (~UserThreads => Lined(<<>>))
  OBVIOUS
<1>1. IInv BY InitInvariant
<1>2. BootsNew
  <2> DEFINE New == [thread : Threads, privilege : {"KERNEL", "USER"}]
  <2>1. boot \in Boots /\ boot \in Seq(New)
    BY <1>1 DEF Init, IInv, TypeOK
  <2>2. \A i \in 1..Len(boot) : boot[i].thread \in Threads
    <3>1. \A i \in 1..Len(boot) : boot[i] \in New
      <4> HIDE DEF New
      <4> QED BY <2>1
    <3> QED BY <3>1
  <2> QED BY <2>1, <2>2, NewThreads DEF Init, BootsNew
<1>3. Lined(<<>>)
  <2>1. <<>> \in Seq(Threads) /\ Len(<<>>) = 0 /\ 1..Len(<<>>) = {} OBVIOUS
  <2>2. 0 \in Priority BY SchedulerConstants DEF Priority
  <2>3. IsLine(q, <<>>) BY <2>1, <2>2 DEF Init, IsLine
  <2> QED BY <2>1, <2>3 DEF Init, Lined
<1> QED BY <1>1, <1>2, <1>3 DEF LInv

\* Creating a thread that is new.
LEMMA NewThread ==
  ASSUME IInv, BootsNew, CreateThread
  PROVE  /\ BootsNew' /\ (UserThreads' <=> UserThreads)
         /\ Head(boot).thread \in Threads
         /\ \A i \in 1..Len(boot') : i + 1 \in 1..Len(boot) /\ boot'[i] = boot[i + 1]
         /\ 1 \in 1..Len(boot) /\ Head(boot) = boot[1]
<1> DEFINE New == [thread : Threads, privilege : {"KERNEL", "USER"}]
           t == Head(boot).thread
<1>1. boot \in Seq(New) /\ boot # <<>> /\ boot' = Tail(boot)
  BY DEF CreateThread, IInv, TypeOK
<1>2. /\ Head(boot) \in New /\ Len(boot) \in Nat /\ 1 \in 1..Len(boot) /\ Head(boot) = boot[1]
      /\ Len(boot') = Len(boot) - 1
      /\ \A i \in 1..Len(boot) : boot[i] \in New
      /\ \A i \in 1..Len(boot') : i + 1 \in 1..Len(boot) /\ i + 1 # 1 /\ boot'[i] = boot[i + 1]
  <2> HIDE DEF New
  <2> QED BY <1>1
<1>3. /\ t \in Threads /\ t = boot[1].thread
      /\ \A i \in 1..Len(boot) : boot[i].thread \in Threads
      /\ boot[1].privilege \in {"KERNEL", "USER"}
  BY <1>2
<1>4. /\ privilege \in [Threads -> {"NONE", "KERNEL", "USER"}]
      /\ privilege' = [privilege EXCEPT ![t] = boot[1].privilege]
  BY <1>2 DEF CreateThread, IInv, TypeOK
<1>5. /\ \A i, j \in 1..Len(boot) : boot[i].thread = boot[j].thread => i = j
      /\ \A i \in 1..Len(boot) : privilege[boot[i].thread] = "NONE"
  BY DEF BootsNew
<1>6. \A i \in 1..Len(boot') : boot'[i].thread \in Threads /\ boot'[i].thread # t
  BY <1>2, <1>3, <1>5, Zenon
<1>7. BootsNew'
  <2>1. \A i, j \in 1..Len(boot') : boot'[i].thread = boot'[j].thread => i = j
    <3> SUFFICES ASSUME NEW i \in 1..Len(boot'), NEW j \in 1..Len(boot'),
                        boot'[i].thread = boot'[j].thread
                 PROVE  i = j
      OBVIOUS
    <3>1. i + 1 = j + 1 BY <1>2, <1>5
    <3> QED BY <3>1
  <2>2. \A i \in 1..Len(boot') : privilege'[boot'[i].thread] = "NONE"
    BY <1>2, <1>4, <1>5, <1>6
  <2> QED BY <2>1, <2>2 DEF BootsNew
<1>8. UserThreads => UserThreads'
  <2>1. CASE \E x \in Threads : privilege[x] = "USER"
    <3>1. PICK x \in Threads : privilege[x] = "USER" BY <2>1
    <3>2. x # t BY <1>2, <1>3, <1>5, <3>1
    <3>3. privilege'[x] = "USER" BY <1>3, <1>4, <3>1, <3>2
    <3> QED BY <3>3 DEF UserThreads
  <2>2. CASE \E i \in 1..Len(boot) : boot[i].privilege = "USER"
    <3>1. PICK i \in 1..Len(boot) : boot[i].privilege = "USER" BY <2>2
    <3>2. CASE i = 1
      <4>1. privilege'[t] = "USER" BY <1>3, <1>4, <3>1, <3>2
      <4> QED BY <1>3, <4>1 DEF UserThreads
    <3>3. CASE i # 1
      <4>1. i - 1 \in 1..Len(boot') /\ (i - 1) + 1 = i BY <1>2, <3>3
      <4>2. boot'[i - 1].privilege = "USER" BY <1>2, <3>1, <4>1
      <4> QED BY <4>1, <4>2 DEF UserThreads
    <3> QED BY <3>2, <3>3
  <2> QED BY <2>1, <2>2 DEF UserThreads
<1>9. UserThreads' => UserThreads
  <2>1. CASE \E x \in Threads : privilege'[x] = "USER"
    <3>1. PICK x \in Threads : privilege'[x] = "USER" BY <2>1
    <3>2. CASE x = t
      <4>1. boot[1].privilege = "USER" BY <1>3, <1>4, <3>1, <3>2
      <4> QED BY <1>2, <4>1 DEF UserThreads
    <3>3. CASE x # t
      <4>1. privilege[x] = "USER" BY <1>3, <1>4, <3>1, <3>3
      <4> QED BY <4>1 DEF UserThreads
    <3> QED BY <3>2, <3>3
  <2>2. CASE \E i \in 1..Len(boot') : boot'[i].privilege = "USER"
    BY <1>2, <2>2, Zenon DEF UserThreads
  <2> QED BY <2>1, <2>2 DEF UserThreads
<1> QED BY <1>2, <1>3, <1>7, <1>8, <1>9

\* The privileges stay as the boot set them.
LEMMA StepBoot ==
  ASSUME IInv, BootsNew, [Next]_vars
  PROVE  BootsNew' /\ (UserThreads' <=> UserThreads)
<1>1. CASE CreateThread
  BY <1>1, NewThread
<1>2. CASE ~CreateThread
  <2>1. boot' = boot /\ privilege' = privilege
    BY <1>2 DEF Next, BootStep, Handler, StartTimer, Interrupt, Exit, SchedulerTime, BoostJob,
                BoostQueue, SwitchStays, SwitchDead, SwitchExpired, SwitchFirst, SelectSkip,
                SelectTake, SelectAgain, Spin, Dispatch, kind, vars
  <2> QED BY <2>1 DEF BootsNew, UserThreads
<1> QED BY <1>1, <1>2

\* A step of the line: it stays, with the same runner or the one in front; a new
\* thread joins it; or the runner goes from its front to its back.
LineStep(s) ==
  \/ Lined(s)' /\ (runningJob' = runningJob \/ (Len(s) # 0 /\ runningJob' = s[1]))
  \/ \E t \in Threads : Lined(Append(s, t))' /\ runningJob' = runningJob
  \/ /\ Len(s) # 0 /\ runningJob = s[1] /\ runningJob' = runningJob
     /\ Lined(Append(Tail(s), s[1]))'

LEMMA CreateLines ==
  ASSUME LInv, ~UserThreads, NEW s, Lined(s), CreateThread
  PROVE  LineStep(s)
<1>t. PICK t : t = Head(boot).thread
  OBVIOUS
<1> DEFINE u == Append(s, t)
<1>0. IInv /\ BootsNew
  BY DEF LInv
<1>1. /\ t \in Threads /\ 1 \in 1..Len(boot) /\ Head(boot) = boot[1]
      /\ \A i \in 1..Len(boot') : i + 1 \in 1..Len(boot) /\ boot'[i] = boot[i + 1]
      /\ BootsNew
  BY <1>0, <1>t, NewThread
<1>2. /\ s \in Seq(Threads) /\ IsLine(q, s)
      /\ \A i \in 1..Len(s) : privilege[s[i]] = "KERNEL" /\ Alive(s[i])
      /\ \A i \in 1..Len(boot), j \in 1..Len(s) : boot[i].thread # s[j]
      /\ \A x \in Threads : status[x] # "DEAD"
  BY DEF Lined, IsLine
<1>3. \A i \in 1..Len(s) : s[i] # t /\ s[i] \in Threads
  BY <1>1, <1>2, <1>t
<1>4. /\ pc = "boot" /\ pc' = pc /\ runningJob' = runningJob /\ at' = at /\ q' = AddJob(q, t, 0)
      /\ status' = [status EXCEPT ![t] = "READY"]
      /\ privilege' = [privilege EXCEPT ![t] = Head(boot).privilege]
  BY <1>t DEF CreateThread
<1>5. runningJob = Null
  BY <1>0, <1>4 DEF IInv, Runner, Nobody
<1>6. q \in QueueType /\ status \in [Threads -> {"NONE", "READY", "RUNNING", "DEAD"}]
      /\ privilege \in [Threads -> {"NONE", "KERNEL", "USER"}]
  BY <1>0 DEF IInv, TypeOK
<1>7. Head(boot).privilege = "KERNEL"
  <2> DEFINE New == [thread : Threads, privilege : {"KERNEL", "USER"}]
  <2>1. boot[1] \in New
    <3>1. boot \in Seq(New) BY <1>0 DEF IInv, TypeOK
    <3> HIDE DEF New
    <3> QED BY <1>1, <3>1
  <2>2. boot[1].privilege \in {"KERNEL", "USER"} BY <2>1
  <2> QED BY <1>1, <2>2 DEF UserThreads
<1>8. IsLine(q', u)
  BY <1>1, <1>2, <1>3, <1>4, <1>6, AddLine
<1>9. Len(u) = Len(s) + 1 /\ u[Len(s) + 1] = t /\ \A i \in 1..Len(s) : u[i] = s[i]
  BY <1>1, <1>2
<1>10. \A i \in 1..Len(u) : i \in 1..Len(s) \/ u[i] = t
  BY <1>2, <1>9
<1> HIDE DEF u
<1>11. \A i \in 1..Len(u) : privilege'[u[i]] = "KERNEL" /\ Alive(u[i])'
  <2> SUFFICES ASSUME NEW i \in 1..Len(u) PROVE privilege'[u[i]] = "KERNEL" /\ Alive(u[i])'
    OBVIOUS
  <2>1. CASE u[i] = t
    BY <1>1, <1>4, <1>6, <1>7, <2>1 DEF Alive
  <2>2. CASE i \in 1..Len(s)
    BY <1>1, <1>2, <1>3, <1>4, <1>6, <1>9, <2>2 DEF Alive
  <2> QED BY <1>10, <2>1, <2>2
<1>12. \A i \in 1..Len(boot'), j \in 1..Len(u) : boot'[i].thread # u[j]
  <2> SUFFICES ASSUME NEW i \in 1..Len(boot'), NEW j \in 1..Len(u) PROVE boot'[i].thread # u[j]
    OBVIOUS
  <2>0. i + 1 \in 1..Len(boot) /\ boot'[i] = boot[i + 1] /\ i + 1 # 1
    BY <1>1
  <2>1. CASE u[j] = t
    BY <1>1, <1>t, <2>0, <2>1 DEF BootsNew
  <2>2. CASE j \in 1..Len(s)
    BY <1>2, <1>9, <2>0, <2>2
  <2> QED BY <1>10, <2>1, <2>2
<1>13. \A x \in Threads : status'[x] # "DEAD"
  BY <1>1, <1>2, <1>4, <1>6
<1>14. Lined(u)'
  BY <1>4, <1>5, <1>8, <1>11, <1>12, <1>13 DEF Lined
<1> QED BY <1>1, <1>4, <1>14 DEF LineStep, u

LEMMA ExpiredLines ==
  ASSUME LInv, ~UserThreads, NEW s, Lined(s), SwitchExpired
  PROVE  LineStep(s)
<1> DEFINE t == s[1]  u == Append(Tail(s), t)
<1>0. IInv /\ BootsNew
  BY DEF LInv
<1>1. /\ s \in Seq(Threads) /\ IsLine(q, s)
      /\ \A i \in 1..Len(s) : privilege[s[i]] = "KERNEL" /\ Alive(s[i])
      /\ \A i \in 1..Len(boot), j \in 1..Len(s) : boot[i].thread # s[j]
      /\ \A x \in Threads : status[x] # "DEAD"
      /\ \A i \in 1..Len(s) : q.priority[s[i]] = 0
  BY DEF Lined, IsLine
<1>2. runningJob # Null /\ runningJob = t /\ Len(s) # 0
  BY DEF Lined, SwitchExpired, Expired
<1>3. 1 \in 1..Len(s) /\ t \in Threads /\ s # <<>>
  BY <1>1, <1>2
<1>4. NextPriority(t) = 0
  BY <1>1, <1>3 DEF NextPriority, Kernel
<1>5. /\ q' = AddJob(RemoveJob(q, t), t, 0) /\ status' = [status EXCEPT ![t] = "READY"]
      /\ runningJob' = runningJob /\ pc' = "select" /\ at' = [queue |-> 0, job |-> Null]
      /\ boot' = boot /\ privilege' = privilege
  BY <1>2, <1>4 DEF SwitchExpired, GoSelect, kind
<1>6. /\ q \in QueueType /\ SetHeads(q)
      /\ status \in [Threads -> {"NONE", "READY", "RUNNING", "DEAD"}]
  BY <1>0 DEF IInv, TypeOK, HeadsSet, SetHeads
<1>7. IsLine(q', u)
  BY <1>1, <1>2, <1>5, <1>6, ToBack
<1>8. /\ Len(u) = Len(s)
      /\ \A i \in 1..Len(u) : \E j \in 1..Len(s) : u[i] = s[j]
  <2>1. Tail(s) \in Seq(Threads) /\ Len(Tail(s)) = Len(s) - 1
        /\ \A i \in 1..(Len(s) - 1) : Tail(s)[i] = s[i + 1]
    BY <1>1, <1>3
  <2>2. Len(u) = Len(s) /\ u[Len(s)] = s[1] /\ \A i \in 1..(Len(s) - 1) : u[i] = s[i + 1]
    <3> DEFINE v == Tail(s)
    <3>1. Len(Append(v, t)) = Len(v) + 1 /\ Append(v, t)[Len(v) + 1] = t
          /\ \A i \in 1..Len(v) : Append(v, t)[i] = v[i]
      <4> HIDE DEF v, t
      <4>1. v \in Seq(Threads) BY <2>1 DEF v
      <4> QED BY <1>3, <4>1
    <3> QED BY <1>1, <2>1, <3>1
  <2> HIDE DEF u
  <2> QED BY <1>1, <1>3, <2>2
<1> HIDE DEF u, t
<1>9. \A x \in Threads : status'[x] # "RUNNING" /\ status'[x] # "DEAD"
  <2>1. pc = "switch" BY DEF SwitchExpired
  <2>2. current = t BY <1>0, <1>2, <2>1 DEF IInv, Runner, Nobody
  <2> QED BY <1>0, <1>1, <1>3, <1>5, <1>6, <2>2 DEF IInv, OnlyCurrentRuns
<1>10. \A i \in 1..Len(u) : privilege'[u[i]] = "KERNEL" /\ Alive(u[i])'
  <2> SUFFICES ASSUME NEW i \in 1..Len(u) PROVE privilege'[u[i]] = "KERNEL" /\ Alive(u[i])'
    OBVIOUS
  <2>1. PICK j \in 1..Len(s) : u[i] = s[j] BY <1>8
  <2>2. s[j] \in Threads BY <1>1
  <2>3. privilege[s[j]] = "KERNEL" /\ Alive(s[j]) BY <1>1
  <2> QED BY <1>3, <1>5, <1>6, <2>1, <2>2, <2>3 DEF Alive
<1>11. \A i \in 1..Len(boot'), j \in 1..Len(u) : boot'[i].thread # u[j]
  BY <1>1, <1>5, <1>8
<1>12. Lined(u)'
  BY <1>2, <1>5, <1>7, <1>8, <1>9, <1>10, <1>11 DEF Lined
<1> QED BY <1>2, <1>5, <1>12 DEF LineStep, u, t

\* The steps that leave the queues alone: nobody exits, no loop over the queues but
\* that over queue 0 finds a job, and the head of queue 0 is always ready.
LEMMA OtherLines ==
  ASSUME LInv, ~UserThreads, NEW s, Lined(s), [Next]_vars, ~CreateThread, ~SwitchExpired
  PROVE  LineStep(s)
<1>0. IInv /\ TypeOK
  BY DEF LInv, IInv
<1>1. /\ s \in Seq(Threads) /\ IsLine(q, s)
      /\ \A i \in 1..Len(s) : privilege[s[i]] = "KERNEL" /\ Alive(s[i])
      /\ \A i \in 1..Len(boot), j \in 1..Len(s) : boot[i].thread # s[j]
      /\ runningJob # Null => Len(s) # 0 /\ (pc # "select" => runningJob = s[1])
      /\ pc = "select" => /\ Len(s) # 0 => at.queue = 0
                          /\ \A t \in Threads : status[t] # "RUNNING"
      /\ pc = "boost" /\ at.queue # 0 => at.job = Null
      /\ pc # "spin" /\ pc # "fault"
      /\ \A t \in Threads : status[t] # "DEAD"
  BY DEF Lined, IsLine
<1>2. \A i \in 1..Len(s) : s[i] \in Threads /\ s[i] # Null
  BY <1>1, SchedulerConstants
<1>3. ~Exit
  BY <1>0 DEF Exit, UserThreads, TypeOK, Job
<1>4. ~SwitchDead
  BY <1>0, <1>1 DEF SwitchDead, TypeOK, Job
<1>5. ~Spin
  BY <1>1 DEF Spin
<1>6. ASSUME ~q.isEmpty[at.queue]
      PROVE  at.queue = 0 /\ Len(s) # 0 /\ q.head[at.queue] = s[1] /\ 1 \in 1..Len(s)
  <2>1. at.queue \in Priority BY <1>0 DEF TypeOK
  <2>2. at.queue = 0 BY <1>6, <2>1 DEF Lined, IsLine
  <2>3. Len(s) # 0 /\ q.head[0] = s[1] BY <1>6, <2>2 DEF Lined, IsLine
  <2> QED BY <1>1, <2>2, <2>3
<1>7. ~SelectAgain
  <2> SUFFICES ASSUME SelectAgain PROVE FALSE
    OBVIOUS
  <2>1. pc = "select" /\ ~q.isEmpty[at.queue] /\ ~HeadReady BY DEF SelectAgain
  <2>2. q.head[at.queue] = s[1] /\ 1 \in 1..Len(s) BY <1>6, <2>1
  <2>3. status[s[1]] = "READY" BY <1>1, <1>2, <2>1, <2>2 DEF Alive
  <2> QED BY <2>1, <2>2, <2>3 DEF HeadReady
<1>8. ASSUME BoostJob PROVE q' = q /\ at.queue = 0
  BY <1>1, <1>8 DEF BoostJob
<1>9. q' = q /\ boot' = boot /\ privilege' = privilege
  BY <1>3, <1>4, <1>5, <1>7, <1>8
     DEF Next, BootStep, Handler, StartTimer, Interrupt, SchedulerTime, BoostJob, BoostQueue,
         SwitchStays, SwitchFirst, SelectSkip, SelectTake, Dispatch, kind, vars
<1>10. IsLine(q, s)'
  BY <1>1, <1>9 DEF IsLine
<1>11. \A i \in 1..Len(boot'), j \in 1..Len(s) : boot'[i].thread # s[j]
  BY <1>1, <1>9
<1> DEFINE Kept == /\ \A i \in 1..Len(s) : privilege'[s[i]] = "KERNEL" /\ Alive(s[i])'
                   /\ \A t \in Threads : status'[t] # "DEAD"
           Where == /\ runningJob' # Null => Len(s) # 0 /\ (pc' # "select" => runningJob' = s[1])
                    /\ pc' = "select" => /\ Len(s) # 0 => at'.queue = 0
                                         /\ \A t \in Threads : status'[t] # "RUNNING"
                    /\ pc' = "boost" /\ at'.queue # 0 => at'.job = Null
                    /\ pc' # "spin" /\ pc' # "fault"
           Turn == runningJob' = runningJob \/ (Len(s) # 0 /\ runningJob' = s[1])
<1> SUFFICES Kept /\ Where /\ Turn
  <2>1. ASSUME Kept, Where PROVE Lined(s)' BY <1>10, <1>11, <2>1 DEF Lined
  <2> QED BY <2>1 DEF LineStep
<1>12. ASSUME status' = status PROVE Kept
  BY <1>1, <1>9, <1>12 DEF Alive
<1> HIDE DEF Kept
<1>13. CASE StartTimer \/ Interrupt
  BY <1>1, <1>12, <1>13 DEF StartTimer, Interrupt
<1>14. CASE SchedulerTime
  BY <1>1, <1>12, <1>14 DEF SchedulerTime
<1>15. CASE BoostJob
  BY <1>1, <1>0, <1>8, <1>12, <1>15 DEF BoostJob, TypeOK
<1>16. CASE BoostQueue
  <2>1. at.queue + 1 < Queues - 1 => q.head[at.queue + 1] = Null
    <3>1. at.queue \in Priority BY <1>0 DEF TypeOK
    <3>2. at.queue + 1 < Queues - 1 => at.queue + 1 \in Priority \ {0}
      BY <3>1, SchedulerConstants DEF Priority
    <3> QED BY <1>1, <3>2 DEF IsLine
  <2> QED BY <1>1, <1>12, <1>16, <2>1 DEF BoostQueue
<1>17. CASE SwitchStays
  BY <1>1, <1>12, <1>17 DEF SwitchStays
<1>18. CASE SwitchFirst
  <2>1. current = Null BY <1>0, <1>1, <1>18 DEF SwitchFirst, IInv, Runner, Nobody, TypeOK, Job
  <2>2. \A t \in Threads : status[t] # "RUNNING"
    BY <1>0, <2>1, SchedulerConstants DEF IInv, OnlyCurrentRuns
  <2> QED BY <1>1, <1>12, <1>18, <2>2 DEF SwitchFirst, GoSelect
<1>19. CASE SelectSkip
  <2>1. Len(s) = 0
    BY <1>1, <1>19 DEF SelectSkip, IsLine
  <2> QED BY <1>1, <1>12, <1>19, <2>1 DEF SelectSkip
<1>20. CASE SelectTake
  BY <1>1, <1>6, <1>12, <1>20, Zenon DEF SelectTake
<1>21. CASE Dispatch
  <2>1. pc' # "select" /\ pc' # "boost" /\ pc' # "spin" /\ pc' # "fault" /\ pc = "dispatch"
    BY <1>0, <1>21 DEF Dispatch, TypeOK
  <2>2. Kept
    <3>1. CASE runningJob = Null
      BY <1>12, <1>21, <3>1 DEF Dispatch
    <3>2. CASE runningJob # Null
      <4>1. status' = [t \in Threads |->
              IF t = runningJob THEN "RUNNING"
              ELSE IF t = current /\ status[t] = "RUNNING" THEN "READY" ELSE status[t]]
        BY <1>21, <3>2 DEF Dispatch
      <4>2. \A t \in Threads : (Alive(t) => Alive(t)') /\ (status[t] # "DEAD" => status'[t] # "DEAD")
        BY <4>1 DEF Alive
      <4> QED BY <1>1, <1>2, <1>9, <4>2, Zenon DEF Kept
    <3> QED BY <3>1, <3>2
  <2> QED BY <1>1, <1>21, <2>1, <2>2 DEF Dispatch
<1>22. CASE UNCHANGED vars
  BY <1>1, <1>12, <1>22 DEF vars
<1> HIDE DEF Where, Turn
<1> QED BY <1>3, <1>4, <1>5, <1>7, <1>13, <1>14, <1>15, <1>16, <1>17, <1>18, <1>19,
           <1>20, <1>21, <1>22 DEF Next, BootStep, Handler

LEMMA StepLines ==
  ASSUME LInv, [Next]_vars, ~UserThreads, NEW s, Lined(s)
  PROVE  LineStep(s)
<1>1. CASE CreateThread BY <1>1, CreateLines
<1>2. CASE SwitchExpired BY <1>2, ExpiredLines
<1> QED BY <1>1, <1>2, OtherLines

LEMMA LineInvariant == Spec => []LInv
<1>1. ASSUME LInv, [Next]_vars PROVE LInv'
  <2>1. IInv' BY <1>1, StepTypes, StepRunner, StepSearched DEF LInv, IInv
  <2>2. BootsNew' /\ (UserThreads' <=> UserThreads) BY <1>1, StepBoot DEF LInv
  <2>3. ASSUME ~UserThreads PROVE \E s : Lined(s)'
    <3>1. PICK s : Lined(s) BY <1>1, <2>3 DEF LInv
    <3>2. LineStep(s) BY <1>1, <2>3, <3>1, StepLines
    <3> QED BY <3>2, Zenon DEF LineStep
  <2> QED BY <2>1, <2>2, <2>3 DEF LInv
<1>2. Init => LInv BY InitLined
<1> QED BY <1>1, <1>2, PTL DEF Spec

\* With kernel threads only the doubly linked list of queue 0, as schedulerAddJob,
\* schedulerRemoveJob and schedulerSchedule change it, implements a line: a new
\* thread joins at the back, whoever is in front runs, and whoever has used up its
\* time goes to the back.  The list never loses or doubles a thread.
THEOREM AlwaysLinesUp == Spec => LinesUp
<1> DEFINE ln == IF UserThreads THEN <<>> ELSE LineOf(q)
           rn == IF UserThreads THEN Null ELSE runningJob
<1>1. ASSUME Init PROVE Line!Init
  <2>1. ~UserThreads => LineOf(q) = <<>>
    <3>1. ~UserThreads => IsLine(q, <<>>) BY <1>1, InitLined DEF Lined
    <3> QED BY <3>1, LineIs
  <2>2. runningJob = Null BY <1>1 DEF Init
  <2> QED BY <2>1, <2>2 DEF Line!Init
<1>2. ASSUME LInv, [Next]_vars PROVE [Line!Next]_<<ln, rn>>
  <2>1. UserThreads' <=> UserThreads BY <1>2, StepBoot DEF LInv
  <2>2. CASE UserThreads
    <3>1. ln' = ln /\ rn' = rn BY <2>1, <2>2
    <3> QED BY <3>1
  <2>3. CASE ~UserThreads
    <3>1. PICK s : Lined(s) BY <1>2, <2>3 DEF LInv
    <3>2. LineStep(s) BY <1>2, <2>3, <3>1, StepLines
    <3>3. ln = s /\ rn = runningJob /\ rn' = runningJob' /\ s \in Seq(Threads)
      <4>1. IsLine(q, s) BY <3>1 DEF Lined
      <4>2. s \in Seq(Threads) BY <4>1 DEF IsLine
      <4>3. LineOf(q) = s BY <4>1, LineIs
      <4> QED BY <2>1, <2>3, <4>2, <4>3
    <3>4. ASSUME NEW u, Lined(u)' PROVE ln' = u
      <4>1. IsLine(q', u) BY <3>4 DEF Lined
      <4>2. LineOf(q') = u BY <4>1, LineIs
      <4> QED BY <2>1, <2>3, <4>2
    <3>5. Len(s) # 0 => s # <<>> /\ Head(s) = s[1] BY <3>3
    <3> HIDE DEF ln, rn
    <3>6. CASE Lined(s)' /\ (runningJob' = runningJob \/ (Len(s) # 0 /\ runningJob' = s[1]))
      <4>1. ln' = ln BY <3>3, <3>4, <3>6
      <4>2. CASE runningJob' = runningJob BY <3>3, <4>1, <4>2
      <4>3. CASE Len(s) # 0 /\ runningJob' = s[1]
        <5>1. Line!Run BY <3>3, <3>5, <4>1, <4>3 DEF Line!Run, ln, rn
        <5> QED BY <5>1 DEF Line!Next
      <4> QED BY <3>6, <4>2, <4>3
    <3>7. CASE \E t \in Threads : Lined(Append(s, t))' /\ runningJob' = runningJob
      <4>1. PICK t \in Threads : Lined(Append(s, t))' /\ runningJob' = runningJob BY <3>7
      <4>2. ln' = Append(ln, t) /\ rn' = rn BY <3>3, <3>4, <4>1, Zenon
      <4>3. Line!Join BY <4>2 DEF Line!Join, ln, rn
      <4> QED BY <4>3 DEF Line!Next
    <3>8. CASE /\ Len(s) # 0 /\ runningJob = s[1] /\ runningJob' = runningJob
               /\ Lined(Append(Tail(s), s[1]))'
      <4>1. ln' = Append(Tail(ln), Head(ln)) /\ rn' = rn /\ rn = Head(ln) /\ ln # <<>>
        BY <3>3, <3>4, <3>5, <3>8, Zenon
      <4>2. Line!ToTheBack BY <4>1 DEF Line!ToTheBack, ln, rn
      <4> QED BY <4>2 DEF Line!Next
    <3> QED BY <3>2, <3>6, <3>7, <3>8 DEF LineStep
  <2> QED BY <2>2, <2>3
<1> QED BY <1>1, <1>2, LineInvariant, PTL DEF Spec, LinesUp, Line!Spec
===============================================================================
