------------------------------ MODULE Scheduler -------------------------------
(***************************************************************************)
(* The MLFQ scheduler (scheduler.cpp) under taskingSwitch (tasking.cpp),   *)
(* driven by the timer interrupt (interrupts.cpp, requests.cpp) and by the *)
(* exit system call (syscalls_calls.cpp).                                  *)
(*                                                                         *)
(* A thread and its job are one: a job is created with its thread and      *)
(* never freed.  "q" holds every pointer of the queues and jobs.  Handlers *)
(* run with interrupts off; their loops are taken one iteration at a time, *)
(* so that one that does not end shows.  WAITING is left out: the only     *)
(* code that sets it, Syscall::runHandler, is never called.                *)
(***************************************************************************)
EXTENDS Integers, Sequences

CONSTANTS
  Threads,    \* the threads that exist
  Boots,      \* what the kernel may create at boot: threads with their privileges,
              \* in the order of their creation
  Null,       \* the NULL pointer
  Queues,     \* K_CONST_SCHEDULER_QUEUES
  Allotment,  \* timeAllotment of every queue, in timer slots
  Boost       \* K_CONST_PRIORITY_BOOST, in timer slots

ASSUME SchedulerConstants ==
  /\ Null \notin Threads
  /\ Boots \subseteq Seq([thread : Threads, privilege : {"KERNEL", "USER"}])
  /\ Queues \in Nat /\ Queues >= 2 /\ Allotment \in Nat /\ Boost \in Nat

\* taskingCreateThread makes a new thread every time.
ASSUME NewThreads ==
  \A b \in Boots : \A i, j \in 1..Len(b) : b[i].thread = b[j].thread => i = j

VARIABLES
  boot,       \* the threads kernelInitialize has still to create
  privilege,  \* "KERNEL" or "USER"; "NONE" before the thread exists
  q,          \* the queues: head, tail, isEmpty; the jobs: prev, next, priority
  time,       \* timeInPriority
  status,     \* "READY", "RUNNING" or "DEAD"; "NONE" before the thread exists
  runningJob,
  current,    \* currentThread of the processor
  boostTime,  \* priorityBoostTime
  pc, at,     \* what the kernel is at, and the queue and job its loop has reached
  cont        \* where taskingSwitch returns to

kind == <<boot, privilege>>
vars == <<boot, privilege, q, time, status, runningJob, current, boostTime, pc, at, cont>>

Priority == 0..(Queues - 1)
Job == Threads \cup {Null}
Kernel == {t \in Threads : privilege[t] = "KERNEL"}

QueueType ==
  [head : [Priority -> Job], tail : [Priority -> Job], isEmpty : [Priority -> BOOLEAN],
   prev : [Threads -> Job], next : [Threads -> Job], priority : [Threads -> Priority]]

Init ==
  /\ boot \in Boots
  /\ privilege = [t \in Threads |-> "NONE"]
  /\ q = [head |-> [p \in Priority |-> Null], tail |-> [p \in Priority |-> Null],
          isEmpty |-> [p \in Priority |-> TRUE],
          prev |-> [t \in Threads |-> Null], next |-> [t \in Threads |-> Null],
          priority |-> [t \in Threads |-> 0]]
  /\ time = [t \in Threads |-> 0]
  /\ status = [t \in Threads |-> "NONE"]
  /\ runningJob = Null /\ current = Null /\ boostTime = 0
  /\ pc = "boot" /\ at = [queue |-> 0, job |-> Null] /\ cont = "run"

-------------------------------------------------------------------------------
MutantRemoveJob(l, job) ==
  LET p == l.priority[job]
      prev == l.prev[job]
      next == l.next[job]
  IN  [l EXCEPT !.next = IF prev = Null THEN @ ELSE [@ EXCEPT ![prev] = next],
                !.prev = IF next = Null THEN @ ELSE [@ EXCEPT ![next] = prev],
                !.head[p] = IF prev = Null THEN next ELSE @,
                !.isEmpty[p] = IF prev = Null /\ next = Null THEN TRUE ELSE @]

\* schedulerRemoveJob: unlinks the job; the job's own pointers stay.
RemoveJob(l, job) ==
  LET p == l.priority[job]
      prev == l.prev[job]
      next == l.next[job]
      head == IF prev = Null THEN next ELSE l.head[p]
  IN  [head |-> [l.head EXCEPT ![p] = head],
       tail |-> [l.tail EXCEPT ![p] = IF next = Null THEN prev ELSE @],
       isEmpty |-> [l.isEmpty EXCEPT ![p] = IF head = Null THEN TRUE ELSE @],
       prev |-> IF next = Null THEN l.prev ELSE [l.prev EXCEPT ![next] = prev],
       next |-> IF prev = Null THEN l.next ELSE [l.next EXCEPT ![prev] = next],
       priority |-> l.priority]

\* schedulerAddJob: links the job behind the tail of queue p.  Its prev is the
\* tail of queue 0, whatever p is.
AddJob(l, job, p) ==
  LET tail == l.tail[p]
      next == [l.next EXCEPT ![job] = Null]
  IN  [head |-> [l.head EXCEPT ![p] = IF @ = Null THEN job ELSE @],
       tail |-> [l.tail EXCEPT ![p] = job],
       isEmpty |-> [l.isEmpty EXCEPT ![p] = FALSE],
       prev |-> [l.prev EXCEPT ![job] = l.tail[0]],
       next |-> IF tail = Null THEN next ELSE [next EXCEPT ![tail] = job],
       priority |-> [l.priority EXCEPT ![job] = p]]

-------------------------------------------------------------------------------
\* taskingCreateThread and schedulerNewJob, in the order of kernelInitialize.
CreateThread ==
  /\ pc = "boot" /\ boot # <<>>
  /\ boot' = Tail(boot)
  /\ LET t == Head(boot).thread
     IN  /\ privilege' = [privilege EXCEPT ![t] = Head(boot).privilege]
         /\ status' = [status EXCEPT ![t] = "READY"]
         /\ time' = [time EXCEPT ![t] = 0]
         /\ q' = AddJob(q, t, 0)
  /\ UNCHANGED <<runningJob, current, boostTime, pc, at, cont>>

StartTimer ==
  /\ pc = "boot" /\ boot = <<>>
  /\ pc' = "run"
  /\ UNCHANGED <<kind, q, time, status, runningJob, current, boostTime, at, cont>>

\* interruptHandler for the timer: with no thread yet it switches to one first.
Interrupt ==
  /\ pc = "run"
  /\ pc' = IF current = Null THEN "switch" ELSE "timer"
  /\ cont' = IF current = Null THEN "timer" ELSE "run"
  /\ UNCHANGED <<kind, q, time, status, runningJob, current, boostTime, at>>

\* The exit system call of the thread that runs.
Exit ==
  /\ pc = "run"
  /\ current # Null /\ privilege[current] = "USER"
  /\ status' = [status EXCEPT ![current] = "DEAD"]
  /\ pc' = "switch"
  /\ cont' = "run"
  /\ UNCHANGED <<kind, q, time, runningJob, current, boostTime, at>>

MutantSchedulerTime ==
  /\ pc = "timer"
  /\ time' = IF runningJob = Null THEN time ELSE [time EXCEPT ![runningJob] = @ + 1]
  /\ boostTime' = 0
  /\ pc' = "switch"
  /\ cont' = "run"
  /\ UNCHANGED <<kind, q, status, runningJob, current, at>>

\* schedulerTime; requestTimer calls taskingSwitch next.
SchedulerTime ==
  /\ pc = "timer"
  /\ time' = IF runningJob = Null THEN time ELSE [time EXCEPT ![runningJob] = @ + 1]
  /\ \/ /\ boostTime + 1 > Boost
        /\ boostTime' = 0
        /\ pc' = "boost"
        /\ at' = [queue |-> 0, job |-> q.head[0]]
     \/ /\ boostTime + 1 <= Boost
        /\ boostTime' = boostTime + 1
        /\ pc' = "switch"
        /\ UNCHANGED at
  /\ cont' = "run"
  /\ UNCHANGED <<kind, q, status, runningJob, current>>

\* schedulerPriorityBoost: the body of the inner loop...
BoostJob ==
  /\ pc = "boost" /\ at.job # Null
  /\ time' = [time EXCEPT ![at.job] = 0]
  /\ LET l == IF at.queue # 0 /\ at.job # runningJob
              THEN AddJob(RemoveJob(q, at.job), at.job, 0) ELSE q
     IN  q' = l /\ at' = [at EXCEPT !.job = l.next[at.job]]
  /\ UNCHANGED <<kind, status, runningJob, current, boostTime, pc, cont>>

\* ... and the outer one, which leaves out the last queue.
BoostQueue ==
  /\ pc = "boost" /\ at.job = Null
  /\ \/ /\ at.queue + 1 < Queues - 1
        /\ at' = [queue |-> at.queue + 1, job |-> q.head[at.queue + 1]]
        /\ UNCHANGED pc
     \/ /\ at.queue + 1 >= Queues - 1
        /\ pc' = "switch"
        /\ UNCHANGED at
  /\ UNCHANGED <<kind, q, time, status, runningJob, current, boostTime, cont>>

-------------------------------------------------------------------------------
(* taskingSwitch and schedulerSchedule.                                    *)

Expired == runningJob # Null /\ time[runningJob] > Allotment

\* Kernel jobs stay in their queue, user jobs go down one, but not below the last.
NextPriority(t) ==
  IF t \notin Kernel /\ q.priority[t] < Queues - 1 THEN q.priority[t] + 1 ELSE q.priority[t]

GoSelect == pc' = "select" /\ at' = [queue |-> 0, job |-> Null]

\* The running job goes on.
SwitchStays ==
  /\ pc = "switch"
  /\ runningJob # Null /\ status[runningJob] # "DEAD" /\ ~Expired
  /\ pc' = "dispatch"
  /\ UNCHANGED <<kind, q, time, status, runningJob, current, boostTime, at, cont>>

\* The running job has exited.
SwitchDead ==
  /\ pc = "switch"
  /\ runningJob # Null /\ status[runningJob] = "DEAD"
  /\ q' = RemoveJob(q, runningJob)
  /\ runningJob' = Null
  /\ GoSelect
  /\ UNCHANGED <<kind, time, status, current, boostTime, cont>>

MutantSwitchExpired ==
  /\ pc = "switch"
  /\ Expired /\ status[runningJob] # "DEAD"
  /\ q' = AddJob(RemoveJob(q, runningJob), runningJob, NextPriority(runningJob))
  /\ status' = [status EXCEPT ![runningJob] = "READY"]
  /\ GoSelect
  /\ UNCHANGED <<kind, time, runningJob, current, boostTime, cont>>

MutantSwitchExpiredInPlace ==
  /\ pc = "switch"
  /\ Expired /\ status[runningJob] # "DEAD"
  /\ status' = [status EXCEPT ![runningJob] = "READY"]
  /\ time' = [time EXCEPT ![runningJob] = 0]
  /\ GoSelect
  /\ UNCHANGED <<kind, q, runningJob, current, boostTime, cont>>

\* The running job has used its time up.
SwitchExpired ==
  /\ pc = "switch"
  /\ Expired /\ status[runningJob] # "DEAD"
  /\ q' = AddJob(RemoveJob(q, runningJob), runningJob, NextPriority(runningJob))
  /\ status' = [status EXCEPT ![runningJob] = "READY"]
  /\ time' = [time EXCEPT ![runningJob] = 0]
  /\ GoSelect
  /\ UNCHANGED <<kind, runningJob, current, boostTime, cont>>

SwitchFirst ==
  /\ pc = "switch"
  /\ runningJob = Null
  /\ GoSelect
  /\ UNCHANGED <<kind, q, time, status, runningJob, current, boostTime, cont>>

MutantSelectSkip ==
  /\ pc = "select"
  /\ q.isEmpty[at.queue]
  /\ pc' = "dispatch"
  /\ UNCHANGED <<kind, q, time, status, runningJob, current, boostTime, at, cont>>

\* The selection loop over the queues: an empty queue is passed over (when all
\* are empty the running job, if any, stays what it was)...
SelectSkip ==
  /\ pc = "select"
  /\ q.isEmpty[at.queue]
  /\ IF at.queue = Queues - 1 THEN pc' = "dispatch" /\ UNCHANGED at
     ELSE at' = [at EXCEPT !.queue = @ + 1] /\ UNCHANGED pc
  /\ UNCHANGED <<kind, q, time, status, runningJob, current, boostTime, cont>>

HeadReady == q.head[at.queue] = Null \/ status[q.head[at.queue]] = "READY"

MutantSelectTakeTail ==
  /\ pc = "select"
  /\ ~q.isEmpty[at.queue] /\ HeadReady
  /\ runningJob' = q.tail[at.queue]
  /\ pc' = "dispatch"
  /\ UNCHANGED <<kind, q, time, status, current, boostTime, at, cont>>

\* ... the head of the first other one is taken if it is ready ...
SelectTake ==
  /\ pc = "select"
  /\ ~q.isEmpty[at.queue] /\ HeadReady
  /\ runningJob' = q.head[at.queue]
  /\ pc' = "dispatch"
  /\ UNCHANGED <<kind, q, time, status, current, boostTime, at, cont>>

\* One round of the inner loop: it is the running job that is removed, not the
\* one looked at, which stays the same; removing NULL faults.
RemoveRunning(job) ==
  IF runningJob = Null THEN pc' = "fault" /\ UNCHANGED q
  ELSE /\ pc' = "spin"
       /\ q' = IF status[job] = "DEAD" THEN RemoveJob(q, runningJob)
               ELSE AddJob(RemoveJob(q, runningJob), runningJob, at.queue)

\* ... and if it is not, the inner loop begins ...
SelectAgain ==
  /\ pc = "select"
  /\ ~q.isEmpty[at.queue] /\ ~HeadReady
  /\ at' = [at EXCEPT !.job = q.head[at.queue]]
  /\ RemoveRunning(q.head[at.queue])
  /\ UNCHANGED <<kind, time, status, runningJob, current, boostTime, cont>>

\* ... and goes on.
Spin ==
  /\ pc = "spin"
  /\ RemoveRunning(at.job)
  /\ UNCHANGED <<kind, time, status, runningJob, current, boostTime, at, cont>>

MutantDispatchReady ==
  /\ pc = "dispatch"
  /\ pc' = cont
  /\ IF runningJob = Null THEN UNCHANGED <<status, current>>
     ELSE /\ current' = runningJob
          /\ status' = [t \in Threads |->
               IF t = current /\ status[t] = "RUNNING" THEN "READY" ELSE status[t]]
  /\ UNCHANGED <<kind, q, time, runningJob, boostTime, at, cont>>

\* What taskingSwitch does with the thread schedulerSchedule returned.
Dispatch ==
  /\ pc = "dispatch"
  /\ pc' = cont
  /\ IF runningJob = Null THEN UNCHANGED <<status, current>>
     ELSE /\ current' = runningJob
          /\ status' = [t \in Threads |->
               IF t = runningJob THEN "RUNNING"
               ELSE IF t = current /\ status[t] = "RUNNING" THEN "READY"
               ELSE status[t]]
  /\ UNCHANGED <<kind, q, time, runningJob, boostTime, at, cont>>

-------------------------------------------------------------------------------
Handler ==
  \/ SchedulerTime \/ BoostJob \/ BoostQueue
  \/ SwitchStays \/ SwitchDead \/ SwitchExpired \/ SwitchFirst
  \/ SelectSkip \/ SelectTake \/ SelectAgain \/ Spin
  \/ Dispatch

BootStep == CreateThread \/ StartTimer

Next == BootStep \/ Interrupt \/ Exit \/ Handler

Spec == Init /\ [][Next]_vars

\* The processor keeps executing the kernel, and the timer, which lapicStartTimer
\* sets to periodic mode, keeps interrupting.
FairSpec == Spec /\ WF_vars(BootStep) /\ WF_vars(Interrupt) /\ WF_vars(Handler)
-------------------------------------------------------------------------------
\* The variables have their types: no job has a priority without a queue.
TypeOK ==
  /\ boot \in Seq([thread : Threads, privilege : {"KERNEL", "USER"}])
  /\ privilege \in [Threads -> {"NONE", "KERNEL", "USER"}]
  /\ q \in QueueType
  /\ time \in [Threads -> Nat]
  /\ status \in [Threads -> {"NONE", "READY", "RUNNING", "DEAD"}]
  /\ runningJob \in Job /\ current \in Job /\ cont \in {"run", "timer"}
  /\ pc \in {"boot", "run", "timer", "boost", "switch", "select", "spin", "dispatch", "fault"}
  /\ boostTime \in Nat /\ at \in [queue : Priority, job : Job]

\* Scheduler and processor agree about who runs: no thread but the current one is
\* ever RUNNING, and outside the kernel it is the one schedulerTime charges.  The
\* one exception is a thread that has exited with nobody to take over.
RunnerAgreed ==
  /\ \A t \in Threads : status[t] = "RUNNING" => t = current
  /\ pc = "run" /\ current # Null =>
       IF runningJob = Null THEN status[current] = "DEAD"
       ELSE runningJob = current /\ status[current] = "RUNNING"

\* A thread that has exited is never given the processor again, although
\* schedulerRemoveJob may leave its job in a queue: its status stays DEAD, so that
\* schedulerSchedule passes it over, and taskingSwitch returns into the thread that
\* calls exit, which goes on running, only when no queue has a job left.
ExitedGone ==
  /\ [][\A t \in Threads : status[t] = "DEAD" => status'[t] = "DEAD"]_vars
  /\ [](pc = "run" /\ current # Null /\ status[current] = "DEAD" =>
         \A p \in Priority : q.isEmpty[p])

\* Nobody goes on running with its allotment used up: the timer interrupt that
\* exceeds it resets the time, also when no other thread can take over.
SliceBounded == pc = "run" => \A t \in Threads : time[t] <= Allotment

SomebodyExited == \E t \in Threads : status[t] = "DEAD"

\* As long as nobody has exited every interrupt returns to a thread: none of the
\* loops over the queues, not even over queues that AddJob has linked wrongly,
\* runs for ever.
HandlersReturn == (pc # "run") ~> (pc = "run" \/ SomebodyExited)

\* A user thread is never starved by the kernel thread above it: boost or
\* demotion brings it back to the front again and again.
UsersRun == \A t \in Threads : []<>(privilege[t] = "USER" => current = t \/ SomebodyExited)

\* scheduler.cpp:84: "Kernel jobs shouldn't be demoted, but only go to the "back
\* of the line"", and so have their turn again.
KernelJobsRun == \A t \in Threads : []<>(privilege[t] = "KERNEL" => current = t \/ SomebodyExited)
=============================================================================
