------------------------------ MODULE Pthread ------------------------------
(***************************************************************************)
(* The synchronisation of the C library's threads (pthread-stubs.cpp of    *)
(* mlibc): a mutex, a condition variable, a once control and a             *)
(* reader-writer lock, each a word or two in memory that threads change    *)
(* with atomic instructions and sleep on with a futex.  A step is one      *)
(* atomic instruction or one call of the futex, with the local code up to  *)
(* the next one.                                                           *)
(*                                                                         *)
(* A word of flags and a number is a record.  Return codes of the trying   *)
(* calls are left out: such a call gets the lock or it does not.  A        *)
(* program may also unlock a mutex that it does not hold.                  *)
(***************************************************************************)
EXTENDS Integers, FiniteSets

CONSTANTS Thread,
          NoThread,
          Programs,   \* the calls a program makes, its kind of mutex, and a
                      \* bound on the calls of a thread (releasing not counted)
          CountMask,  \* rc_count_mask, the greatest number of readers
          MaxSeq      \* bounds the broadcasts

Calls == {"lock", "trylock", "unlock", "wait", "broadcast", "once",
          "read", "write", "tryread", "trywrite"}
Kinds == {"normal", "recursive", "errorcheck"}

ASSUME PthreadConstants ==
  /\ NoThread \notin Thread
  /\ CountMask \in Nat /\ MaxSeq \in Nat
  /\ Programs \subseteq [calls : SUBSET Calls, kind : Kinds, most : Nat]
  /\ IsFiniteSet(Thread) /\ Cardinality(Thread) < CountMask

VARIABLES mutex,      \* __mlibc_state: owner and waiters bit
          recursion,  \* __mlibc_recursion
          kind,       \* __mlibc_flags
          holds,      \* how many times a thread holds the mutex
          level,      \* the recursion level pthread_mutex_unlock has read
          trespassed, \* a thread has unlocked the mutex without holding it
          panicked,   \* an __ensure has failed, which stops everything
          seq,        \* __mlibc_seq of the condition variable
          waitSeq,    \* seq in pthread_cond_timedwait, 0 outside of it
          done,       \* __mlibc_done of the once control
          ran,        \* how often its function has run
          passed,     \* the threads pthread_once has returned to
          m,          \* __mlibc_m: the mutex inside the reader-writer lock
          rc,         \* __mlibc_rc: its readers and waiters bit
          mode,       \* how a thread is asking for it
          rwHolds,    \* how a thread holds it
          pc,
          expected, seen, mExpected, rcExpected,  \* a word as the call knows it
          asleep,     \* who sleeps on which word, and the value it had
          calls, left \* what the program calls, and how often it may yet

misuse == <<level, trespassed, panicked>>
mutexVars == <<mutex, recursion, kind, misuse, holds, expected>>
condVars == <<seq, waitSeq>>
onceVars == <<done, ran, passed, seen>>
rwVars == <<m, rc, mode, rwHolds, mExpected, rcExpected>>
vars == <<mutexVars, condVars, onceVars, rwVars, pc, asleep, calls, left>>

Free == [owner |-> NoThread, waiters |-> FALSE]
MFree == [locked |-> FALSE, excl |-> FALSE, waiters |-> FALSE]
NoReaders == [count |-> 0, waiters |-> FALSE]

\* The initializers of the four objects, and a thread outside of any call.
Init ==
  /\ mutex = Free /\ recursion = 0
  /\ holds = [t \in Thread |-> 0] /\ level = [t \in Thread |-> 0]
  /\ trespassed = FALSE /\ panicked = FALSE
  /\ seq = 1 /\ waitSeq = [t \in Thread |-> 0]
  /\ done = "no" /\ ran = 0 /\ passed = {}
  /\ m = MFree /\ rc = NoReaders
  /\ mode = [t \in Thread |-> "read"] /\ rwHolds = [t \in Thread |-> "none"]
  /\ pc = [t \in Thread |-> "ready"] /\ asleep = {}
  /\ expected = [t \in Thread |-> Free] /\ seen = [t \in Thread |-> "no"]
  /\ mExpected = [t \in Thread |-> MFree] /\ rcExpected = [t \in Thread |-> NoReaders]
  /\ \E program \in Programs :
       /\ calls = program.calls /\ kind = program.kind
       /\ left = [t \in Thread |-> program.most]

-----------------------------------------------------------------------------
(* The futex, as the calls use it: a wait returns at once when the word    *)
(* has changed, and a wake wakes everybody.                                *)

Go(t, label) == pc' = [pc EXCEPT ![t] = label]
Expect(t, word) == expected' = [expected EXCEPT ![t] = word]
Awake(t) == \A s \in asleep : s.thread # t

At(t, label) == pc[t] = label /\ Awake(t) /\ ~ panicked

FutexWait(t, name, word, value) ==
  asleep' = IF word = value
            THEN asleep \cup {[thread |-> t, word |-> name, value |-> value]}
            ELSE asleep

FutexWake(name) == asleep' = {s \in asleep : s.word # name}

\* A wait may end without a wake.
Spurious(t) ==
  /\ ~ Awake(t)
  /\ asleep' = {s \in asleep : s.thread # t}
  /\ UNCHANGED <<mutexVars, condVars, onceVars, rwVars, pc, calls, left>>

Call(t, name) ==
  /\ At(t, "ready") /\ name \in calls /\ left[t] > 0
  /\ left' = [left EXCEPT ![t] = @ - 1]

-----------------------------------------------------------------------------
(* pthread_mutex_lock, pthread_mutex_trylock, pthread_mutex_unlock.        *)

notMutex == <<onceVars, rwVars, calls>>

\* Locking a normal mutex again is a panic, and no program's intention.
MayLock(t) == kind = "normal" => holds[t] = 0

Lock(t) ==
  /\ Call(t, "lock") /\ MayLock(t)
  /\ Expect(t, Free) /\ Go(t, "lock")
  /\ UNCHANGED <<mutex, recursion, kind, misuse, holds, condVars, asleep, notMutex>>

\* The compare-and-exchange that takes the mutex.
Take(t) ==
  /\ At(t, "lock") /\ expected[t] = Free
  /\ \/ /\ mutex = Free /\ mutex' = [Free EXCEPT !.owner = t]
        /\ Go(t, "taken") /\ UNCHANGED expected
     \/ mutex # Free /\ Expect(t, mutex) /\ UNCHANGED <<mutex, pc>>
  /\ UNCHANGED <<recursion, kind, misuse, holds, condVars, asleep, left, notMutex>>

\* An assertion of the code.
Ensure(condition) == panicked' = ~ condition

\* The lock is ours, and so is the recursion level.
Taken(t) ==
  /\ At(t, "taken")
  /\ Ensure(recursion = 0) /\ recursion' = 1 /\ holds' = [holds EXCEPT ![t] = @ + 1]
  /\ waitSeq' = [waitSeq EXCEPT ![t] = 0]
  /\ Go(t, "ready")
  /\ UNCHANGED <<mutex, kind, level, trespassed, seq, expected, asleep, left, notMutex>>

\* Already owned by us: one level more, or EDEADLK.
Relock(t) ==
  /\ At(t, "lock") \/ At(t, "try")
  /\ expected[t].owner = t
  /\ Go(t, "ready")
  /\ \/ /\ kind = "recursive"
        /\ recursion' = recursion + 1 /\ holds' = [holds EXCEPT ![t] = @ + 1]
     \/ kind # "recursive" /\ UNCHANGED <<recursion, holds>>
  /\ UNCHANGED <<mutex, kind, misuse, condVars, expected, asleep, left, notMutex>>

\* Owned by someone else, as far as we know.
Contended(t) == At(t, "lock") /\ expected[t].owner \notin {NoThread, t}

SetWaiters(t) ==
  /\ Contended(t) /\ ~ expected[t].waiters
  /\ \/ /\ mutex = expected[t]
        /\ mutex' = [mutex EXCEPT !.waiters = TRUE]
        /\ Expect(t, [mutex EXCEPT !.waiters = TRUE])
     \/ mutex # expected[t] /\ Expect(t, mutex) /\ UNCHANGED mutex
  /\ UNCHANGED <<recursion, kind, misuse, holds, condVars, pc, asleep, left, notMutex>>

\* A mutant: after the wait the old value is still expected.
MutantMutexWait(t) ==
  /\ Contended(t) /\ expected[t].waiters
  /\ FutexWait(t, "mutex", mutex, expected[t])
  /\ UNCHANGED <<mutexVars, condVars, pc, left, notMutex>>

MutexWait(t) ==
  /\ Contended(t) /\ expected[t].waiters
  /\ FutexWait(t, "mutex", mutex, expected[t])
  /\ Expect(t, Free)
  /\ UNCHANGED <<mutex, recursion, kind, misuse, holds, condVars, pc, left, notMutex>>

TryLock(t) ==
  /\ Call(t, "trylock") /\ MayLock(t)
  /\ Expect(t, mutex) /\ Go(t, "try")
  /\ UNCHANGED <<mutex, recursion, kind, misuse, holds, condVars, asleep, notMutex>>

\* Relock is the case of an owner who tries.
Try(t) ==
  /\ At(t, "try") /\ expected[t].owner # t
  /\ \/ /\ expected[t] = Free /\ mutex = Free
        /\ mutex' = [Free EXCEPT !.owner = t] /\ Go(t, "taken")
     \/ /\ expected[t] # Free \/ mutex # Free
        /\ Go(t, "ready") /\ UNCHANGED mutex
  /\ UNCHANGED <<recursion, kind, misuse, holds, condVars, expected, asleep, left, notMutex>>

\* pthread_mutex_unlock reads the level, which another thread may change until it
\* is written back if one of the two does not own the mutex.
ReadLevel(t) ==
  /\ Ensure(recursion > 0) /\ level' = [level EXCEPT ![t] = recursion]
  /\ Go(t, "drop")
  /\ UNCHANGED <<mutex, recursion, kind, holds, condVars, expected, asleep, notMutex>>

Unlock(t) ==
  /\ At(t, "ready") /\ holds[t] > 0
  /\ ReadLevel(t) /\ UNCHANGED <<trespassed, left>>

\* The call of a thread that does not hold the mutex is not refused.
Trespass(t) ==
  /\ Call(t, "unlock") /\ holds[t] = 0
  /\ ReadLevel(t) /\ trespassed' = TRUE

\* pthread_cond_timedwait goes on with its wait, pthread_mutex_unlock returns.
AfterUnlock(t) == IF waitSeq[t] = 0 THEN "ready" ELSE "sleep"

\* A mutant: the recursion level is not looked at.
MutantDrop(t) ==
  /\ At(t, "drop")
  /\ recursion' = 0 /\ level' = [level EXCEPT ![t] = 0]
  /\ holds' = [holds EXCEPT ![t] = IF @ > 0 THEN @ - 1 ELSE 0]
  /\ Go(t, "release")
  /\ UNCHANGED <<mutex, kind, trespassed, panicked, condVars, expected, asleep, left, notMutex>>

\* One level less; the last one leads to the release.
Drop(t) ==
  /\ At(t, "drop")
  /\ recursion' = level[t] - 1 /\ level' = [level EXCEPT ![t] = 0]
  /\ holds' = [holds EXCEPT ![t] = IF @ > 0 THEN @ - 1 ELSE 0]
  /\ Go(t, IF level[t] = 1 THEN "release" ELSE AfterUnlock(t))
  /\ UNCHANGED <<mutex, kind, trespassed, panicked, condVars, expected, asleep, left, notMutex>>

\* A mutant: the waiters are forgotten.
MutantRelease(t) ==
  /\ At(t, "release")
  /\ mutex' = Free /\ Go(t, AfterUnlock(t))
  /\ UNCHANGED <<recursion, kind, misuse, holds, condVars, expected, asleep, left, notMutex>>

\* The mutex is free before its owner is looked at.  Who did not own it wakes nobody:
\* an error-checking mutex returns EPERM, which pthread_cond_timedwait asserts away,
\* another one panics.  EINVAL is never reached, since no thread has the number 0.
Release(t) ==
  /\ At(t, "release")
  /\ mutex' = Free
  /\ Ensure(mutex.owner = t \/ (kind = "errorcheck" /\ waitSeq[t] = 0))
  /\ Go(t, IF mutex.owner = t /\ mutex.waiters THEN "wake" ELSE AfterUnlock(t))
  /\ UNCHANGED <<recursion, kind, level, trespassed, holds, condVars, expected, asleep, left,
                 notMutex>>

Wake(t) ==
  /\ At(t, "wake")
  /\ FutexWake("mutex") /\ Go(t, AfterUnlock(t))
  /\ UNCHANGED <<mutexVars, condVars, left, notMutex>>

-----------------------------------------------------------------------------
(* pthread_cond_timedwait without a time, and pthread_cond_broadcast,      *)
(* which pthread_cond_signal calls.                                        *)

CondWait(t) ==
  /\ Call(t, "wait") /\ holds[t] = 1
  /\ waitSeq' = [waitSeq EXCEPT ![t] = seq]
  /\ Go(t, "unlock")
  /\ UNCHANGED <<mutexVars, seq, asleep, notMutex>>

CondUnlock(t) == At(t, "unlock") /\ ReadLevel(t) /\ UNCHANGED <<trespassed, left>>

CondSleep(t) ==
  /\ At(t, "sleep")
  /\ FutexWait(t, "seq", seq, waitSeq[t])
  /\ Expect(t, Free) /\ Go(t, "lock")
  /\ UNCHANGED <<mutex, recursion, kind, misuse, holds, condVars, left, notMutex>>

Broadcast(t) ==
  /\ Call(t, "broadcast") /\ seq < MaxSeq
  /\ seq' = seq + 1 /\ Go(t, "announce")
  /\ UNCHANGED <<mutexVars, waitSeq, asleep, notMutex>>

Announce(t) ==
  /\ At(t, "announce")
  /\ FutexWake("seq") /\ Go(t, "ready")
  /\ UNCHANGED <<mutexVars, condVars, left, notMutex>>

-----------------------------------------------------------------------------
(* pthread_once.                                                           *)

notOnce == <<mutexVars, condVars, rwVars, calls>>

\* A load of the word, and the return when the function has been run.
Look(t) ==
  /\ seen' = [seen EXCEPT ![t] = done]
  /\ IF done = "complete" THEN Go(t, "ready") /\ passed' = passed \cup {t}
     ELSE Go(t, "once") /\ UNCHANGED passed

Once(t) == Call(t, "once") /\ Look(t) /\ UNCHANGED <<done, ran, asleep, notOnce>>

\* A mutant: the word says complete while the function runs.
MutantOnceTake(t) ==
  /\ At(t, "once") /\ seen[t] = "no" /\ done = "no"
  /\ done' = "complete" /\ Go(t, "function")
  /\ UNCHANGED <<ran, passed, seen, asleep, left, notOnce>>

OnceTake(t) ==
  /\ At(t, "once") /\ seen[t] = "no" /\ done = "no"
  /\ done' = "locked" /\ Go(t, "function")
  /\ UNCHANGED <<ran, passed, seen, asleep, left, notOnce>>

\* The exchange fails: a load of the word.
OnceLost(t) ==
  /\ At(t, "once") /\ seen[t] = "no" /\ done # "no"
  /\ Look(t)
  /\ UNCHANGED <<done, ran, asleep, left, notOnce>>

Function(t) ==
  /\ At(t, "function")
  /\ ran' = ran + 1 /\ Go(t, "complete")
  /\ UNCHANGED <<done, passed, seen, asleep, left, notOnce>>

Complete(t) ==
  /\ At(t, "complete")
  /\ done' = "complete" /\ Go(t, "tell")
  /\ UNCHANGED <<ran, passed, seen, asleep, left, notOnce>>

Tell(t) ==
  /\ At(t, "tell")
  /\ FutexWake("done") /\ passed' = passed \cup {t} /\ Go(t, "ready")
  /\ UNCHANGED <<done, ran, seen, left, notOnce>>

OnceWait(t) ==
  /\ At(t, "once") /\ seen[t] = "locked"
  /\ FutexWait(t, "done", done, "locked") /\ Go(t, "look")
  /\ UNCHANGED <<onceVars, left, notOnce>>

LookAgain(t) == At(t, "look") /\ Look(t) /\ UNCHANGED <<done, ran, asleep, left, notOnce>>

-----------------------------------------------------------------------------
(* pthread_rwlock_rdlock, wrlock, tryrdlock, trywrlock and unlock.  A      *)
(* writer keeps m while it holds the lock, a reader only to count itself.  *)

notRw == <<mutexVars, condVars, onceVars, calls>>

MExpect(t, word) == mExpected' = [mExpected EXCEPT ![t] = word]
RcExpect(t, word) == rcExpected' = [rcExpected EXCEPT ![t] = word]

Excl(t) == mode[t] \in {"write", "trywrite"}
Trying(t) == mode[t] \in {"tryread", "trywrite"}

RwLock(t, how) ==
  /\ Call(t, how) /\ rwHolds[t] = "none"
  /\ mode' = [mode EXCEPT ![t] = how]
  /\ MExpect(t, m) /\ Go(t, "m")
  /\ UNCHANGED <<m, rc, rwHolds, rcExpected, asleep, notRw>>

\* rwlock_m_trylock gives up, and leaves nothing behind.
MBusy(t) ==
  /\ At(t, "m") /\ Trying(t) /\ (mExpected[t].locked \/ m.locked)
  /\ Go(t, "ready")
  /\ UNCHANGED <<rwVars, asleep, left, notRw>>

MTake(t) ==
  /\ At(t, "m") /\ ~ mExpected[t].locked /\ (Trying(t) => ~ m.locked)
  /\ \/ /\ m = mExpected[t]
        /\ m' = [locked |-> TRUE, excl |-> Excl(t), waiters |-> FALSE]
        /\ Go(t, IF Excl(t) THEN "readers" ELSE "count") /\ UNCHANGED mExpected
     \/ m # mExpected[t] /\ MExpect(t, m) /\ UNCHANGED <<m, pc>>
  /\ UNCHANGED <<rc, mode, rwHolds, rcExpected, asleep, left, notRw>>

MSetWaiters(t) ==
  /\ At(t, "m") /\ ~ Trying(t) /\ mExpected[t].locked /\ ~ mExpected[t].waiters
  /\ \/ /\ m = mExpected[t]
        /\ m' = [m EXCEPT !.waiters = TRUE]
        /\ MExpect(t, [m EXCEPT !.waiters = TRUE])
     \/ m # mExpected[t] /\ MExpect(t, m) /\ UNCHANGED m
  /\ UNCHANGED <<rc, mode, rwHolds, rcExpected, pc, asleep, left, notRw>>

MWait(t) ==
  /\ At(t, "m") /\ ~ Trying(t) /\ mExpected[t].locked /\ mExpected[t].waiters
  /\ FutexWait(t, "m", m, mExpected[t])
  /\ MExpect(t, MFree)
  /\ UNCHANGED <<m, rc, mode, rwHolds, rcExpected, pc, left, notRw>>

\* A reader counts itself, and lets go of m.
Count(t) ==
  /\ At(t, "count")
  /\ rc' = [rc EXCEPT !.count = @ + 1]
  /\ rwHolds' = [rwHolds EXCEPT ![t] = "read"]
  /\ Go(t, "m_unlock")
  /\ UNCHANGED <<m, mode, mExpected, rcExpected, asleep, left, notRw>>

MUnlock(t) ==
  /\ At(t, "m_unlock")
  /\ m' = MFree
  /\ Go(t, IF m.waiters THEN "m_wake" ELSE "ready")
  /\ UNCHANGED <<rc, mode, rwHolds, mExpected, rcExpected, asleep, left, notRw>>

MWake(t) ==
  /\ At(t, "m_wake")
  /\ FutexWake("m") /\ Go(t, "ready")
  /\ UNCHANGED <<rwVars, left, notRw>>

\* A writer has got m and knows the word with the readers: it is through, gives
\* up or waits for them.
Found(t, word) ==
  /\ RcExpect(t, word)
  /\ \/ /\ word = NoReaders /\ Go(t, "ready")
        /\ rwHolds' = [rwHolds EXCEPT ![t] = "write"]
     \/ /\ word # NoReaders /\ Go(t, IF Trying(t) THEN "m_unlock" ELSE "rc")
        /\ UNCHANGED rwHolds

\* A mutant: a writer that only tries does not look for readers.
MutantReaders(t) ==
  /\ At(t, "readers") /\ Found(t, IF Trying(t) THEN NoReaders ELSE rc)
  /\ UNCHANGED <<m, rc, mode, mExpected, asleep, left, notRw>>

Readers(t) ==
  /\ At(t, "readers") /\ Found(t, rc)
  /\ UNCHANGED <<m, rc, mode, mExpected, asleep, left, notRw>>

\* The writer ors the mask of the count into the word, where the comment says the
\* waiters bit.
MarkReaders(t) ==
  /\ At(t, "rc")
  /\ \/ /\ rcExpected[t].waiters \/ rc = rcExpected[t]
        /\ rc' = IF rcExpected[t].waiters THEN rc ELSE [rc EXCEPT !.count = CountMask]
        /\ Go(t, "rc_wait") /\ UNCHANGED <<rwHolds, rcExpected>>
     \/ /\ ~ rcExpected[t].waiters /\ rc # rcExpected[t]
        /\ Found(t, rc) /\ UNCHANGED rc
  /\ UNCHANGED <<m, mode, mExpected, asleep, left, notRw>>

\* It waits for a value with the waiters bit, and looks again.
ReadersWait(t) ==
  /\ At(t, "rc_wait")
  /\ FutexWait(t, "rc", rc, [rcExpected[t] EXCEPT !.waiters = TRUE])
  /\ Go(t, "readers")
  /\ UNCHANGED <<rwVars, left, notRw>>

\* pthread_rwlock_unlock tells a writer from a reader by the count.
RwUnlock(t) ==
  /\ At(t, "ready") /\ rwHolds[t] # "none"
  /\ rwHolds' = [rwHolds EXCEPT ![t] = "none"]
  /\ RcExpect(t, rc)
  /\ Go(t, IF rc = NoReaders THEN "m_unlock" ELSE "leave")
  /\ UNCHANGED <<m, rc, mode, mExpected, asleep, left, notRw>>

\* The last reader wakes a writer that has set the bit: none ever has.
Leave(t) ==
  /\ At(t, "leave")
  /\ \/ /\ rc = rcExpected[t] /\ Go(t, "ready")
        /\ LET last == rc.count = 1 /\ rc.waiters
           IN  /\ rc' = IF last THEN NoReaders ELSE [rc EXCEPT !.count = @ - 1]
               /\ asleep' = {s \in asleep : last => s.word # "rc"}
        /\ UNCHANGED rcExpected
     \/ rc # rcExpected[t] /\ RcExpect(t, rc) /\ UNCHANGED <<rc, pc, asleep>>
  /\ UNCHANGED <<m, mode, rwHolds, mExpected, left, notRw>>

-----------------------------------------------------------------------------
\* A step of a call that goes on.
Step(t) ==
  \/ Take(t) \/ Taken(t) \/ Relock(t) \/ SetWaiters(t) \/ MutexWait(t) \/ Try(t)
  \/ Drop(t) \/ Release(t) \/ Wake(t)
  \/ CondUnlock(t) \/ CondSleep(t) \/ Announce(t)
  \/ OnceTake(t) \/ OnceLost(t) \/ Function(t) \/ Complete(t) \/ Tell(t)
  \/ OnceWait(t) \/ LookAgain(t)
  \/ MBusy(t) \/ MTake(t) \/ MSetWaiters(t) \/ MWait(t) \/ Count(t)
  \/ MUnlock(t) \/ MWake(t)
  \/ Readers(t) \/ MarkReaders(t) \/ ReadersWait(t) \/ Leave(t)

Begin(t) ==
  \/ Lock(t) \/ TryLock(t) \/ Trespass(t) \/ CondWait(t) \/ Broadcast(t) \/ Once(t)
  \/ \E how \in {"read", "write", "tryread", "trywrite"} : RwLock(t, how)

LetGo(t) == Unlock(t) \/ RwUnlock(t)

Next == \E t \in Thread : Step(t) \/ Begin(t) \/ LetGo(t) \/ Spurious(t)

Spec == Init /\ [][Next]_vars

\* The scheduler runs every thread, and programs unlock what they have locked.
FairSpec == Spec /\ \A t \in Thread : WF_vars(Step(t)) /\ WF_vars(LetGo(t))

-----------------------------------------------------------------------------
(* Properties.                                                             *)

\* Until a thread unlocks a mutex that it does not hold: a thread to which
\* pthread_mutex_lock has returned is the owner, and holds the mutex as often as the
\* recursion level says, so nobody else holds it; and no assertion of the mutex fails
\* (who has just taken it finds the level at 0, who unlocks it finds it above 0 and
\* itself the owner).
MutexExclusive ==
  trespassed \/
  /\ \A t \in Thread : holds[t] > 0 => mutex.owner = t /\ recursion = holds[t]
  /\ ~ panicked

\* The function of pthread_once runs once, and is over before any thread's call
\* returns.
OnceOnly ==
  /\ ran <= 1
  /\ passed # {} => ran = 1 /\ done = "complete"
  /\ \A t \in Thread : pc[t] \in {"function", "complete"} => done = "locked"

\* A writer that holds the reader-writer lock holds it alone, and every reader in
\* it is counted: a reader's unlock is never taken for a writer's.
RwExclusive ==
  /\ \A t, u \in Thread : rwHolds[t] = "write" /\ u # t => rwHolds[u] = "none"
  /\ \A t \in Thread : rwHolds[t] = "write" => rc = NoReaders /\ m.locked
  /\ Cardinality({t \in Thread : rwHolds[t] = "read"}) <= rc.count
  /\ \A t \in Thread : pc[t] = "leave" => rcExpected[t].count > 0

Word(name) ==
  CASE name = "mutex" -> mutex [] name = "seq" -> seq [] name = "done" -> done
    [] name = "m" -> m [] OTHER -> rc

\* The step of a thread that is about to wake the sleepers of a word.
Waker(name) ==
  CASE name = "mutex" -> "wake" [] name = "seq" -> "announce" [] name = "done" -> "tell"
    [] name = "m" -> "m_wake" [] OTHER -> "leave"

\* Who sleeps on a word is not forgotten: the word still has the value it was
\* put to sleep with, or a thread that has changed it is about to wake it.  For
\* the mutex this ends when a thread unlocks it that does not hold it.
NobodyForgotten ==
  \A s \in asleep :
    \/ Word(s.word) = s.value
    \/ \E t \in Thread : pc[t] = Waker(s.word)
    \/ s.word = "mutex" /\ trespassed

\* A writer that has met readers.
WriterStuck == \E t \in Thread : pc[t] \in {"rc", "rc_wait"}

\* A thread that nobody has called since it began to wait.
Unsignalled(t) == waitSeq[t] = seq

\* Every call returns once the others have stopped competing with it, unless
\* it waits for a broadcast, or for a lock on which a writer has met readers, or
\* a thread has unlocked a mutex that it does not hold.
EveryCallEnds ==
  \A t \in Thread : []<>(pc[t] = "ready" \/ Unsignalled(t) \/ WriterStuck \/ trespassed)

=============================================================================
