--------------------------- MODULE PthreadProofs ----------------------------
(***************************************************************************)
(* For any threads, fewer than the readers' count can hold, and any        *)
(* programs: the mutex and the reader-writer lock exclude, the function of *)
(* pthread_once runs once and before anybody passes, and no sleeper of a   *)
(* futex is forgotten.                                                     *)
(***************************************************************************)
EXTENDS Pthread, FiniteSetTheorems, TLAPS

USE SMTT(20), ZenonT(20)  \* the provers of a leaf that names none

(* The mutex, pthread_once and the sleepers of the futexes: the parts of   *)
(* the inductive invariant that speak of them, and that the steps of each  *)
(* primitive keep its part, leave the state of the others aside and let    *)
(* every sleeper still be woken.                                           *)

MutexWord == [owner : Thread \cup {NoThread}, waiters : BOOLEAN]
MWord == [locked : BOOLEAN, excl : BOOLEAN, waiters : BOOLEAN]
RcWord == [count : Int, waiters : BOOLEAN]

MutexTypes ==
  /\ mutex \in MutexWord /\ recursion \in Nat /\ holds \in [Thread -> Nat]
  /\ expected \in [Thread -> MutexWord] /\ DOMAIN pc = Thread
  /\ level \in [Thread -> Nat] /\ panicked \in BOOLEAN
  /\ \A t \in Thread : pc[t] = "drop" => level[t] > 0 \/ panicked

RwTypes ==
  /\ m \in MWord /\ mExpected \in [Thread -> MWord]
  /\ rc \in RcWord /\ rcExpected \in [Thread -> RcWord]

Types == MutexTypes /\ ran \in Nat /\ RwTypes

\* Who owns the mutex: a thread that holds it, or is at one of two steps.
Owns(t) == holds[t] > 0 \/ pc[t] \in {"taken", "release"}

Owned ==
  /\ \A t \in Thread : mutex.owner = t <=> Owns(t)
  /\ \A t \in Thread : holds[t] > 0 => recursion = holds[t] /\ pc[t] \notin {"taken", "release"}
  /\ \A t \in Thread : pc[t] \in {"taken", "release"} => recursion = 0
  /\ mutex.owner = NoThread => recursion = 0
  /\ \A t \in Thread : pc[t] = "unlock" => holds[t] = 1
  /\ \A t \in Thread : pc[t] = "drop" => holds[t] > 0 /\ level[t] = recursion
  /\ \A t \in Thread : pc[t] \in {"lock", "try"} /\ expected[t].owner = t => holds[t] > 0
  /\ ~ panicked

\* Until a thread unlocks the mutex without holding it.
MutexInv == trespassed \in BOOLEAN /\ (trespassed \/ Owned)

-----------------------------------------------------------------------------
(* Steps that leave a part of the state aside.                             *)

\* Thread t goes from one label outside of a set to another one.
Aside(t, labels) ==
  /\ pc[t] \notin labels /\ pc'[t] \notin labels
  /\ DOMAIN pc' = Thread
  /\ \A u \in Thread \ {t} : pc'[u] = pc[u]

MutexLabels == {"lock", "try", "taken", "release", "unlock", "drop"}
OnceLabels == {"function", "complete", "tell"}
RwLabels == {"m", "count", "readers", "rc", "rc_wait", "m_unlock", "leave"}

OnceStep(t) ==
  \/ Once(t) \/ OnceTake(t) \/ OnceLost(t) \/ Function(t) \/ Complete(t) \/ Tell(t)
  \/ OnceWait(t) \/ LookAgain(t)

RwStep(t) ==
  \/ \E how \in {"read", "write", "tryread", "trywrite"} : RwLock(t, how)
  \/ MBusy(t) \/ MTake(t) \/ MSetWaiters(t) \/ MWait(t) \/ Count(t)
  \/ MUnlock(t) \/ MWake(t)
  \/ Readers(t) \/ MarkReaders(t) \/ ReadersWait(t) \/ Leave(t) \/ RwUnlock(t)

MutexStep(t) ==
  \/ Lock(t) \/ Take(t) \/ Taken(t) \/ Relock(t) \/ SetWaiters(t) \/ MutexWait(t)
  \/ TryLock(t) \/ Try(t) \/ Unlock(t) \/ Trespass(t) \/ Drop(t) \/ Release(t) \/ Wake(t)
  \/ CondWait(t) \/ CondUnlock(t) \/ CondSleep(t) \/ Broadcast(t) \/ Announce(t)

\* Every step is one of these.
LEMMA EveryStep ==
  ASSUME Next
  PROVE  \E t \in Thread : MutexStep(t) \/ OnceStep(t) \/ RwStep(t) \/ Spurious(t)
BY DEF Next, Step, Begin, LetGo, MutexStep, OnceStep, RwStep

\* The steps of pthread_once stay clear of the mutex.
LEMMA OnceAside ==
  ASSUME Types, NEW t \in Thread, OnceStep(t)
  PROVE  UNCHANGED <<mutexVars, rwVars, seq>> /\ Aside(t, MutexLabels) /\ Aside(t, RwLabels)
<1>a. DOMAIN pc = Thread BY DEF Types, MutexTypes
<1> USE <1>a DEF Aside, MutexLabels, RwLabels, Call, At, Go, notOnce, mutexVars, rwVars, condVars
<1>1. CASE Once(t) BY <1>1 DEF Once, Look
<1>2. CASE OnceTake(t) BY <1>2 DEF OnceTake
<1>3. CASE OnceLost(t) BY <1>3 DEF OnceLost, Look
<1>4. CASE Function(t) BY <1>4 DEF Function
<1>5. CASE Complete(t) BY <1>5 DEF Complete
<1>6. CASE Tell(t) BY <1>6 DEF Tell
<1>7. CASE OnceWait(t) BY <1>7 DEF OnceWait
<1>8. CASE LookAgain(t) BY <1>8 DEF LookAgain, Look
<1> QED
  BY <1>1, <1>2, <1>3, <1>4, <1>5, <1>6, <1>7, <1>8, Zenon DEF OnceStep

\* The steps of the reader-writer lock stay clear of the mutex and of pthread_once.
LEMMA RwAside ==
  ASSUME Types, NEW t \in Thread, RwStep(t)
  PROVE  UNCHANGED <<mutexVars, onceVars, seq>> /\ Aside(t, MutexLabels \cup OnceLabels)
<1>a. DOMAIN pc = Thread BY DEF Types, MutexTypes
<1> USE <1>a DEF Aside, MutexLabels, OnceLabels, Call, At, Go, notRw, mutexVars, onceVars, condVars
<1>1. ASSUME NEW how, RwLock(t, how)
      PROVE  UNCHANGED <<mutexVars, onceVars, seq>> /\ Aside(t, MutexLabels \cup OnceLabels)
  BY <1>1 DEF RwLock
<1>2. CASE MBusy(t) BY <1>2 DEF MBusy
<1>3. CASE MTake(t) BY <1>3 DEF MTake
<1>4. CASE MSetWaiters(t) BY <1>4 DEF MSetWaiters
<1>5. CASE MWait(t) BY <1>5 DEF MWait
<1>6. CASE Count(t) BY <1>6 DEF Count
<1>7. CASE MUnlock(t) BY <1>7 DEF MUnlock
<1>8. CASE MWake(t) BY <1>8 DEF MWake
<1>9. CASE Readers(t) BY <1>9 DEF Readers, Found
<1>10. CASE MarkReaders(t) BY <1>10 DEF MarkReaders, Found
<1>11. CASE ReadersWait(t) BY <1>11 DEF ReadersWait
<1>12. CASE Leave(t) BY <1>12 DEF Leave
<1>13. CASE RwUnlock(t)
  <2>1. /\ pc[t] = "ready" /\ UNCHANGED notRw
        /\ pc' = [pc EXCEPT ![t] = IF rc = NoReaders THEN "m_unlock" ELSE "leave"]
    BY <1>13 DEF RwUnlock
  <2> QED BY <2>1
<1> QED
  BY <1>1, <1>2, <1>3, <1>4, <1>5, <1>6, <1>7, <1>8, <1>9, <1>10, <1>11, <1>12, <1>13, Zenon
     DEF RwStep

\* The steps of the mutex stay clear of pthread_once.
LEMMA MutexStepAside ==
  ASSUME Types, NEW t \in Thread, MutexStep(t)
  PROVE  UNCHANGED <<onceVars, rwVars>> /\ Aside(t, OnceLabels) /\ Aside(t, RwLabels)
<1>a. DOMAIN pc = Thread BY DEF Types, MutexTypes
<1> USE <1>a DEF Aside, OnceLabels, RwLabels, Call, At, Go, notMutex, onceVars, rwVars
<1>1. CASE Lock(t) BY <1>1 DEF Lock
<1>2. CASE Take(t) BY <1>2 DEF Take
<1>3. CASE Taken(t) BY <1>3 DEF Taken
<1>4. CASE Relock(t) BY <1>4 DEF Relock
<1>5. CASE SetWaiters(t) BY <1>5 DEF SetWaiters, Contended
<1>6. CASE MutexWait(t) BY <1>6 DEF MutexWait, Contended
<1>7. CASE TryLock(t) BY <1>7 DEF TryLock
<1>8. CASE Try(t) BY <1>8 DEF Try
<1>9. CASE Unlock(t) BY <1>9 DEF Unlock, ReadLevel
<1>10. CASE Release(t) BY <1>10 DEF Release, AfterUnlock
<1>11. CASE Wake(t) BY <1>11 DEF Wake, AfterUnlock
<1>12. CASE CondWait(t) BY <1>12 DEF CondWait
<1>13. CASE CondUnlock(t) BY <1>13 DEF CondUnlock, ReadLevel
<1>14. CASE CondSleep(t) BY <1>14 DEF CondSleep
<1>15. CASE Broadcast(t) BY <1>15 DEF Broadcast
<1>16. CASE Announce(t) BY <1>16 DEF Announce
<1>17. CASE Trespass(t) BY <1>17 DEF Trespass, ReadLevel
<1>18. CASE Drop(t) BY <1>18 DEF Drop, AfterUnlock
<1> QED
  BY <1>1, <1>2, <1>3, <1>4, <1>5, <1>6, <1>7, <1>8, <1>9, <1>10, <1>11, <1>12,
     <1>13, <1>14, <1>15, <1>16, <1>17, <1>18, Zenon DEF MutexStep

-----------------------------------------------------------------------------
(* The mutex.                                                              *)

\* A step that leaves the mutex aside keeps what is said of it.
LEMMA MutexAside ==
  ASSUME Types, MutexInv, NEW t \in Thread, UNCHANGED mutexVars, Aside(t, MutexLabels)
  PROVE  MutexTypes' /\ MutexInv'
<1>1. \A u \in Thread : pc'[u] \in MutexLabels <=> pc[u] \in MutexLabels
  BY DEF Aside
<1>2. \A u \in Thread : pc'[u] \in MutexLabels => pc'[u] = pc[u]
  BY DEF Aside
<1>3. \A u \in Thread, l \in MutexLabels : pc'[u] = l <=> pc[u] = l
  BY <1>1, <1>2
<1>4. \A u \in Thread : pc'[u] = "drop" <=> pc[u] = "drop"
  BY <1>3 DEF MutexLabels
<1>5. MutexTypes'
  BY <1>4 DEF Types, MutexTypes, Aside, mutexVars, misuse
<1>6. \A u \in Thread : Owns(u)' <=> Owns(u)
  BY <1>3 DEF Owns, MutexLabels, mutexVars
<1>7. CASE trespassed BY <1>5, <1>7 DEF MutexInv, mutexVars, misuse
<1>8. CASE Owned
  <2>1. Owned' BY <1>3, <1>6, <1>8 DEF Owned, MutexLabels, mutexVars, misuse
  <2> QED BY <1>5, <2>1 DEF MutexInv, mutexVars, misuse
<1> QED BY <1>7, <1>8 DEF MutexInv

\* The types of the mutex, whoever unlocks it.
LEMMA MutexTypesKept ==
  ASSUME Types, NEW t \in Thread, MutexStep(t)
  PROVE  MutexTypes'
<1>a. MutexTypes BY DEF Types
<1>b. Free \in MutexWord /\ \A u \in Thread : [Free EXCEPT !.owner = u] \in MutexWord
  BY DEF Free, MutexWord
<1>c. [mutex EXCEPT !.waiters = TRUE] \in MutexWord BY <1>a DEF MutexTypes, MutexWord
<1> USE <1>a, <1>b, <1>c DEF MutexTypes, Call, At, Go, Expect, misuse
<1>1. CASE Lock(t) BY <1>1 DEF Lock
<1>2. CASE Take(t) BY <1>2 DEF Take
<1>3. CASE Taken(t) BY <1>3 DEF Taken, Ensure
<1>4. CASE Relock(t) BY <1>4 DEF Relock
<1>5. CASE SetWaiters(t) BY <1>5 DEF SetWaiters
<1>6. CASE MutexWait(t) BY <1>6 DEF MutexWait
<1>7. CASE TryLock(t) BY <1>7 DEF TryLock
<1>8. CASE Try(t) BY <1>8 DEF Try
<1>9. CASE Unlock(t) BY <1>9 DEF Unlock, ReadLevel, Ensure
<1>10. CASE Release(t) BY <1>10 DEF Release, AfterUnlock, Ensure
<1>11. CASE Wake(t) BY <1>11 DEF Wake, AfterUnlock, mutexVars
<1>12. CASE CondWait(t) BY <1>12 DEF CondWait, mutexVars
<1>13. CASE CondUnlock(t) BY <1>13 DEF CondUnlock, ReadLevel, Ensure
<1>14. CASE CondSleep(t) BY <1>14 DEF CondSleep
<1>15. CASE Broadcast(t) BY <1>15 DEF Broadcast, mutexVars
<1>16. CASE Announce(t) BY <1>16 DEF Announce, mutexVars
<1>17. CASE Trespass(t) BY <1>17 DEF Trespass, ReadLevel, Ensure
<1>18. CASE Drop(t) BY <1>18 DEF Drop, AfterUnlock
<1> QED
  BY <1>1, <1>2, <1>3, <1>4, <1>5, <1>6, <1>7, <1>8, <1>9, <1>10, <1>11, <1>12,
     <1>13, <1>14, <1>15, <1>16, <1>17, <1>18, Zenon DEF MutexStep

\* A thread that takes the free mutex owns it from then on, as the only one.
LEMMA Taking ==
  ASSUME Types, Owned, NEW t \in Thread, mutex = Free, pc[t] \in {"lock", "try"},
         mutex' = [Free EXCEPT !.owner = t], Go(t, "taken"),
         UNCHANGED <<recursion, holds, expected, misuse>>
  PROVE  Owned'
<1> USE PthreadConstants DEF Types, MutexTypes, Free, MutexWord, misuse
<1>1. mutex' = [owner |-> t, waiters |-> FALSE]
  BY Zenon
<1>2. /\ DOMAIN pc' = Thread /\ pc'[t] = "taken"
      /\ \A u \in Thread \ {t} : pc'[u] = pc[u]
  BY DEF Go
<1>3. mutex.owner = NoThread /\ \A u \in Thread : ~Owns(u)
  BY DEF Owned
<1>4. \A u \in Thread : holds[u] = 0
  BY <1>3 DEF Owns
<1>5. recursion = 0
  BY <1>3 DEF Owned
<1>6. \A u \in Thread : mutex'.owner = u <=> Owns(u)'
  BY <1>1, <1>2, <1>3, <1>4 DEF Owns
<1> QED
  BY <1>1, <1>2, <1>4, <1>5, <1>6 DEF Owned

\* The steps of the mutex and of the condition variable, when nobody trespasses.
LEMMA OwnedKept ==
  ASSUME Types, Owned, NEW t \in Thread, MutexStep(t), ~ Trespass(t)
  PROVE  Owned'
<1>a. NoThread \notin Thread BY PthreadConstants
<1> USE <1>a DEF Types, MutexTypes, Owned, Owns, MutexWord, Free, Call, At, Go, Expect, misuse
<1>1. CASE Lock(t) BY <1>1 DEF Lock
<1>2. CASE Take(t)
  <2>1. CASE mutex = Free
    BY <1>2, <2>1, Taking, Zenon DEF Take
  <2>2. CASE mutex # Free
    <3>1. /\ pc[t] = "lock" /\ expected' = [expected EXCEPT ![t] = mutex]
          /\ UNCHANGED <<mutex, recursion, holds, pc, misuse>>
      BY <1>2, <2>2 DEF Take
    <3> QED BY <3>1
  <2> QED BY <2>1, <2>2
<1>3. CASE Taken(t) BY <1>3 DEF Taken, Ensure
<1>4. CASE Relock(t) BY <1>4 DEF Relock
<1>5. CASE SetWaiters(t)
  <2>1. CASE mutex = expected[t]
    <3>1. /\ mutex' = [mutex EXCEPT !.waiters = TRUE]
          /\ expected' = [expected EXCEPT ![t] = mutex']
      BY <1>5, <2>1, Zenon DEF SetWaiters
    <3>2. mutex' \in MutexWord /\ mutex'.owner = mutex.owner BY <3>1, Zenon
    <3> QED BY <1>5, <2>1, <3>1, <3>2 DEF SetWaiters, Contended
  <2>2. CASE mutex # expected[t]
    BY <1>5, <2>2 DEF SetWaiters, Contended
  <2> QED BY <2>1, <2>2
<1>6. CASE MutexWait(t) BY <1>6 DEF MutexWait, Contended
<1>7. CASE TryLock(t) BY <1>7 DEF TryLock
<1>8. CASE Try(t)
  <2>1. CASE expected[t] = Free /\ mutex = Free
    BY <1>8, <2>1, Taking, Zenon DEF Try
  <2>2. CASE ~(expected[t] = Free /\ mutex = Free)
    BY <1>8, <2>2 DEF Try
  <2> QED BY <2>1, <2>2
<1>9. CASE Unlock(t) BY <1>9 DEF Unlock, ReadLevel, Ensure
<1>10. CASE Release(t)
  <2>1. /\ pc[t] = "release" /\ mutex' = [owner |-> NoThread, waiters |-> FALSE]
        /\ UNCHANGED <<recursion, holds, expected, level>>
    BY <1>10 DEF Release
  <2>2. /\ DOMAIN pc' = Thread /\ pc'[t] \in {"wake", "ready", "sleep"}
        /\ \A u \in Thread \ {t} : pc'[u] = pc[u]
    BY <1>10 DEF Release, AfterUnlock
  <2>3. recursion = 0 /\ \A u \in Thread \ {t} : ~ Owns(u) BY <2>1
  <2>4. \A u \in Thread : holds[u] = 0 BY <2>1, <2>3
  <2>5. \A u \in Thread : ~ Owns(u)' BY <2>1, <2>2, <2>3, <2>4
  <2>6. mutex.owner = t BY <2>1
  <2>7. ~ panicked' BY <1>10, <2>6 DEF Release, Ensure
  <2> QED BY <2>1, <2>2, <2>3, <2>4, <2>5, <2>7
<1>11. CASE Wake(t) BY <1>11 DEF Wake, AfterUnlock, mutexVars
<1>12. CASE CondWait(t) BY <1>12 DEF CondWait, mutexVars
<1>13. CASE CondUnlock(t) BY <1>13 DEF CondUnlock, ReadLevel, Ensure
<1>14. CASE CondSleep(t) BY <1>14 DEF CondSleep
<1>15. CASE Broadcast(t) BY <1>15 DEF Broadcast, mutexVars
<1>16. CASE Announce(t) BY <1>16 DEF Announce, mutexVars
<1>17. CASE Drop(t)
  <2>1. pc[t] = "drop" /\ holds[t] > 0 /\ level[t] = recursion /\ recursion = holds[t]
    BY <1>17 DEF Drop
  <2>2. /\ recursion' = recursion - 1 /\ holds' = [holds EXCEPT ![t] = @ - 1]
        /\ UNCHANGED <<mutex, expected, panicked>>
        /\ \A u \in Thread \ {t} : level'[u] = level[u] /\ pc'[u] = pc[u]
        /\ pc'[t] \in {"release", "ready", "sleep"} /\ (pc'[t] = "release" <=> recursion = 1)
    BY <1>17, <2>1 DEF Drop, AfterUnlock
  <2> QED BY <2>1, <2>2
<1> QED
  BY <1>1, <1>2, <1>3, <1>4, <1>5, <1>6, <1>7, <1>8, <1>9, <1>10, <1>11, <1>12,
     <1>13, <1>14, <1>15, <1>16, <1>17, Zenon DEF MutexStep

\* Only a trespass says that somebody has trespassed.
LEMMA TrespassedStays ==
  ASSUME NEW t \in Thread, MutexStep(t)
  PROVE  IF Trespass(t) THEN trespassed' = TRUE ELSE UNCHANGED trespassed
<1> USE DEF misuse, mutexVars
<1>1. CASE Trespass(t) BY <1>1 DEF Trespass
<1>2. CASE ~ Trespass(t)
  BY <1>2 DEF MutexStep, Lock, Take, Taken, Relock, SetWaiters, MutexWait, TryLock, Try, Unlock,
     Drop, Release, Wake, CondWait, CondUnlock, CondSleep, Broadcast, Announce
<1> QED BY <1>1, <1>2

LEMMA MutexKept ==
  ASSUME Types, MutexInv, NEW t \in Thread, MutexStep(t)
  PROVE  MutexTypes' /\ MutexInv'
<1>1. MutexTypes' BY MutexTypesKept
<1>2. IF Trespass(t) THEN trespassed' = TRUE ELSE UNCHANGED trespassed BY TrespassedStays
<1>3. CASE Trespass(t) BY <1>1, <1>2, <1>3 DEF MutexInv
<1>4. CASE ~ Trespass(t)
  <2>1. Owned => Owned' BY <1>4, OwnedKept
  <2> QED BY <1>1, <1>2, <1>4, <2>1 DEF MutexInv
<1> QED BY <1>3, <1>4

-----------------------------------------------------------------------------
(* pthread_once.                                                           *)

\* At most one thread is at the function or behind it, and the word says where.
OnceInv ==
  /\ ran \in {0, 1}
  /\ done = "no" => ran = 0
  /\ done = "complete" => ran = 1
  /\ passed # {} => done = "complete"
  /\ \A t \in Thread : pc[t] = "function" => done = "locked" /\ ran = 0
  /\ \A t \in Thread : pc[t] = "complete" => done = "locked" /\ ran = 1
  /\ \A t \in Thread : pc[t] = "tell" => done = "complete"
  /\ \A t, u \in Thread : {pc[t], pc[u]} \subseteq {"function", "complete"} => t = u

LEMMA OnceInvAside ==
  ASSUME Types, OnceInv, NEW t \in Thread, UNCHANGED onceVars, Aside(t, OnceLabels)
  PROVE  OnceInv'
<1>1. \A u \in Thread : pc'[u] \in OnceLabels => pc'[u] = pc[u]
  BY DEF Aside
<1> QED BY <1>1 DEF OnceInv, OnceLabels, onceVars

LEMMA OnceKept ==
  ASSUME Types, OnceInv, NEW t \in Thread, OnceStep(t)
  PROVE  OnceInv'
<1> USE DEF Types, MutexTypes, OnceInv, Call, At, Go
<1>1. CASE Once(t) BY <1>1 DEF Once, Look
<1>2. CASE OnceTake(t) BY <1>2 DEF OnceTake
<1>3. CASE OnceLost(t) BY <1>3 DEF OnceLost, Look
<1>4. CASE Function(t) BY <1>4 DEF Function
<1>5. CASE Complete(t) BY <1>5 DEF Complete
<1>6. CASE Tell(t) BY <1>6 DEF Tell
<1>7. CASE OnceWait(t) BY <1>7 DEF OnceWait, onceVars
<1>8. CASE LookAgain(t) BY <1>8 DEF LookAgain, Look
<1> QED
  BY <1>1, <1>2, <1>3, <1>4, <1>5, <1>6, <1>7, <1>8 DEF OnceStep

-----------------------------------------------------------------------------
(* The sleepers of the futexes.                                            *)

\* Nobody sleeps on a word without its waiters bit, and nobody sets that of rc.
SleepInv ==
  /\ rc.waiters = FALSE
  /\ \A s \in asleep : s.word \in {"mutex", "seq", "done", "m"}
  /\ \A s \in asleep : s.word = "mutex" =>
       /\ s.value.waiters = TRUE
       /\ mutex = s.value \/ trespassed \/ \E u \in Thread : pc[u] = "wake"
  /\ \A s \in asleep : s.word = "seq" =>
       seq = s.value \/ \E u \in Thread : pc[u] = "announce"
  /\ \A s \in asleep : s.word = "done" =>
       s.value = "locked" /\ (done = s.value \/ \E u \in Thread : pc[u] = "tell")
  /\ \A s \in asleep : s.word = "m" =>
       /\ s.value.locked = TRUE /\ s.value.waiters = TRUE
       /\ (m = s.value \/ \E u \in Thread : pc[u] = "m_wake")

LEMMA RwTypesKept ==
  ASSUME Types, CountMask \in Nat, NEW t \in Thread, RwStep(t)
  PROVE  RwTypes'
<1> USE DEF Types, RwTypes, MWord, RcWord, MFree, NoReaders, MExpect, RcExpect, rwVars
<1>1. ASSUME NEW how, RwLock(t, how) PROVE RwTypes'
  BY <1>1 DEF RwLock
<1>2. CASE MBusy(t) BY <1>2, Zenon DEF MBusy
<1>3. CASE MTake(t)
  <2>1. Excl(t) \in BOOLEAN BY DEF Excl
  <2>2. PICK e \in BOOLEAN :
          m' = m \/ m' = [locked |-> TRUE, excl |-> e, waiters |-> FALSE]
    BY <1>3, <2>1, Zenon DEF MTake
  <2>3. m' \in MWord
    <3>1. CASE m' = m BY <3>1
    <3>2. CASE m' = [locked |-> TRUE, excl |-> e, waiters |-> FALSE] BY <3>2
    <3> QED BY <2>2, <3>1, <3>2
  <2> QED BY <1>3, <2>3 DEF MTake
<1>4. CASE MSetWaiters(t)
  <2>1. m' = m \/ m' = [m EXCEPT !.waiters = TRUE] BY <1>4, Zenon DEF MSetWaiters
  <2>2. m' \in MWord BY <2>1, Zenon
  <2>3. mExpected' = [mExpected EXCEPT ![t] = m'] BY <1>4, Zenon DEF MSetWaiters
  <2> QED BY <1>4, <2>2, <2>3 DEF MSetWaiters
<1>5. CASE MWait(t) BY <1>5 DEF MWait
<1>6. CASE Count(t) BY <1>6 DEF Count
<1>7. CASE MUnlock(t) BY <1>7 DEF MUnlock
<1>8. CASE MWake(t) BY <1>8 DEF MWake
<1>9. CASE Readers(t) BY <1>9 DEF Readers, Found
<1>10. CASE MarkReaders(t)
  <2>1. rc' \in RcWord BY <1>10 DEF MarkReaders
  <2>2. rcExpected' \in [Thread -> RcWord] BY <1>10 DEF MarkReaders, Found
  <2> QED BY <1>10, <2>1, <2>2 DEF MarkReaders
<1>11. CASE ReadersWait(t) BY <1>11 DEF ReadersWait
<1>12. CASE Leave(t)
  <2>1. rc' = rc \/ rc' = NoReaders \/ rc' = [rc EXCEPT !.count = @ - 1]
    BY <1>12, Zenon DEF Leave
  <2>2. rc' \in RcWord
    <3>1. CASE rc' = rc BY <3>1
    <3>2. CASE rc' = NoReaders BY <3>2
    <3>3. CASE rc' = [rc EXCEPT !.count = @ - 1] BY <3>3
    <3> QED BY <2>1, <3>1, <3>2, <3>3
  <2>3. rcExpected' \in [Thread -> RcWord] BY <1>12 DEF Leave
  <2> QED BY <1>12, <2>2, <2>3 DEF Leave
<1>13. CASE RwUnlock(t)
  <2>1. UNCHANGED <<m, mExpected, rc>> /\ rcExpected' = [rcExpected EXCEPT ![t] = rc]
    BY <1>13, Zenon DEF RwUnlock
  <2> QED BY <2>1
<1> QED
  BY <1>1, <1>2, <1>3, <1>4, <1>5, <1>6, <1>7, <1>8, <1>9, <1>10, <1>11, <1>12, <1>13, Zenon
     DEF RwStep

\* Who is about to wake the sleepers of a word.
WakeLabels == {"wake", "announce", "tell", "m_wake"}

\* A step that changes no word, puts nobody to sleep and keeps who will wake them.
LEMMA SleepStays ==
  ASSUME SleepInv, UNCHANGED <<mutex, seq, done, m>>, rc'.waiters = FALSE,
         trespassed => trespassed',
         \A s \in asleep' : s \in asleep,
         \A u \in Thread : pc[u] \in WakeLabels => pc'[u] = pc[u]
  PROVE  SleepInv'
BY DEF SleepInv, WakeLabels

LEMMA SleepMutex ==
  ASSUME Types, MutexInv, SleepInv, NEW t \in Thread, MutexStep(t)
  PROVE  SleepInv'
<1>a. DOMAIN pc = Thread BY DEF Types, MutexTypes
<1>b. rc.waiters = FALSE BY DEF SleepInv
<1>c. trespassed => trespassed' BY TrespassedStays
<1> USE <1>c DEF Call, At, Go, notMutex, mutexVars, condVars, onceVars, rwVars, misuse
<1>1. CASE Lock(t) BY <1>a, <1>b, <1>1, SleepStays, Zenon DEF Lock, WakeLabels
<1>2. CASE Take(t)
  <2>1. CASE mutex = Free
    <3>1. ~ mutex.waiters BY <2>1 DEF Free
    <3>2. UNCHANGED <<seq, done, m, rc, asleep>> /\ pc[t] = "lock" /\ pc' = [pc EXCEPT ![t] = "taken"]
      BY <1>2, <2>1 DEF Take
    <3> QED BY <1>a, <3>1, <3>2 DEF SleepInv
  <2>2. CASE mutex # Free BY <1>2, <2>2, <1>b, SleepStays, Zenon DEF Take
  <2> QED BY <2>1, <2>2
<1>3. CASE Taken(t) BY <1>a, <1>b, <1>3, SleepStays, Zenon DEF Taken, WakeLabels
<1>4. CASE Relock(t) BY <1>a, <1>b, <1>4, SleepStays, Zenon DEF Relock, WakeLabels
<1>5. CASE SetWaiters(t)
  <2>1. CASE mutex = expected[t]
    <3>1. UNCHANGED <<seq, done, m, rc, asleep, pc>> /\ ~ mutex.waiters
      BY <1>5, <2>1 DEF SetWaiters
    <3> QED BY <3>1 DEF SleepInv
  <2>2. CASE mutex # expected[t] BY <1>5, <2>2, <1>b, SleepStays, Zenon DEF SetWaiters
  <2> QED BY <2>1, <2>2
<1>6. CASE MutexWait(t)
  <2>1. CASE mutex = expected[t]
    <3>1. /\ UNCHANGED <<mutex, seq, done, m, rc, pc>> /\ mutex.waiters
          /\ asleep' = asleep \cup {[thread |-> t, word |-> "mutex", value |-> mutex]}
      BY <1>6, <2>1 DEF MutexWait, FutexWait
    <3>2. mutex.waiters = TRUE
      BY <3>1 DEF Types, MutexTypes, MutexWord
    <3> QED BY <3>1, <3>2 DEF SleepInv
  <2>2. CASE mutex # expected[t] BY <1>6, <2>2, <1>b, SleepStays, Zenon DEF MutexWait, FutexWait
  <2> QED BY <2>1, <2>2
<1>7. CASE TryLock(t) BY <1>a, <1>b, <1>7, SleepStays, Zenon DEF TryLock, WakeLabels
<1>8. CASE Try(t)
  <2>1. CASE expected[t] = Free /\ mutex = Free
    <3>1. ~ mutex.waiters BY <2>1 DEF Free
    <3>2. UNCHANGED <<seq, done, m, rc, asleep>> /\ pc[t] = "try" /\ pc' = [pc EXCEPT ![t] = "taken"]
      BY <1>8, <2>1 DEF Try
    <3> QED BY <1>a, <3>1, <3>2 DEF SleepInv
  <2>2. CASE ~(expected[t] = Free /\ mutex = Free)
    BY <1>8, <2>2, <1>a, <1>b, SleepStays, Zenon DEF Try, WakeLabels
  <2> QED BY <2>1, <2>2
<1>9. CASE Unlock(t) BY <1>a, <1>b, <1>9, SleepStays, Zenon DEF Unlock, ReadLevel, WakeLabels
<1>10. CASE Release(t)
  <2>1. UNCHANGED <<seq, done, m, rc, asleep, trespassed>> /\ pc[t] = "release"
    BY <1>10 DEF Release
  <2>2. CASE mutex.owner = t /\ mutex.waiters
    <3>1. pc' = [pc EXCEPT ![t] = "wake"] BY <1>10, <2>2 DEF Release
    <3> QED BY <1>a, <2>1, <3>1 DEF SleepInv
  <2>3. CASE ~ (mutex.owner = t /\ mutex.waiters)
    <3>1. trespassed \/ ~ mutex.waiters BY <2>1, <2>3 DEF MutexInv, Owned, Owns
    <3>2. pc' = [pc EXCEPT ![t] = AfterUnlock(t)] BY <1>10, <2>3 DEF Release
    <3> QED BY <1>a, <2>1, <3>1, <3>2 DEF SleepInv
  <2> QED BY <2>2, <2>3
<1>11. CASE Wake(t)
  <2>1. /\ UNCHANGED <<mutex, seq, done, m, rc>> /\ pc[t] = "wake"
        /\ pc' = [pc EXCEPT ![t] = AfterUnlock(t)]
        /\ asleep' = {s \in asleep : s.word # "mutex"}
    BY <1>11 DEF Wake, FutexWake
  <2> QED BY <1>a, <2>1 DEF SleepInv
<1>12. CASE CondWait(t) BY <1>a, <1>b, <1>12, SleepStays, Zenon DEF CondWait, WakeLabels
<1>13. CASE CondUnlock(t) BY <1>a, <1>b, <1>13, SleepStays, Zenon DEF CondUnlock, ReadLevel, WakeLabels
<1>14. CASE CondSleep(t)
  <2>1. UNCHANGED <<mutex, seq, done, m, rc>> /\ pc[t] = "sleep" /\ pc' = [pc EXCEPT ![t] = "lock"]
    BY <1>14 DEF CondSleep
  <2>2. CASE asleep' = asleep BY <1>a, <1>b, <2>1, <2>2, SleepStays, Zenon DEF WakeLabels
  <2>3. CASE asleep' = asleep \cup {[thread |-> t, word |-> "seq", value |-> seq]}
    BY <1>a, <2>1, <2>3 DEF SleepInv
  <2> QED BY <1>14, <2>2, <2>3 DEF CondSleep, FutexWait
<1>15. CASE Broadcast(t)
  <2>1. /\ UNCHANGED <<mutex, done, m, rc, asleep>> /\ pc[t] = "ready"
        /\ pc' = [pc EXCEPT ![t] = "announce"]
    BY <1>15 DEF Broadcast
  <2> QED BY <1>a, <2>1 DEF SleepInv
<1>16. CASE Announce(t)
  <2>1. /\ UNCHANGED <<mutex, seq, done, m, rc>> /\ pc[t] = "announce"
        /\ pc' = [pc EXCEPT ![t] = "ready"]
        /\ asleep' = {s \in asleep : s.word # "seq"}
    BY <1>16 DEF Announce, FutexWake
  <2> QED BY <1>a, <2>1 DEF SleepInv
<1>17. CASE Trespass(t) BY <1>a, <1>b, <1>17, SleepStays, Zenon DEF Trespass, ReadLevel, WakeLabels
<1>18. CASE Drop(t) BY <1>a, <1>b, <1>18, SleepStays, Zenon DEF Drop, WakeLabels
<1> QED
  BY <1>1, <1>2, <1>3, <1>4, <1>5, <1>6, <1>7, <1>8, <1>9, <1>10, <1>11, <1>12,
     <1>13, <1>14, <1>15, <1>16, <1>17, <1>18, Zenon DEF MutexStep

LEMMA SleepOnce ==
  ASSUME Types, SleepInv, NEW t \in Thread, OnceStep(t)
  PROVE  SleepInv'
<1>a. DOMAIN pc = Thread BY DEF Types, MutexTypes
<1>b. rc.waiters = FALSE BY DEF SleepInv
<1>t. trespassed => trespassed' BY OnceAside DEF mutexVars, misuse
<1> USE <1>t DEF Call, At, Go, notOnce, mutexVars, condVars, onceVars, rwVars, misuse
<1>1. CASE Once(t) BY <1>a, <1>b, <1>1, SleepStays, Zenon DEF Once, Look, WakeLabels
<1>2. CASE OnceTake(t)
  <2>1. /\ UNCHANGED <<mutex, seq, m, rc, asleep>> /\ pc[t] = "once" /\ done = "no"
        /\ pc' = [pc EXCEPT ![t] = "function"]
    BY <1>2 DEF OnceTake
  <2> QED BY <1>a, <2>1 DEF SleepInv
<1>3. CASE OnceLost(t) BY <1>a, <1>b, <1>3, SleepStays, Zenon DEF OnceLost, Look, WakeLabels
<1>4. CASE Function(t) BY <1>a, <1>b, <1>4, SleepStays, Zenon DEF Function, WakeLabels
<1>5. CASE Complete(t)
  <2>1. /\ UNCHANGED <<mutex, seq, m, rc, asleep>> /\ pc[t] = "complete"
        /\ pc' = [pc EXCEPT ![t] = "tell"]
    BY <1>5 DEF Complete
  <2> QED BY <1>a, <2>1 DEF SleepInv
<1>6. CASE Tell(t)
  <2>1. /\ UNCHANGED <<mutex, seq, done, m, rc>> /\ pc[t] = "tell"
        /\ pc' = [pc EXCEPT ![t] = "ready"]
        /\ asleep' = {s \in asleep : s.word # "done"}
    BY <1>6 DEF Tell, FutexWake
  <2> QED BY <1>a, <2>1 DEF SleepInv
<1>7. CASE OnceWait(t)
  <2>1. UNCHANGED <<mutex, seq, done, m, rc>> /\ pc[t] = "once" /\ pc' = [pc EXCEPT ![t] = "look"]
    BY <1>7 DEF OnceWait
  <2>2. CASE asleep' = asleep BY <1>a, <1>b, <2>1, <2>2, SleepStays, Zenon DEF WakeLabels
  <2>3. CASE done = "locked" /\ asleep' = asleep \cup {[thread |-> t, word |-> "done", value |-> "locked"]}
    BY <1>a, <2>1, <2>3 DEF SleepInv
  <2> QED BY <1>7, <2>2, <2>3 DEF OnceWait, FutexWait
<1>8. CASE LookAgain(t) BY <1>a, <1>b, <1>8, SleepStays, Zenon DEF LookAgain, Look, WakeLabels
<1> QED
  BY <1>1, <1>2, <1>3, <1>4, <1>5, <1>6, <1>7, <1>8, Zenon DEF OnceStep

LEMMA SleepRw ==
  ASSUME Types, SleepInv, NEW t \in Thread, RwStep(t)
  PROVE  SleepInv'
<1>a. DOMAIN pc = Thread BY DEF Types, MutexTypes
<1>b. rc.waiters = FALSE BY DEF SleepInv
<1>c. m \in MWord /\ rc \in RcWord BY DEF Types, RwTypes
<1>t. trespassed => trespassed' BY RwAside DEF mutexVars, misuse
<1> USE <1>t DEF Call, At, Go, notRw, mutexVars, condVars, onceVars, rwVars, misuse
<1>1. ASSUME NEW how, RwLock(t, how) PROVE SleepInv'
  BY <1>a, <1>b, <1>1, SleepStays, Zenon DEF RwLock, WakeLabels
<1>2. CASE MBusy(t) BY <1>a, <1>b, <1>2, SleepStays, ZenonT(30) DEF MBusy, WakeLabels
<1>3. CASE MTake(t)
  <2>1. UNCHANGED <<mutex, seq, done, rc, asleep>> /\ pc[t] = "m" BY <1>3 DEF MTake
  <2>2. CASE m = mExpected[t]
    <3>1. ~ m.locked BY <1>3, <2>2, ZenonT(30) DEF MTake
    <3>2. \A u \in Thread \ {t} : pc'[u] = pc[u] BY <1>a, <1>3, <2>2 DEF MTake
    <3> QED BY <2>1, <3>1, <3>2 DEF SleepInv
  <2>3. CASE m # mExpected[t]
    <3>1. UNCHANGED <<m, pc>> BY <1>3, <2>3, Zenon DEF MTake
    <3> QED BY <1>b, <2>1, <3>1 DEF SleepInv
  <2> QED BY <2>2, <2>3
<1>4. CASE MSetWaiters(t)
  <2>1. CASE m = mExpected[t]
    <3>1. UNCHANGED <<mutex, seq, done, rc, asleep, pc>> /\ ~ m.waiters
      BY <1>4, <2>1 DEF MSetWaiters
    <3> QED BY <3>1 DEF SleepInv
  <2>2. CASE m # mExpected[t]
    <3>1. UNCHANGED <<mutex, seq, done, m, rc, asleep, pc>> BY <1>4, <2>2 DEF MSetWaiters
    <3> QED BY <3>1 DEF SleepInv
  <2> QED BY <2>1, <2>2
<1>5. CASE MWait(t)
  <2>1. UNCHANGED <<mutex, seq, done, m, rc, pc>> BY <1>5, ZenonT(30) DEF MWait
  <2>2. CASE m = mExpected[t]
    <3>1. /\ m.locked /\ m.waiters
          /\ asleep' = asleep \cup {[thread |-> t, word |-> "m", value |-> m]}
      BY <1>5, <2>2 DEF MWait, FutexWait
    <3>2. m.locked = TRUE /\ m.waiters = TRUE BY <1>c, <3>1 DEF MWord
    <3> QED BY <2>1, <3>1, <3>2 DEF SleepInv
  <2>3. CASE m # mExpected[t]
    <3>1. asleep' = asleep BY <1>5, <2>3 DEF MWait, FutexWait
    <3> QED BY <1>b, <2>1, <3>1, SleepStays, Zenon
  <2> QED BY <2>2, <2>3
<1>6. CASE Count(t)
  <2>1. rc'.waiters = FALSE BY <1>b, <1>c, <1>6 DEF Count, RcWord
  <2> QED BY <1>a, <1>6, <2>1, SleepStays, Zenon DEF Count, WakeLabels
<1>7. CASE MUnlock(t)
  <2>1. UNCHANGED <<mutex, seq, done, rc, asleep>> /\ pc[t] = "m_unlock" BY <1>7 DEF MUnlock
  <2>2. CASE m.waiters
    <3>1. pc' = [pc EXCEPT ![t] = "m_wake"] BY <1>7, <2>2 DEF MUnlock
    <3> QED BY <1>a, <2>1, <3>1 DEF SleepInv
  <2>3. CASE ~ m.waiters
    <3>1. pc' = [pc EXCEPT ![t] = "ready"] BY <1>7, <2>3 DEF MUnlock
    <3> QED BY <1>a, <2>1, <2>3, <3>1 DEF SleepInv
  <2> QED BY <2>2, <2>3
<1>8. CASE MWake(t)
  <2>1. /\ UNCHANGED <<mutex, seq, done, m, rc>> /\ pc[t] = "m_wake"
        /\ pc' = [pc EXCEPT ![t] = "ready"]
        /\ asleep' = {s \in asleep : s.word # "m"}
    BY <1>8 DEF MWake, FutexWake
  <2> QED BY <1>a, <2>1 DEF SleepInv
<1>9. CASE Readers(t)
  <2>1. \A u \in Thread \ {t} : pc'[u] = pc[u] BY <1>a, <1>9 DEF Readers, Found
  <2> QED BY <1>b, <1>9, <2>1, SleepStays, Zenon DEF Readers, WakeLabels
<1>10. CASE MarkReaders(t)
  <2>1. \A u \in Thread \ {t} : pc'[u] = pc[u] BY <1>a, <1>10 DEF MarkReaders, Found
  <2>2. rc'.waiters = FALSE BY <1>b, <1>c, <1>10 DEF MarkReaders, RcWord
  <2> QED BY <1>10, <2>1, <2>2, SleepStays, Zenon DEF MarkReaders, WakeLabels
<1>11. CASE ReadersWait(t)
  <2>1. rcExpected[t] \in RcWord BY DEF Types, RwTypes
  <2>2. rc # [rcExpected[t] EXCEPT !.waiters = TRUE] BY <1>b, <2>1 DEF RcWord
  <2> QED BY <1>a, <1>b, <1>11, <2>2, SleepStays, Zenon DEF ReadersWait, FutexWait, WakeLabels
<1>12. CASE Leave(t)
  <2>1. UNCHANGED <<mutex, seq, done, m>> /\ pc[t] = "leave" BY <1>12 DEF Leave
  <2>2. \A u \in Thread \ {t} : pc'[u] = pc[u] BY <1>a, <1>12 DEF Leave
  <2>3. rc' = rc \/ rc' = [rc EXCEPT !.count = @ - 1] BY <1>b, <1>12 DEF Leave
  <2>4. rc'.waiters = FALSE BY <1>b, <1>c, <2>3 DEF RcWord
  <2>5. \A s \in asleep' : s \in asleep BY <1>12 DEF Leave
  <2> QED BY <2>1, <2>2, <2>4, <2>5, SleepStays, Zenon DEF WakeLabels
<1>13. CASE RwUnlock(t) BY <1>a, <1>b, <1>13, SleepStays, Zenon DEF RwUnlock, WakeLabels
<1> QED
  BY <1>1, <1>2, <1>3, <1>4, <1>5, <1>6, <1>7, <1>8, <1>9, <1>10, <1>11, <1>12, <1>13, Zenon
     DEF RwStep

\* A wait that ends by itself only takes a sleeper away.
LEMMA SleepSpurious ==
  ASSUME SleepInv, NEW t \in Thread, Spurious(t)
  PROVE  SleepInv'
BY DEF SleepInv, Spurious, mutexVars, misuse, condVars, onceVars, rwVars

-------------------------------------------------------------------------------

(* The reader-writer lock.                                                 *)

\* Who has locked m: a writer that is through, or a thread at one of some steps.
HoldsM(t) ==
  rwHolds[t] = "write" \/ pc[t] \in {"count", "readers", "rc", "rc_wait", "m_unlock"}

\* Who is in the count: a reader, until its unlock has taken it out.
Counted == {t \in Thread : rwHolds[t] = "read" \/ pc[t] = "leave"}

RwInv ==
  /\ rwHolds \in [Thread -> {"none", "read", "write"}]
  /\ \A t \in Thread : HoldsM(t) => m.locked = TRUE
  /\ \A t, u \in Thread : HoldsM(t) /\ HoldsM(u) => t = u
  /\ \A t \in Thread : rwHolds[t] = "write" => rc = NoReaders
  /\ \A t \in Thread : pc[t] \in RwLabels \ {"m_unlock"} => rwHolds[t] = "none"
  /\ \A t \in Thread : pc[t] = "m_unlock" => rwHolds[t] # "write"
  /\ \A t \in Thread : pc[t] = "leave" => rcExpected[t].count > 0
  /\ Cardinality(Counted) <= rc.count

LEMMA CountedFinite ==
  /\ IsFiniteSet(Counted) /\ Cardinality(Counted) \in Nat
  /\ Cardinality(Counted) <= Cardinality(Thread)
  /\ \A t \in Counted : Cardinality(Counted) > 0
<1>1. Counted \in SUBSET Thread BY DEF Counted
<1>2. /\ IsFiniteSet(Counted)
      /\ Cardinality(Counted) <= Cardinality(Thread)
  BY <1>1, PthreadConstants, FS_Subset
<1>3. Cardinality(Counted) \in Nat BY <1>2, FS_CardinalityType
<1>4. Cardinality(Counted) = 0 <=> Counted = {} BY <1>2, FS_EmptySet
<1> QED BY <1>2, <1>3, <1>4

LEMMA OneMoreOrLess ==
  ASSUME NEW S, IsFiniteSet(S), NEW x
  PROVE  /\ Cardinality(S \cup {x}) <= Cardinality(S) + 1
         /\ x \in S => Cardinality(S \ {x}) = Cardinality(S) - 1
<1>1. Cardinality(S) \in Nat BY FS_CardinalityType
<1> QED BY <1>1, FS_AddElement, FS_RemoveElement

LEMMA RwInvAside ==
  ASSUME Types, RwInv, NEW t \in Thread, UNCHANGED rwVars, Aside(t, RwLabels)
  PROVE  RwInv'
<1>1. \A u \in Thread : pc'[u] \in RwLabels => pc'[u] = pc[u]
  BY DEF Aside
<1>2. \A u \in Thread : pc'[u] = "leave" <=> pc[u] = "leave" BY DEF Aside, RwLabels
<1>3. Counted' = Counted BY <1>2 DEF Counted, rwVars
<1> QED BY <1>1, <1>3 DEF RwInv, HoldsM, RwLabels, rwVars

\* A step that takes nobody into m, out of it or into the count.
LEMMA RwStays ==
  ASSUME RwInv, UNCHANGED <<rc, rwHolds, rcExpected>>, m'.locked = m.locked,
         \A u \in Thread : \/ pc'[u] = pc[u]
                           \/ pc[u] # "leave" /\ pc'[u] = "ready"
                           \/ pc[u] = "ready" /\ rwHolds[u] = "none" /\ pc'[u] = "m"
                           \/ pc[u] = "rc_wait" /\ pc'[u] = "readers"
  PROVE  RwInv'
<1>1. Counted' = Counted BY DEF Counted
<1>2. \A u \in Thread : HoldsM(u)' => HoldsM(u) BY DEF HoldsM
<1>3. \A u \in Thread : pc'[u] \in RwLabels => pc[u] \in RwLabels \/ rwHolds[u] = "none"
  BY DEF RwLabels
<1>4. /\ \A u \in Thread : pc'[u] \in RwLabels \ {"m_unlock"} => rwHolds[u] = "none"
      /\ \A u \in Thread : pc'[u] = "m_unlock" => pc[u] = "m_unlock"
      /\ \A u \in Thread : pc'[u] = "leave" => pc[u] = "leave"
  BY <1>3 DEF RwInv, RwLabels
<1> QED BY <1>1, <1>2, <1>4 DEF RwInv

\* A writer with m looks at the readers: it is through, gives up or goes on waiting.
LEMMA FoundKept ==
  ASSUME Types, RwInv, NEW t \in Thread, pc[t] \in {"readers", "rc"}, Found(t, rc),
         UNCHANGED <<m, rc>>
  PROVE  RwInv'
<1>a. DOMAIN pc = Thread /\ rcExpected \in [Thread -> RcWord] BY DEF Types, MutexTypes, RwTypes
<1>b. rwHolds \in [Thread -> {"none", "read", "write"}] BY DEF RwInv
<1>1. HoldsM(t) /\ rwHolds[t] = "none" BY DEF RwInv, HoldsM, RwLabels
<1>2. m.locked = TRUE /\ \A u \in Thread \ {t} : ~ HoldsM(u) BY <1>1 DEF RwInv
<1>3. \A u \in Thread \ {t} : rcExpected'[u] = rcExpected[u] BY <1>a DEF Found, RcExpect
<1>4. CASE rc = NoReaders
  <2>1. pc' = [pc EXCEPT ![t] = "ready"] /\ rwHolds' = [rwHolds EXCEPT ![t] = "write"]
    BY <1>4 DEF Found, Go
  <2>2. /\ pc'[t] = "ready" /\ rwHolds'[t] = "write"
        /\ \A u \in Thread \ {t} : pc'[u] = pc[u] /\ rwHolds'[u] = rwHolds[u]
    BY <1>a, <1>b, <2>1
  <2>3. Counted' = Counted BY <1>1, <2>2 DEF Counted
  <2>4. \A u \in Thread \ {t} : ~ HoldsM(u)' BY <1>2, <2>2 DEF HoldsM
  <2>5. rwHolds' \in [Thread -> {"none", "read", "write"}] BY <1>b, <2>1
  <2> QED BY <1>2, <1>3, <1>4, <2>2, <2>3, <2>4, <2>5 DEF RwInv, RwLabels
<1>5. CASE rc # NoReaders
  <2>1. pc' = [pc EXCEPT ![t] = IF Trying(t) THEN "m_unlock" ELSE "rc"] /\ UNCHANGED rwHolds
    BY <1>5 DEF Found, Go
  <2>2. pc'[t] \in {"m_unlock", "rc"} /\ \A u \in Thread \ {t} : pc'[u] = pc[u]
    BY <1>a, <2>1
  <2>3. Counted' = Counted BY <2>1, <2>2 DEF Counted
  <2>4. \A u \in Thread \ {t} : ~ HoldsM(u)' BY <1>2, <2>1, <2>2 DEF HoldsM
  <2> QED BY <1>1, <1>2, <1>3, <2>1, <2>2, <2>3, <2>4 DEF RwInv, RwLabels
<1> QED BY <1>4, <1>5

\* The steps of the reader-writer lock; SleepInv says that rc has no waiters bit.
LEMMA RwKept ==
  ASSUME Types, SleepInv, RwInv, NEW t \in Thread, RwStep(t)
  PROVE  RwInv'
<1>a. DOMAIN pc = Thread BY DEF Types, MutexTypes
<1>b. rwHolds \in [Thread -> {"none", "read", "write"}] BY DEF RwInv
<1>c. m \in MWord /\ rc \in RcWord /\ rcExpected \in [Thread -> RcWord] BY DEF Types, RwTypes
<1> USE DEF Call, At, Go, rwVars
<1>2. ASSUME NEW how, RwLock(t, how) PROVE RwInv'
  BY <1>a, <1>2, RwStays DEF RwLock
<1>3. CASE MBusy(t) BY <1>a, <1>3, RwStays DEF MBusy
<1>4. CASE MTake(t)
  <2>1. UNCHANGED <<rc, rwHolds, rcExpected>> /\ pc[t] = "m" BY <1>4 DEF MTake
  <2>2. CASE m = mExpected[t]
    <3>1. ~ m.locked BY <1>4, <2>2, Zenon DEF MTake
    <3>2. m' = [locked |-> TRUE, excl |-> Excl(t), waiters |-> FALSE]
      BY <1>4, <2>2, Zenon DEF MTake
    <3>3. m'.locked = TRUE BY <3>2
    <3>4. pc' = [pc EXCEPT ![t] = IF Excl(t) THEN "readers" ELSE "count"]
      BY <1>4, <2>2, Zenon DEF MTake
    <3>5. pc'[t] \in {"readers", "count"} /\ \A u \in Thread \ {t} : pc'[u] = pc[u]
      BY <1>a, <3>4
    <3>6. Counted' = Counted BY <2>1, <3>5 DEF Counted
    <3>7. rwHolds[t] = "none" BY <2>1 DEF RwInv, RwLabels
    <3>8. \A u \in Thread : HoldsM(u)' => u = t
      BY <2>1, <3>1, <3>5 DEF RwInv, HoldsM
    <3> QED BY <2>1, <3>3, <3>5, <3>6, <3>7, <3>8 DEF RwInv, RwLabels
  <2>3. CASE m # mExpected[t]
    <3>1. UNCHANGED <<m, pc>> BY <1>4, <2>3, Zenon DEF MTake
    <3> QED BY <2>1, <3>1, RwStays
  <2> QED BY <2>2, <2>3
<1>5. CASE MSetWaiters(t)
  <2>1. UNCHANGED <<rc, rwHolds, rcExpected, pc>> BY <1>5 DEF MSetWaiters
  <2>2. m' = m \/ m' = [m EXCEPT !.waiters = TRUE] BY <1>5, Zenon DEF MSetWaiters
  <2>3. m'.locked = m.locked BY <1>c, <2>2 DEF MWord
  <2> QED BY <2>1, <2>3, RwStays
<1>6. CASE MWait(t)
  <2>1. UNCHANGED <<m, rc, rwHolds, rcExpected, pc>> BY <1>6 DEF MWait
  <2> QED BY <2>1, RwStays
<1>7. CASE Count(t)
  <2>1. /\ pc[t] = "count" /\ pc' = [pc EXCEPT ![t] = "m_unlock"] /\ UNCHANGED <<m, rcExpected>>
        /\ rwHolds' = [rwHolds EXCEPT ![t] = "read"]
    BY <1>7 DEF Count
  <2>2. rc'.count = rc.count + 1 /\ rc.count \in Int BY <1>c, <1>7 DEF Count, RcWord
  <2>3. Counted' = Counted \cup {t} BY <1>a, <1>b, <2>1 DEF Counted
  <2>4. Cardinality(Counted \cup {t}) <= Cardinality(Counted) + 1
    BY CountedFinite, OneMoreOrLess, ZenonT(30)
  <2>5. Cardinality(Counted \cup {t}) \in Nat
    BY CountedFinite, FS_AddElement, FS_CardinalityType, ZenonT(30)
  <2>6. Cardinality(Counted)' <= rc'.count
    BY <2>2, <2>3, <2>4, <2>5, CountedFinite DEF RwInv
  <2>7. HoldsM(t) /\ \A u \in Thread : HoldsM(u)' => HoldsM(u)
    BY <1>a, <1>b, <2>1 DEF HoldsM
  <2>8. \A u \in Thread : rwHolds'[u] # "write"
    BY <1>b, <2>1, <2>7 DEF RwInv, HoldsM, RwLabels
  <2> QED BY <1>a, <1>b, <2>1, <2>6, <2>7, <2>8 DEF RwInv, RwLabels
<1>8. CASE MUnlock(t)
  <2>1. /\ pc[t] = "m_unlock" /\ UNCHANGED <<rc, rwHolds, rcExpected>>
        /\ pc' = [pc EXCEPT ![t] = IF m.waiters THEN "m_wake" ELSE "ready"]
    BY <1>8 DEF MUnlock
  <2>2. pc'[t] \in {"m_wake", "ready"} /\ \A u \in Thread \ {t} : pc'[u] = pc[u]
    BY <1>a, <2>1
  <2>3. Counted' = Counted BY <2>1, <2>2 DEF Counted
  <2>4. \A u \in Thread : ~ HoldsM(u)' BY <2>1, <2>2 DEF RwInv, HoldsM
  <2> QED BY <2>1, <2>2, <2>3, <2>4 DEF RwInv, RwLabels, HoldsM
<1>9. CASE MWake(t) BY <1>a, <1>9, RwStays DEF MWake
<1>10. CASE Readers(t)
  <2>1. UNCHANGED <<m, rc>> /\ pc[t] = "readers" /\ Found(t, rc) BY <1>10 DEF Readers
  <2> QED BY <2>1, FoundKept
<1>11. CASE MarkReaders(t)
  <2>1. UNCHANGED m /\ pc[t] = "rc" BY <1>11 DEF MarkReaders
  <2>2. CASE pc' = [pc EXCEPT ![t] = "rc_wait"] /\ UNCHANGED <<rwHolds, rcExpected>>
    <3>1. rc' = rc \/ rc' = [rc EXCEPT !.count = CountMask]
      BY <1>11, <2>1, <2>2 DEF MarkReaders, Found
    <3>2. rc' = rc \/ rc'.count = CountMask BY <1>c, <3>1 DEF RcWord
    <3>3. Counted' = Counted BY <1>a, <2>1, <2>2 DEF Counted
    <3>4. Cardinality(Thread) \in Nat BY PthreadConstants, FS_CardinalityType
    <3>5. Cardinality(Counted)' <= rc'.count
      BY <3>2, <3>3, <3>4, CountedFinite, PthreadConstants DEF RwInv
    <3>6. HoldsM(t) /\ rwHolds[t] = "none" /\ \A u \in Thread : HoldsM(u)' => HoldsM(u)
      BY <1>a, <2>1, <2>2 DEF RwInv, HoldsM, RwLabels
    <3>7. \A u \in Thread : rwHolds[u] # "write" BY <3>6 DEF RwInv, HoldsM
    <3>8. \A u \in Thread \ {t} : pc'[u] = pc[u] BY <1>a, <2>2
    <3> QED BY <1>a, <2>1, <2>2, <3>5, <3>6, <3>7, <3>8 DEF RwInv, RwLabels
  <2>3. CASE Found(t, rc) /\ UNCHANGED rc
    BY <2>1, <2>3, FoundKept
  <2> QED BY <1>11, <2>2, <2>3, Zenon DEF MarkReaders
<1>12. CASE ReadersWait(t) BY <1>a, <1>12, RwStays DEF ReadersWait
<1>13. CASE Leave(t)
  <2>1. pc[t] = "leave" /\ UNCHANGED <<m, rwHolds>> BY <1>13 DEF Leave
  <2>2. t \in Counted BY <2>1 DEF Counted
  <2>3. rc.count > 0 BY <1>c, <2>2, CountedFinite DEF RwInv, RcWord
  <2>4. CASE rc = rcExpected[t]
    <3>1. /\ pc' = [pc EXCEPT ![t] = "ready"] /\ UNCHANGED rcExpected
          /\ rc' = [rc EXCEPT !.count = @ - 1]
      BY <1>13, <2>4 DEF Leave, SleepInv
    <3>2. pc'[t] = "ready" /\ \A u \in Thread \ {t} : pc'[u] = pc[u] BY <1>a, <3>1
    <3>3. rwHolds[t] = "none" BY <2>1 DEF RwInv, RwLabels
    <3>4. Counted' = Counted \ {t} BY <2>1, <3>2, <3>3 DEF Counted
    <3>5. Cardinality(Counted \ {t}) = Cardinality(Counted) - 1
      BY <2>2, CountedFinite, OneMoreOrLess
    <3>6. rc'.count = rc.count - 1 /\ rc.count \in Int BY <1>c, <3>1 DEF RcWord
    <3>7. Cardinality(Counted)' <= rc'.count
      BY <3>4, <3>5, <3>6, CountedFinite DEF RwInv
    <3>8. \A u \in Thread : rwHolds[u] # "write" BY <2>3 DEF RwInv, NoReaders
    <3>9. \A u \in Thread : HoldsM(u)' => HoldsM(u) BY <2>1, <3>2 DEF HoldsM
    <3> QED BY <2>1, <3>1, <3>2, <3>7, <3>8, <3>9 DEF RwInv, RwLabels
  <2>5. CASE rc # rcExpected[t]
    <3>1. UNCHANGED <<rc, pc>> /\ rcExpected' = [rcExpected EXCEPT ![t] = rc]
      BY <1>13, <2>5 DEF Leave, RcExpect
    <3>2. Counted' = Counted BY <2>1, <3>1 DEF Counted
    <3>3. \A u \in Thread : HoldsM(u)' <=> HoldsM(u) BY <2>1, <3>1 DEF HoldsM
    <3>4. \A u \in Thread : pc'[u] = "leave" => rcExpected'[u].count > 0
      BY <1>c, <2>3, <3>1 DEF RwInv
    <3> QED BY <2>1, <3>1, <3>2, <3>3, <3>4 DEF RwInv
  <2> QED BY <2>4, <2>5
<1>14. CASE RwUnlock(t)
  <2>1. /\ pc[t] = "ready" /\ rwHolds[t] # "none" /\ UNCHANGED <<m, rc>>
        /\ rwHolds' = [rwHolds EXCEPT ![t] = "none"]
        /\ rcExpected' = [rcExpected EXCEPT ![t] = rc]
        /\ pc' = [pc EXCEPT ![t] = IF rc = NoReaders THEN "m_unlock" ELSE "leave"]
    BY <1>14 DEF RwUnlock, RcExpect
  <2>2. \A u \in Thread \ {t} : pc'[u] = pc[u] /\ rwHolds'[u] = rwHolds[u] BY <1>a, <1>b, <2>1
  <2>3. rwHolds'[t] = "none" BY <1>b, <2>1
  <2>4. CASE rwHolds[t] = "write"
    <3>1. rc = NoReaders /\ HoldsM(t) BY <2>4 DEF RwInv, HoldsM
    <3>2. pc'[t] = "m_unlock" BY <1>a, <2>1, <3>1
    <3>3. Counted' = Counted BY <2>1, <2>2, <2>3, <2>4, <3>2 DEF Counted
    <3>4. \A u \in Thread : HoldsM(u)' => HoldsM(u) BY <2>2, <3>1 DEF HoldsM
    <3> QED BY <1>b, <1>c, <2>1, <2>2, <2>3, <3>1, <3>2, <3>3, <3>4 DEF RwInv, RwLabels
  <2>5. CASE rwHolds[t] = "read"
    <3>1. t \in Counted BY <2>5 DEF Counted
    <3>2. rc.count > 0 BY <1>c, <3>1, CountedFinite DEF RwInv, RcWord
    <3>3. pc'[t] = "leave" BY <1>a, <2>1, <3>2 DEF NoReaders
    <3>4. Counted' = Counted BY <2>2, <2>5, <3>3 DEF Counted
    <3>5. \A u \in Thread : HoldsM(u)' => HoldsM(u) BY <2>2, <2>3, <3>3 DEF HoldsM
    <3>6. rcExpected'[t].count > 0 /\ \A u \in Thread \ {t} : rcExpected'[u] = rcExpected[u]
      BY <1>c, <2>1, <3>2
    <3> QED BY <1>b, <2>1, <2>2, <2>3, <3>3, <3>4, <3>5, <3>6 DEF RwInv, RwLabels
  <2> QED BY <1>b, <2>1, <2>4, <2>5
<1> QED
  BY <1>2, <1>3, <1>4, <1>5, <1>6, <1>7, <1>8, <1>9, <1>10, <1>11, <1>12, <1>13, <1>14, Zenon
     DEF RwStep

-----------------------------------------------------------------------------
(* All of them together.                                                   *)

Invariant == Types /\ MutexInv /\ OnceInv /\ SleepInv /\ RwInv

LEMMA InvariantInit ==
  ASSUME Init
  PROVE  Invariant
<1>a. NoThread \notin Thread BY PthreadConstants
<1>b. /\ mutex = Free /\ recursion = 0 /\ holds = [t \in Thread |-> 0]
      /\ expected = [t \in Thread |-> Free] /\ pc = [t \in Thread |-> "ready"]
      /\ level = [t \in Thread |-> 0] /\ trespassed = FALSE /\ panicked = FALSE
  BY DEF Init
<1>c. /\ m = MFree /\ rc = NoReaders /\ rwHolds = [t \in Thread |-> "none"]
      /\ mExpected = [t \in Thread |-> MFree] /\ rcExpected = [t \in Thread |-> NoReaders]
  BY DEF Init
<1>d. done = "no" /\ ran = 0 /\ passed = {} /\ asleep = {} BY DEF Init
<1> USE DEF Free, MFree, NoReaders
<1>1. Types
  <2>1. MutexTypes BY <1>b DEF MutexTypes, MutexWord
  <2>2. RwTypes BY <1>c DEF RwTypes, MWord, RcWord
  <2> QED BY <1>d, <2>1, <2>2 DEF Types
<1>2. MutexInv
  <2>1. Owned BY <1>a, <1>b DEF Owned, Owns
  <2> QED BY <1>b, <2>1 DEF MutexInv
<1>3. OnceInv BY <1>b, <1>d DEF OnceInv
<1>4. SleepInv BY <1>c, <1>d DEF SleepInv
<1>5. RwInv
  <2>1. Counted = {} BY <1>b, <1>c DEF Counted
  <2>2. Cardinality(Counted) = 0 BY <2>1, FS_EmptySet
  <2> QED BY <1>b, <1>c, <2>2 DEF RwInv, HoldsM, RwLabels
<1> QED BY <1>1, <1>2, <1>3, <1>4, <1>5 DEF Invariant

\* A step that moves no thread and no word but the futex queue.
LEMMA NothingMoved ==
  ASSUME Invariant, UNCHANGED <<mutexVars, onceVars, rwVars, pc>>
  PROVE  Types' /\ MutexInv' /\ OnceInv' /\ RwInv'
<1>a. Types /\ MutexInv /\ OnceInv /\ RwInv BY DEF Invariant
<1> USE DEF mutexVars, misuse, onceVars, rwVars
<1>1. Types' BY <1>a DEF Types, MutexTypes, RwTypes
<1>2. MutexInv' BY <1>a DEF MutexInv, Owned, Owns
<1>3. OnceInv' BY <1>a DEF OnceInv
<1>4. RwInv'
  <2>1. Counted' = Counted BY DEF Counted
  <2> QED BY <1>a, <2>1 DEF RwInv, HoldsM
<1> QED BY <1>1, <1>2, <1>3, <1>4

LEMMA InvariantKept ==
  ASSUME Invariant, [Next]_vars
  PROVE  Invariant'
<1>a. Types /\ MutexInv /\ OnceInv /\ SleepInv /\ RwInv BY Zenon DEF Invariant
<1>1. ASSUME NEW t \in Thread, MutexStep(t) PROVE Invariant'
  <2>1. UNCHANGED <<onceVars, rwVars>> /\ Aside(t, OnceLabels) /\ Aside(t, RwLabels)
    BY <1>a, <1>1, MutexStepAside
  <2>2. MutexTypes' /\ MutexInv' BY <1>a, <1>1, MutexKept
  <2>3. OnceInv' BY <1>a, <2>1, OnceInvAside
  <2>4. RwInv' BY <1>a, <2>1, RwInvAside
  <2>5. SleepInv' BY <1>a, <1>1, SleepMutex
  <2>6. Types' BY <1>a, <2>1, <2>2, Zenon DEF Types, RwTypes, onceVars, rwVars
  <2> QED BY <2>2, <2>3, <2>4, <2>5, <2>6 DEF Invariant
<1>2. ASSUME NEW t \in Thread, OnceStep(t) PROVE Invariant'
  <2>1. UNCHANGED <<mutexVars, rwVars, seq>> /\ Aside(t, MutexLabels) /\ Aside(t, RwLabels)
    BY <1>a, <1>2, OnceAside
  <2>2. MutexTypes' /\ MutexInv' BY <1>a, <2>1, MutexAside
  <2>3. OnceInv' BY <1>a, <1>2, OnceKept
  <2>4. RwInv' BY <1>a, <2>1, RwInvAside
  <2>5. SleepInv' BY <1>a, <1>2, SleepOnce
  <2>6. ran' \in Nat BY <2>3 DEF OnceInv
  <2>7. Types' BY <1>a, <2>1, <2>2, <2>6 DEF Types, RwTypes, rwVars
  <2> QED BY <2>2, <2>3, <2>4, <2>5, <2>7 DEF Invariant
<1>3. ASSUME NEW t \in Thread, RwStep(t) PROVE Invariant'
  <2>1. /\ UNCHANGED <<mutexVars, onceVars, seq>>
        /\ Aside(t, MutexLabels) /\ Aside(t, OnceLabels)
    BY <1>a, <1>3, RwAside DEF Aside
  <2>2. MutexTypes' /\ MutexInv' BY <1>a, <2>1, MutexAside
  <2>3. OnceInv' BY <1>a, <2>1, OnceInvAside
  <2>4. RwInv' BY <1>a, <1>3, RwKept
  <2>5. SleepInv' BY <1>a, <1>3, SleepRw
  <2>6. RwTypes' BY <1>a, <1>3, RwTypesKept, PthreadConstants
  <2>7. Types' BY <1>a, <2>1, <2>2, <2>6 DEF Types, onceVars
  <2> QED BY <2>2, <2>3, <2>4, <2>5, <2>7 DEF Invariant
<1>4. ASSUME NEW t \in Thread, Spurious(t) PROVE Invariant'
  <2>1. SleepInv' BY <1>a, <1>4, SleepSpurious
  <2>2. UNCHANGED <<mutexVars, onceVars, rwVars, pc>> BY <1>4 DEF Spurious
  <2> QED BY <2>1, <2>2, NothingMoved DEF Invariant
<1>5. CASE UNCHANGED vars
  <2>1. UNCHANGED <<mutexVars, onceVars, rwVars, pc>> BY <1>5 DEF vars
  <2>2. SleepInv' BY <1>a, <1>5 DEF SleepInv, vars, mutexVars, misuse, condVars, onceVars, rwVars
  <2> QED BY <2>1, <2>2, NothingMoved DEF Invariant
<1> QED BY <1>1, <1>2, <1>3, <1>4, <1>5, EveryStep

\* The invariant holds in every state of every behaviour.
THEOREM InvariantAlways == Spec => []Invariant
<1>1. Init => Invariant BY InvariantInit
<1>2. Invariant /\ [Next]_vars => Invariant' BY InvariantKept
<1> QED BY <1>1, <1>2, PTL DEF Spec

\* pthread_mutex_lock and pthread_mutex_trylock exclude, for any threads and any
\* kind of mutex, until a thread unlocks it without holding it: who holds it is its
\* owner, as often as the recursion level says, and no assertion fails.
THEOREM MutexAlwaysExclusive == Spec => []MutexExclusive
<1>1. Invariant => MutexExclusive
  <2>1. Owned => MutexExclusive
    BY DEF Owned, Owns, MutexExclusive
  <2>2. trespassed => MutexExclusive
    BY Zenon DEF MutexExclusive
  <2> QED BY <2>1, <2>2, Zenon DEF Invariant, MutexInv
<1> QED BY <1>1, InvariantAlways, PTL

\* The function given to pthread_once runs once, and before any call returns.
THEOREM OnceAlwaysOnly == Spec => []OnceOnly
<1>1. Invariant => OnceOnly
  BY DEF Invariant, OnceInv, OnceOnly
<1> QED BY <1>1, InvariantAlways, PTL

\* The reader-writer lock excludes: a writer is alone, and every reader that has
\* not left is in the count.  It rests on the count being wider than the threads.
THEOREM RwAlwaysExclusive == Spec => []RwExclusive
<1>1. ASSUME Invariant PROVE RwExclusive
  <2>a. RwInv /\ rc.count \in Int BY <1>1 DEF Invariant, Types, RwTypes, RcWord
  <2> DEFINE Readings == {t \in Thread : rwHolds[t] = "read"}
  <2>1. Readings \in SUBSET Counted BY DEF Counted
  <2>2. Cardinality(Readings) <= Cardinality(Counted) /\ Cardinality(Readings) \in Nat
    BY <2>1, CountedFinite, FS_Subset, FS_CardinalityType
  <2>3. Cardinality(Readings) <= rc.count
    BY <2>a, <2>2, CountedFinite DEF RwInv
  <2>4. ASSUME NEW t \in Thread, NEW u \in Thread, rwHolds[t] = "write", u # t
        PROVE  rwHolds[u] = "none"
    <3>1. rwHolds[u] \in {"none", "read"} BY <2>a, <2>4 DEF RwInv, HoldsM
    <3>2. rc.count = 0 BY <2>a, <2>4 DEF RwInv, NoReaders
    <3>3. u \notin Counted BY <2>a, <3>2, CountedFinite DEF RwInv
    <3> QED BY <3>1, <3>3 DEF Counted
  <2>5. /\ \A t \in Thread : rwHolds[t] = "write" => rc = NoReaders /\ m.locked
        /\ \A t \in Thread : pc[t] = "leave" => rcExpected[t].count > 0
    BY <2>a DEF RwInv, HoldsM
  <2> QED BY <2>3, <2>4, <2>5 DEF RwExclusive
<1> QED BY <1>1, InvariantAlways, PTL

\* No sleeper of a futex is forgotten: its word has the value it sleeps for, or a
\* thread is at the step that wakes it, or a thread has unlocked the mutex it sleeps
\* on without holding it.
THEOREM NobodyEverForgotten == Spec => []NobodyForgotten
<1>1. Invariant => NobodyForgotten
  BY DEF Invariant, SleepInv, NobodyForgotten, Word, Waker
<1> QED BY <1>1, InvariantAlways, PTL

=============================================================================
