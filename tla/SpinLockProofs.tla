---------------------------- MODULE SpinLockProofs ----------------------------
(***************************************************************************)
(* For any set of threads: the lock word is Free exactly while no thread   *)
(* holds the lock, mutual exclusion, no sleeper is ever forgotten, and     *)
(* SpinLock implements Mutex.                                              *)
(***************************************************************************)
EXTENDS SpinLock, TLAPS

(* IsHeld() is exact: the word differs from Free iff some thread holds it. *)
WordTracksHolder == lockword = kSpinLockFree <=> Holders = {}

(* A thread calls SpinLockDelay only with the value Sleeper, so FUTEX_WAIT *)
(* never puts it to sleep over a lock word that promises no wake-up.       *)
DelaysOnSleeper == \A t \in Threads : pc[t] = "delay" => lock_value[t] = kSpinLockSleeper

(* Nobody is in FUTEX_WAIT before futexes are known to work.               *)
SleepersHaveFutex == Asleep # {} => have_futex

IInv ==
  /\ TypeOK
  /\ WordTracksHolder
  /\ MutualExclusion
  /\ DelaysOnSleeper
  /\ SleepersHaveFutex
  /\ NoForgottenSleeper

(* The three facts of the induction: a fresh SpinLock satisfies IInv ...   *)
LEMMA InitIInv == Init => IInv
BY DEF Init, IInv, TypeOK, WordTracksHolder, MutualExclusion,
   DelaysOnSleeper, SleepersHaveFutex, NoForgottenSleeper, Holders, Asleep, Contending,
   kSpinLockFree, kSpinLockHeld, kSpinLockSleeper

(* ... every access to lockword_ keeps the types ...                       *)
LEMMA TypeOKStep == TypeOK /\ [Next]_vars => TypeOK'
<1> SUFFICES ASSUME TypeOK, [Next]_vars PROVE TypeOK'
  OBVIOUS
<1> USE DEF TypeOK, Contending, kSpinLockFree, kSpinLockHeld, kSpinLockSleeper
<1>1. CASE UNCHANGED vars
  BY <1>1 DEF vars
<1>2. ASSUME NEW t \in Threads, Lock(t) PROVE TypeOK'
  BY <1>2 DEF Lock
<1>3. ASSUME NEW t \in Threads, TryLock(t) PROVE TypeOK'
  BY <1>3 DEF TryLock
<1>4. ASSUME NEW t \in Threads, SpinLoop(t) PROVE TypeOK'
  BY <1>4 DEF SpinLoop, SlowLockTest
<1>5. ASSUME NEW t \in Threads, MarkSleeper(t) PROVE TypeOK'
  BY <1>5 DEF MarkSleeper
<1>6. ASSUME NEW t \in Threads, Retake(t) PROVE TypeOK'
  BY <1>6 DEF Retake, SlowLockTest
<1>7. ASSUME NEW t \in Threads, SpinLockDelay(t) PROVE TypeOK'
  BY <1>7 DEF SpinLockDelay
<1>8. ASSUME NEW t \in Threads, DelayTimeout(t) PROVE TypeOK'
  BY <1>8 DEF DelayTimeout
<1>9. ASSUME NEW t \in Threads, Unlock(t) PROVE TypeOK'
  BY <1>9 DEF Unlock
<1>10. ASSUME NEW t \in Threads, SlowUnlock(t) PROVE TypeOK'
  BY <1>10 DEF SlowUnlock, Asleep
<1>11. ASSUME NEW t \in Threads, NapOver(t) PROVE TypeOK'
  BY <1>11 DEF NapOver
<1>12. CASE InitModule
  BY <1>12 DEF InitModule
<1> QED
  BY <1>1, <1>2, <1>3, <1>4, <1>5, <1>6, <1>7, <1>8, <1>9, <1>10, <1>11, <1>12
  DEF Next, Step

(***************************************************************************)
(* Every step but one leaves the set of holders alone or adds a thread to  *)
(* an empty set while the word leaves Free; Unlock does the reverse.       *)
(***************************************************************************)
LEMMA HoldersStep ==
  ASSUME IInv, NEW t \in Threads,
         Lock(t) \/ TryLock(t) \/ Step(t) \/ DelayTimeout(t)
  PROVE  \/ /\ Holders' = Holders
            /\ lockword = kSpinLockFree <=> lockword' = kSpinLockFree
         \/ /\ Holders = {} /\ Holders' = {t}
            /\ lockword = kSpinLockFree /\ lockword' # kSpinLockFree
         \/ /\ Holders = {t} /\ Holders' = {}
            /\ lockword # kSpinLockFree /\ lockword' = kSpinLockFree
<1> USE DEF IInv, TypeOK, WordTracksHolder, MutualExclusion, Holders, Contending,
        kSpinLockFree, kSpinLockHeld, kSpinLockSleeper
<1>1. CASE Lock(t)
  BY <1>1 DEF Lock
<1>2. CASE TryLock(t)
  BY <1>2 DEF TryLock
<1>3. CASE SpinLoop(t)
  BY <1>3 DEF SpinLoop, SlowLockTest
<1>4. CASE MarkSleeper(t)
  BY <1>4 DEF MarkSleeper
<1>5. CASE Retake(t)
  BY <1>5 DEF Retake, SlowLockTest
<1>6. CASE SpinLockDelay(t)
  BY <1>6 DEF SpinLockDelay
<1>7. CASE DelayTimeout(t)
  BY <1>7 DEF DelayTimeout
<1>8. CASE Unlock(t)
  BY <1>8 DEF Unlock
<1>9. CASE SlowUnlock(t)
  BY <1>9 DEF SlowUnlock, Asleep
<1>10. CASE NapOver(t)
  BY <1>10 DEF NapOver
<1> QED
  BY <1>1, <1>2, <1>3, <1>4, <1>5, <1>6, <1>7, <1>8, <1>9, <1>10 DEF Step

(* ... and every step of Lock and Unlock keeps IInv.                       *)
LEMMA IInvStep == IInv /\ [Next]_vars => IInv'
<1> SUFFICES ASSUME IInv, [Next]_vars PROVE IInv'
  OBVIOUS
<1>1. TypeOK'
  BY TypeOKStep DEF IInv
<1>2. (WordTracksHolder /\ MutualExclusion)'
  <2>1. CASE UNCHANGED vars
    BY <2>1 DEF IInv, WordTracksHolder, MutualExclusion, Holders, vars
  <2>2. CASE InitModule
    BY <2>2 DEF IInv, WordTracksHolder, MutualExclusion, Holders, InitModule
  <2>3. ASSUME NEW t \in Threads,
               Lock(t) \/ TryLock(t) \/ Step(t) \/ DelayTimeout(t)
        PROVE  (WordTracksHolder /\ MutualExclusion)'
    BY <2>3, HoldersStep DEF IInv, WordTracksHolder, MutualExclusion
  <2> QED
    BY <2>1, <2>2, <2>3 DEF Next
<1>3. (DelaysOnSleeper /\ SleepersHaveFutex /\ NoForgottenSleeper)'
  <2> DEFINE SleepInv == DelaysOnSleeper /\ SleepersHaveFutex /\ NoForgottenSleeper
  <2> USE DEF IInv, TypeOK, DelaysOnSleeper, SleepersHaveFutex, NoForgottenSleeper,
          Asleep, Contending, kSpinLockFree, kSpinLockHeld, kSpinLockSleeper
  <2>1. CASE UNCHANGED vars
    BY <2>1 DEF vars
  <2>2. ASSUME NEW t \in Threads, Lock(t)
        PROVE  SleepInv'
    BY <2>2 DEF Lock
  <2>3. ASSUME NEW t \in Threads, TryLock(t)
        PROVE  SleepInv'
    BY <2>3 DEF TryLock
  <2>4. ASSUME NEW t \in Threads, SpinLoop(t)
        PROVE  SleepInv'
    BY <2>4 DEF SpinLoop, SlowLockTest
  <2>5. ASSUME NEW t \in Threads, MarkSleeper(t)
        PROVE  SleepInv'
    BY <2>5 DEF MarkSleeper
  <2>6. ASSUME NEW t \in Threads, Retake(t)
        PROVE  SleepInv'
    BY <2>6 DEF Retake, SlowLockTest
  <2>7. ASSUME NEW t \in Threads, SpinLockDelay(t)
        PROVE  SleepInv'
    BY <2>7 DEF SpinLockDelay
  <2>8. ASSUME NEW t \in Threads, DelayTimeout(t)
        PROVE  SleepInv'
    BY <2>8 DEF DelayTimeout
  <2>9. ASSUME NEW t \in Threads, Unlock(t)
        PROVE  SleepInv'
    BY <2>9 DEF Unlock
  <2>10. ASSUME NEW t \in Threads, SlowUnlock(t)
         PROVE  SleepInv'
    BY <2>10 DEF SlowUnlock
  <2>11. ASSUME NEW t \in Threads, NapOver(t)
         PROVE  SleepInv'
    BY <2>11 DEF NapOver
  <2>12. CASE InitModule
    BY <2>12 DEF InitModule
  <2> QED
    BY <2>1, <2>2, <2>3, <2>4, <2>5, <2>6, <2>7, <2>8, <2>9, <2>10, <2>11, <2>12
    DEF Next, Step
<1> QED
  BY <1>1, <1>2, <1>3 DEF IInv

(* IInv, which ties the lock word to the holder and to the sleepers, holds *)
(* through every execution of Lock, TryLock and Unlock.                    *)
THEOREM SpecIInv == Spec => []IInv
BY InitIInv, IInvStep, PTL DEF Spec

(* Lock excludes: for any number of threads, at most one is between Lock   *)
(* and Unlock.                                                             *)
THEOREM SpinLockMutualExclusion == Spec => []MutualExclusion
BY SpecIInv, PTL DEF IInv

(* The designated-waker argument of SpinLoop holds for any number of       *)
(* threads: nobody sleeps in FUTEX_WAIT without someone left to wake it.   *)
THEOREM SpinLockNoForgottenSleeper == Spec => []NoForgottenSleeper
BY SpecIInv, PTL DEF IInv

(* Lock and Unlock of SpinLock are the atomic Acquire and Release that the *)
(* modules of the components above it assume.                              *)
THEOREM SpinLockRefinesMutex == Spec => RefinesMutex
<1>1. Init => M!Init
  BY DEF Init, M!Init, Holders
<1>2. IInv /\ [Next]_vars => [M!Next]_Holders
  <2> SUFFICES ASSUME IInv, [Next]_vars PROVE [M!Next]_Holders
    OBVIOUS
  <2>1. CASE UNCHANGED vars
    BY <2>1 DEF vars, Holders
  <2>2. CASE InitModule
    BY <2>2 DEF InitModule, Holders
  <2>3. ASSUME NEW t \in Threads,
               Lock(t) \/ TryLock(t) \/ Step(t) \/ DelayTimeout(t)
        PROVE  [M!Next]_Holders
    BY <2>3, HoldersStep DEF M!Next, M!Acquire, M!Release
  <2> QED
    BY <2>1, <2>2, <2>3 DEF Next
<1> QED
  BY <1>1, <1>2, SpecIInv, PTL DEF Spec, M!Spec, RefinesMutex
===============================================================================
