------------------------------- MODULE SpinLock -------------------------------
(***************************************************************************)
(* The SpinLock of base/spinlock.{h,cc} over the futex calls of            *)
(* base/spinlock_linux-inl.h: the lock under every other component.        *)
(*                                                                         *)
(* Each access to lockword_ is one action.  The adaptive spinning of       *)
(* SpinLoop has no effect besides delay, so a spinning thread may leave    *)
(* the loop at any moment and make its compare-and-swap.                   *)
(***************************************************************************)
EXTENDS Integers

CONSTANT Threads  \* the threads that use the lock

kSpinLockFree == 0
kSpinLockHeld == 1
kSpinLockSleeper == 2

VARIABLES
  have_futex,  \* have_futex: futex(2) is known to work
  lockword,    \* lockword_
  pc,          \* what each thread does next
  lock_value   \* the local of SlowLock: the last value read from lockword_

vars == <<have_futex, lockword, pc, lock_value>>

Contending == {"spin", "mark", "retake", "delay"}

Init ==
  /\ have_futex = FALSE
  /\ lockword = kSpinLockFree
  /\ pc = [t \in Threads |-> "idle"]
  /\ lock_value = [t \in Threads |-> kSpinLockFree]

-------------------------------------------------------------------------------
(* The static InitModule finds that futex(2) works, at whatever moment     *)
(* static initialisation gets to it: locks may be in use by then.          *)
InitModule ==
  /\ ~have_futex
  /\ have_futex' = TRUE
  /\ UNCHANGED <<lockword, pc, lock_value>>

(* Lock: the inlined compare_exchange_weak, which may fail spuriously.     *)
Lock(t) ==
  /\ pc[t] = "idle"
  /\ \/ /\ lockword = kSpinLockFree
        /\ lockword' = kSpinLockHeld
        /\ pc' = [pc EXCEPT ![t] = "held"]
     \/ /\ pc' = [pc EXCEPT ![t] = "spin"]
        /\ UNCHANGED lockword
  /\ UNCHANGED <<have_futex, lock_value>>

(* TryLock: when it fails the caller goes on without the lock, which       *)
(* changes nothing.                                                        *)
TryLock(t) ==
  /\ pc[t] = "idle"
  /\ lockword = kSpinLockFree
  /\ lockword' = kSpinLockHeld
  /\ pc' = [pc EXCEPT ![t] = "held"]
  /\ UNCHANGED <<have_futex, lock_value>>

(* The loop of SlowLock, at its test of lock_value.                        *)
SlowLockTest(v) ==
  CASE v = kSpinLockFree -> "held"
    [] v = kSpinLockHeld -> "mark"
    [] OTHER -> "delay"

(* Mutant: a thread that spun takes the lock as if nobody could sleep.     *)
SpinLoopHeld(t) ==
  /\ pc[t] = "spin"
  /\ lockword' = IF lockword = kSpinLockFree THEN kSpinLockHeld ELSE lockword
  /\ lock_value' = [lock_value EXCEPT ![t] = lockword]
  /\ pc' = [pc EXCEPT ![t] = SlowLockTest(lockword)]
  /\ UNCHANGED have_futex

(* SpinLoop, and the test of the value it returns.                         *)
SpinLoop(t) ==
  /\ pc[t] = "spin"
  /\ lockword' = IF lockword = kSpinLockFree THEN kSpinLockSleeper ELSE lockword
  /\ lock_value' = [lock_value EXCEPT ![t] = lockword]
  /\ pc' = [pc EXCEPT ![t] = SlowLockTest(lockword)]
  /\ UNCHANGED have_futex

(* Mutant: the sleeper is announced by an increment.                       *)
MarkSleeperAdd(t) ==
  /\ pc[t] = "mark"
  /\ lockword' = lockword + 1
  /\ lock_value' = [lock_value EXCEPT ![t] = kSpinLockSleeper]
  /\ pc' = [pc EXCEPT ![t] = "delay"]
  /\ UNCHANGED have_futex

(* SlowLock: the compare_exchange_strong that turns Held into Sleeper.     *)
MarkSleeper(t) ==
  /\ pc[t] = "mark"
  /\ IF lockword = kSpinLockFree
     THEN /\ lock_value' = [lock_value EXCEPT ![t] = kSpinLockFree]
          /\ pc' = [pc EXCEPT ![t] = "retake"]
          /\ UNCHANGED lockword
     ELSE /\ lockword' = kSpinLockSleeper
          /\ lock_value' = [lock_value EXCEPT ![t] = kSpinLockSleeper]
          /\ pc' = [pc EXCEPT ![t] = "delay"]
  /\ UNCHANGED have_futex

(* Mutant: the lock is stored to without a comparison.                     *)
RetakeBlind(t) ==
  /\ pc[t] = "retake"
  /\ lockword' = kSpinLockSleeper
  /\ pc' = [pc EXCEPT ![t] = "held"]
  /\ UNCHANGED <<have_futex, lock_value>>

(* SlowLock: the lock was seen free, try to take it before sleeping.       *)
Retake(t) ==
  /\ pc[t] = "retake"
  /\ lockword' = IF lockword = kSpinLockFree THEN kSpinLockSleeper ELSE lockword
  /\ lock_value' = [lock_value EXCEPT ![t] = lockword]
  /\ pc' = [pc EXCEPT ![t] = SlowLockTest(lockword)]
  /\ UNCHANGED have_futex

(* SpinLockDelay: FUTEX_WAIT sleeps only if the word still has the value   *)
(* passed to it; without futexes the thread naps.                          *)
SpinLockDelay(t) ==
  /\ pc[t] = "delay"
  /\ pc' = [pc EXCEPT ![t] = IF ~have_futex THEN "nap"
                             ELSE IF lockword = lock_value[t] THEN "asleep" ELSE "spin"]
  /\ UNCHANGED <<have_futex, lockword, lock_value>>

(* The timeout of FUTEX_WAIT.                                              *)
DelayTimeout(t) ==
  /\ pc[t] = "asleep"
  /\ pc' = [pc EXCEPT ![t] = "spin"]
  /\ UNCHANGED <<have_futex, lockword, lock_value>>

(* The end of nanosleep.                                                   *)
NapOver(t) ==
  /\ pc[t] = "nap"
  /\ pc' = [pc EXCEPT ![t] = "spin"]
  /\ UNCHANGED <<have_futex, lockword, lock_value>>

(* Mutant: Unlock wakes nobody.                                            *)
UnlockSilent(t) ==
  /\ pc[t] = "held"
  /\ lockword' = kSpinLockFree
  /\ pc' = [pc EXCEPT ![t] = "idle"]
  /\ UNCHANGED <<have_futex, lock_value>>

(* Unlock: the exchange, which decides whether SlowUnlock is called.       *)
Unlock(t) ==
  /\ pc[t] = "held"
  /\ lockword' = kSpinLockFree
  /\ pc' = [pc EXCEPT ![t] = IF lockword = kSpinLockHeld THEN "idle" ELSE "wake"]
  /\ UNCHANGED <<have_futex, lock_value>>

Asleep == {u \in Threads : pc[u] = "asleep"}

(* SlowUnlock and SpinLockWake: FUTEX_WAKE wakes one waiter if there is one. *)
SlowUnlock(t) ==
  /\ pc[t] = "wake"
  /\ IF have_futex /\ Asleep # {}
     THEN \E u \in Asleep : pc' = [pc EXCEPT ![t] = "idle", ![u] = "spin"]
     ELSE pc' = [pc EXCEPT ![t] = "idle"]
  /\ UNCHANGED <<have_futex, lockword, lock_value>>

(* A step of a thread that is inside Lock or Unlock, or holds the lock.    *)
Step(t) ==
  \/ SpinLoop(t)
  \/ MarkSleeper(t)
  \/ Retake(t)
  \/ SpinLockDelay(t)
  \/ NapOver(t)
  \/ Unlock(t)
  \/ SlowUnlock(t)

Next ==
  \/ InitModule
  \/ \E t \in Threads : Lock(t) \/ TryLock(t) \/ Step(t) \/ DelayTimeout(t)

Spec == Init /\ [][Next]_vars

(* The scheduler runs every thread that can run, naps end, and a lock      *)
(* holder eventually unlocks.  The timeout of FUTEX_WAIT is not relied on. *)
FairSpec == Spec /\ \A t \in Threads : WF_vars(Step(t))

-------------------------------------------------------------------------------
Holders == {t \in Threads : pc[t] = "held"}

(* Every variable has the type its declaration in SpinLock gives it.       *)
TypeOK ==
  /\ have_futex \in BOOLEAN
  /\ lockword \in {kSpinLockFree, kSpinLockHeld, kSpinLockSleeper}
  /\ pc \in [Threads -> Contending \cup {"idle", "asleep", "nap", "held", "wake"}]
  /\ lock_value \in [Threads -> {kSpinLockFree, kSpinLockHeld, kSpinLockSleeper}]

(* Lock excludes: at most one thread is between Lock and Unlock, through   *)
(* every race of the fast path, the three compare-and-swaps of the slow    *)
(* path and spurious wake-ups.                                             *)
MutualExclusion == \A t, u \in Holders : t = u

(* The "designated waker" argument in the comment of SpinLoop: a thread    *)
(* asleep in FUTEX_WAIT is never forgotten.  Either the lock word says     *)
(* there is a sleeper, so that Unlock will wake one, or an Unlock is about *)
(* to wake one, or a thread that is awake and contending will set the word *)
(* before it sleeps or when it takes the lock.                             *)
NoForgottenSleeper ==
  Asleep # {} =>
    \/ lockword = kSpinLockSleeper
    \/ \E t \in Threads : pc[t] \in Contending \cup {"wake"}

(* As long as somebody wants the lock, somebody gets it, even if no        *)
(* FUTEX_WAIT ever times out.                                              *)
Progress ==
  (\E t \in Threads : pc[t] \in Contending \cup {"asleep", "nap"}) ~> (Holders # {})

(* SpinLock implements the abstract lock the other modules use.            *)
M == INSTANCE Mutex WITH holders <- Holders

RefinesMutex == M!Spec
===============================================================================
