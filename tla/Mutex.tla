-------------------------------- MODULE Mutex --------------------------------
(***************************************************************************)
(* What SpinLock promises to every component that takes a lock: at most    *)
(* one thread holds it, only the holder releases it, and the lock is taken *)
(* only while it is free.  Nothing is promised about the order in which    *)
(* waiting threads get it.                                                 *)
(***************************************************************************)
CONSTANT Threads

VARIABLE holders  \* the set of threads that hold the lock

Init == holders = {}

Acquire(t) == holders = {} /\ holders' = {t}

Release(t) == holders = {t} /\ holders' = {}

Next == \E t \in Threads : Acquire(t) \/ Release(t)

Spec == Init /\ [][Next]_holders
==============================================================================
