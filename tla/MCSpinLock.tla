------------------------------ MODULE MCSpinLock ------------------------------
(* Small instance of SpinLock for TLC.                                    *)
EXTENDS SpinLock

CONSTANTS t1, t2, t3, t4

MCThreads4 == {t1, t2, t3, t4}
===============================================================================
