---------------------------- MODULE MCThreadCache ----------------------------
(* Small instances of ThreadCache for TLC.                                 *)
EXTENDS ThreadCache, TLC

CONSTANTS t1, t2, t3

MCThreads2 == {t1, t2}
MCThreads3 == {t1, t2, t3}

MCSymmetry == Permutations(Threads)

(* For the budget: a single object, and a cache that holds it is over its  *)
(* budget until it has stolen or been given more.                          *)
MCOne == [c \in 1 .. NumClasses |-> 1]
MCThree == [c \in 1 .. NumClasses |-> 3]

(* For the lists: class 1 moves two objects at a time, and its lists may   *)
(* become longer than two batches but not three; class 2 is out of memory. *)
MCSizes == [c \in 1 .. NumClasses |-> c]
MCBatches == [c \in 1 .. NumClasses |-> 3 - c]
MCObjects == [c \in 1 .. NumClasses |-> IF c = 1 THEN 5 ELSE 0]
=============================================================================
