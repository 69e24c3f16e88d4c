-------------------------- MODULE MCCentralFreeList --------------------------
(* Small instances of CentralFreeList for TLC: two size classes in use and *)
(* class 0, two threads and two spans, and one transfer entry to a class   *)
(* at the start, so that a full cache has to take its next from another.   *)
EXTENDS CentralFreeList, TLC

CONSTANTS a, b, s1, s2, t1, t2

MCClasses == {Class0, a, b}
MCSpans == {s1, s2}
MCThreads == {t1, t2}

(* Class a moves two objects at a time and may grow, class b moves one.    *)
MCBatch == [c \in MCClasses |-> IF c = a THEN 2 ELSE 1]
MCSlotLimit == [c \in MCClasses |-> IF c = a THEN 2 ELSE 1]
MCObjectsPerSpan == [c \in MCClasses |-> 2]

(* For liveness: one object to a span, and both classes may grow.          *)
MCOne == [c \in MCClasses |-> 1]
MCTwo == [c \in MCClasses |-> 2]

MCSymmetry == Permutations(MCSpans) \cup Permutations(MCThreads)
===============================================================================
