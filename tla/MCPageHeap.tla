------------------------------ MODULE MCPageHeap ------------------------------
(* Small instances of PageHeap for TLC.                                    *)
EXTENDS PageHeap, TLC

CONSTANTS d1, d2, d3, d4

MCDescriptors4 == {d1, d2, d3, d4}

(* Two lengths of small lists, and large spans; a request that wraps.      *)
MCRequests == {1, 2, 3, LengthLimit - 1}

(* Everything can be released, or one page cannot, or nothing can.         *)
MCStuckPages == {{}, {2}, Pages}

MCSymmetry == Permutations(Descriptors)
===============================================================================
