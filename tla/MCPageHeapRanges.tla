--------------------------- MODULE MCPageHeapRanges ---------------------------
(* A small instance of PageHeapRanges for TLC.                             *)
EXTENDS PageHeapRanges, TLC

CONSTANTS d1, d2, d3, d4

MCDescriptors == {d1, d2, d3, d4}

MCSymmetry == Permutations(Descriptors)
===============================================================================
