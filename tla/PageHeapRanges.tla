---------------------------- MODULE PageHeapRanges ----------------------------
(***************************************************************************)
(* MallocExtension::Ranges over the page heap: IterateOverRanges walks the *)
(* page map with GetNextRange, kNumRanges spans at a time under lock_.     *)
(* The cursor it keeps while the lock is free is a page number, and the    *)
(* page may be inside a coalesced span when the walk goes on: page map     *)
(* entries of such pages are stale.                                        *)
(***************************************************************************)
EXTENDS PageHeap, Sequences

CONSTANT kNumRanges

VARIABLES
  page,     \* the cursor; 0 when nobody iterates
  ranges,   \* the buffer, with the page that was asked for
  holding   \* whether IterateOverRanges has lock_

rangeVars == <<page, ranges, holding>>

RangesInit == Init /\ page = 0 /\ ranges = <<>> /\ holding = FALSE

(* The call, or the next round of its loop: the lock is taken.             *)
IterateOverRanges ==
  /\ pc = "idle" /\ ~holding
  /\ page' = IF page = 0 THEN 1 ELSE page
  /\ ranges' = <<>>
  /\ holding' = TRUE
  /\ UNCHANGED vars

(* PageMap::Next: the first page from p on that has an entry.              *)
FirstEntry(p) == {q \in p .. LastPage + 1 : /\ heap.pagemap[q] # NoSpan
                                      /\ \A r \in p .. q - 1 : heap.pagemap[r] = NoSpan}

(* What GetNextRange reads from a descriptor.  One that has been deleted   *)
(* is memory of the allocator's free list: it may say anything.            *)
SpanRead(d) ==
  IF heap.location[d] = "unused" THEN [start: Pages, length: Pages]
  ELSE {[start |-> heap.start[d], length |-> heap.length[d]]}

(* GetNextRange(page, &ranges[n]) with the lock held, and the new cursor.  *)
GetNextRange ==
  /\ holding /\ Len(ranges) < kNumRanges
  /\ \E q \in FirstEntry(page) : \E r \in SpanRead(heap.pagemap[q]) :
       /\ ranges' = Append(ranges, [asked |-> page, span |-> heap.pagemap[q], read |-> r])
       /\ page' = r.start + r.length
  /\ UNCHANGED <<vars, holding>>

(* The lock is released to call func on the ranges: the buffer is full, or *)
(* there are no more.                                                      *)
RangesUnlock ==
  /\ holding
  /\ \/ Len(ranges) = kNumRanges /\ UNCHANGED page
     \/ Len(ranges) < kNumRanges /\ FirstEntry(page) = {} /\ page' = 0
  /\ holding' = FALSE
  /\ ranges' = <<>>
  /\ UNCHANGED vars

RangesNext ==
  \/ IterateOverRanges \/ GetNextRange \/ RangesUnlock
  \/ ((~holding /\ Call) \/ Step \/ MetaDataAlloc) /\ UNCHANGED rangeVars

RangesSpec == RangesInit /\ [][RangesNext]_<<vars, rangeVars>>

-------------------------------------------------------------------------------
(* "If this page heap is managing a range with starting page # >= start,   *)
(* store info about the range" (GetNextRange): what is stored is a span    *)
(* the heap has, and it starts at or after the cursor.  It is neither when *)
(* the cursor's page was coalesced into a longer span between two rounds.  *)
RangeFromStart ==
  \A i \in DOMAIN ranges :
    /\ heap.location[ranges[i].span] # "unused"
    /\ ranges[i].read.start >= ranges[i].asked
===============================================================================
