------------------------------- MODULE PageHeap -------------------------------
(***************************************************************************)
(* The page heap of page_heap.{h,cc} and span.{h,cc}: it hands out runs of *)
(* pages ("spans"), takes them back, coalesces neighbours, returns memory  *)
(* to the operating system and keeps to the heap limit.                    *)
(*                                                                         *)
(* The heap itself is a record; the procedures that change it are          *)
(* operators from heap to heap.  One operation at a time runs, under       *)
(* lock_, and pc says where it is: its loops (the search of the lists,     *)
(* ReleaseAtLeastNPages) go one iteration a step.  Sizes are in pages.     *)
(* Three orders are abstracted: the code's next, or prev, in a free list   *)
(* may be any of its spans; the list ReleaseAtLeastNPages is at            *)
(* (release_index_) may be any that is not empty; any Delete may be the    *)
(* one at which scavenge_counter_ runs out.                                *)
(***************************************************************************)
EXTENDS Integers, FiniteSets

CONSTANTS
  LastPage,             \* pages 1 .. LastPage are addresses the system can give
  Descriptors,          \* the Span objects
  NoSpan,               \* nullptr
  kMaxPages,            \* longest span of the small lists; also kMinSystemAlloc
  kMaxValidPages,       \* GrowHeap refuses more
  LengthLimit,          \* Length is unsigned: arithmetic is modulo LengthLimit
  smallest_span_size,   \* smallest_span_size_, a power of two
  kForcedCoalesceInterval,
  Requests,             \* lengths asked of New and NewAligned
  Alignments,           \* align_pages asked of NewAligned, powers of two
  Releases,             \* num_pages asked of ReleaseAtLeastNPages
  Limits,               \* heap limits that may be set; 0 is no limit
  MetadataLimit,        \* bound: pages MetaDataAlloc takes
  StuckPages,           \* sets of pages the system may at times refuse to release
  PageMapMayFail        \* whether pagemap_.Ensure may run out of memory

Min(a, b) == IF a < b THEN a ELSE b
Max(a, b) == IF a < b THEN b ELSE a

Pages == 1 .. LastPage
Large == kMaxPages + 1
FreeLocations == {"normal", "returned"}

VARIABLES
  heap,                 \* the spans, the page map, the free lists, the stats
  aggressive_decommit,  \* aggressive_decommit_
  limit,                \* FLAGS_tcmalloc_heap_limit_mb
  metadata,             \* pages in TCMalloc_SystemTaken that are not the heap's
  pc,                   \* where the operation that holds lock_ is
  op,                   \* its arguments
  s,                    \* the list SearchFreeAndLargeLists is at
  attempt,              \* the call of SearchFreeAndLargeLists in NewLocked
  taken,                \* takenPages of EnsureLimit
  rel,                  \* ReleaseAtLeastNPages: its argument, sum and caller
  result                \* the span found, or best_normal of AllocLarge

settings == <<aggressive_decommit, limit>>
control == <<pc, op, s, attempt, taken, rel, result>>
vars == <<heap, settings, metadata, control>>

Heap ==
  [start: [Descriptors -> Nat],
   length: [Descriptors -> Nat],
   location: [Descriptors -> FreeLocations \cup {"in_use", "unused"}],
   sizeclass: [Descriptors -> {0, 1}],
   pagemap: [0 .. LastPage + 1 -> Descriptors \cup {NoSpan}],
   free: [FreeLocations -> [1 .. Large -> SUBSET Descriptors]],
   bytes: [FreeLocations -> Nat],
   committed: Nat,
   system: Nat,
   mapped: SUBSET Pages]

NoOp == [n |-> 0, sizeclass |-> 0, align |-> 0, want |-> 0]
NoRel == [need |-> 0, released |-> 0, ret |-> "idle"]

Init ==
  /\ heap = [start |-> [d \in Descriptors |-> 0],
             length |-> [d \in Descriptors |-> 0],
             location |-> [d \in Descriptors |-> "unused"],
             sizeclass |-> [d \in Descriptors |-> 0],
             pagemap |-> [p \in 0 .. LastPage + 1 |-> NoSpan],
             free |-> [l \in FreeLocations |-> [k \in 1 .. Large |-> {}]],
             bytes |-> [l \in FreeLocations |-> 0],
             committed |-> 0,
             system |-> 0,
             mapped |-> {}]
  /\ aggressive_decommit = FALSE
  /\ limit \in Limits
  /\ metadata = 0
  /\ pc = "idle"
  /\ op = NoOp
  /\ s = 0
  /\ attempt = "first"
  /\ taken = 0
  /\ rel = NoRel
  /\ result = NoSpan

-------------------------------------------------------------------------------
(* Spans and the lists they are on                                         *)

LastOf(h, d) == h.start[d] + h.length[d] - 1
PagesOf(h, d) == h.start[d] .. LastOf(h, d)
Live(h) == {d \in Descriptors : h.location[d] # "unused"}

(* The list for spans of n pages: free_[n - 1], or the set of large spans. *)
Bin(n) == Min(n, Large)

(* Any of these may be the one NewSpan gets from its allocator.            *)
Unused(h) == {d \in Descriptors : h.location[d] = "unused"}

NewSpan(h, d, p, n) ==
  [h EXCEPT !.start[d] = p, !.length[d] = n, !.location[d] = "in_use",
            !.sizeclass[d] = 0]

DeleteSpan(h, d) ==
  [h EXCEPT !.start[d] = 0, !.length[d] = 0, !.location[d] = "unused",
            !.sizeclass[d] = 0]

RecordSpan(h, d) == [h EXCEPT !.pagemap[h.start[d]] = d, !.pagemap[LastOf(h, d)] = d]

(* Mutant: the bytes are not added to the statistics.                      *)
PrependUncounted(h, d) ==
  LET l == h.location[d] IN
  [h EXCEPT !.free[l][Bin(h.length[d])] = h.free[l][Bin(h.length[d])] \cup {d}]

PrependToFreeList(h, d) ==
  LET l == h.location[d] IN
  [h EXCEPT !.bytes[l] = h.bytes[l] + h.length[d],
            !.free[l][Bin(h.length[d])] = h.free[l][Bin(h.length[d])] \cup {d}]

RemoveFromFreeList(h, d) ==
  LET l == h.location[d] IN
  [h EXCEPT !.bytes[l] = h.bytes[l] - h.length[d],
            !.free[l][Bin(h.length[d])] = h.free[l][Bin(h.length[d])] \ {d}]

(* Best fit in the set of large spans: at least n pages, the shortest, and *)
(* of these the one with the lowest address.                               *)
BestFit(h, l, n) ==
  LET fits == {d \in h.free[l][Large] : h.length[d] >= n}
      better(d, e) == \/ h.length[d] < h.length[e]
                      \/ h.length[d] = h.length[e] /\ h.start[d] <= h.start[e]
  IN IF fits = {} THEN NoSpan ELSE CHOOSE d \in fits : \A e \in fits : better(d, e)

(* Mutant: the first half keeps the old length.                            *)
SplitKeepsLength(h, d, n, e) ==
  RecordSpan(NewSpan(h, e, h.start[d] + n, h.length[d] - n), e)

(* A span in use becomes two: its first n pages, and the rest, span e.     *)
Split(h, d, n, e) ==
  LET h1 == RecordSpan(NewSpan(h, e, h.start[d] + n, h.length[d] - n), e)
  IN [h1 EXCEPT !.pagemap[h.start[d] + n - 1] = d, !.length[d] = n]

(* TCMalloc_SystemRelease of a span that has no stuck page.                *)
Releasable(h, d, stuck) == PagesOf(h, d) \cap stuck = {}
DecommitSpan(h, d) == [h EXCEPT !.committed = h.committed - h.length[d]]
CommitSpan(h, d) == [h EXCEPT !.committed = h.committed + h.length[d]]

(* The first n pages of a free span; what is left stays free, as span e.   *)
Carve(h, d, n, e) ==
  LET l == h.location[d]
      h1 == [RemoveFromFreeList(h, d) EXCEPT !.location[d] = "in_use"]
      h2 == RecordSpan([NewSpan(h1, e, h.start[d] + n, h.length[d] - n)
                          EXCEPT !.location[e] = l], e)
      h3 == [PrependToFreeList(h2, e) EXCEPT !.length[d] = n,
                                             !.pagemap[h.start[d] + n - 1] = d]
      h4 == IF h.length[d] > n THEN h3 ELSE h1
  IN IF l = "returned" THEN CommitSpan(h4, d) ELSE h4

(* Mutant: any neighbour is merged, in use or not.                         *)
MayMergeAny(h, d, o, aggressive, stuck) == o # NoSpan

(* CheckAndHandlePreMerge: whether neighbour o can be merged into d ...    *)
MayMerge(h, d, o, aggressive, stuck) ==
  /\ o # NoSpan
  /\ \/ h.location[o] = h.location[d]
     \/ /\ aggressive
        /\ h.location[o] = "normal" /\ h.location[d] = "returned"
        /\ Releasable(h, o, stuck)

(* Mutant: the absorbed span is not decommitted.                           *)
AbsorbCommitted(h, d, o) == DeleteSpan(RemoveFromFreeList(h, o), o)

(* ... and its removal, with the DeleteSpan that follows.                  *)
Absorb(h, d, o) ==
  LET h1 == IF h.location[o] = h.location[d] THEN h ELSE DecommitSpan(h, o)
  IN DeleteSpan(RemoveFromFreeList(h1, o), o)

(* Mutant: the merged span keeps its old length.                           *)
MergePrevShort(h, d, aggressive, stuck) ==
  LET o == h.pagemap[h.start[d] - 1]
      first == h.start[d] - h.length[o]
  IN IF MayMerge(h, d, o, aggressive, stuck)
     THEN [Absorb(h, d, o) EXCEPT !.start[d] = first, !.pagemap[first] = d]
     ELSE h

MergePrev(h, d, aggressive, stuck) ==
  LET o == h.pagemap[h.start[d] - 1]
      first == h.start[d] - h.length[o]
  IN IF MayMerge(h, d, o, aggressive, stuck)
     THEN [Absorb(h, d, o) EXCEPT !.start[d] = first,
                                  !.length[d] = h.length[d] + h.length[o],
                                  !.pagemap[first] = d]
     ELSE h

(* Mutant: the next span is never merged.                                  *)
MergeNextNever(h, d, aggressive, stuck) == h

(* Mutant: the new last page is not recorded.                              *)
MergeNextUnmapped(h, d, aggressive, stuck) ==
  LET o == h.pagemap[LastOf(h, d) + 1]
  IN IF MayMerge(h, d, o, aggressive, stuck)
     THEN [Absorb(h, d, o) EXCEPT !.length[d] = h.length[d] + h.length[o]]
     ELSE h

MergeNext(h, d, aggressive, stuck) ==
  LET o == h.pagemap[LastOf(h, d) + 1]
  IN IF MayMerge(h, d, o, aggressive, stuck)
     THEN [Absorb(h, d, o) EXCEPT !.length[d] = h.length[d] + h.length[o],
                                  !.pagemap[LastOf(h, d) + h.length[o]] = d]
     ELSE h

(* In aggressive mode a span that is freed is returned at once.            *)
DecommitFreed(h, d, aggressive, stuck) ==
  IF aggressive /\ h.location[d] = "normal" /\ Releasable(h, d, stuck)
  THEN [DecommitSpan(h, d) EXCEPT !.location[d] = "returned"]
  ELSE h

MergeIntoFreeList(h, d, aggressive, stuck) ==
  LET h1 == DecommitFreed(h, d, aggressive, stuck)
      h2 == MergePrev(h1, d, aggressive, stuck)
  IN PrependToFreeList(MergeNext(h2, d, aggressive, stuck), d)

(* DeleteLocked without its IncrementalScavenge.                           *)
DeleteLocked(h, d, aggressive, stuck) ==
  MergeIntoFreeList([h EXCEPT !.sizeclass[d] = 0, !.location[d] = "normal"],
                    d, aggressive, stuck)

(* Mutant: the location changes before the span leaves its list.           *)
ReleaseSpanSwapped(h, d, aggressive, stuck) ==
  LET h1 == [DecommitSpan(h, d) EXCEPT !.location[d] = "returned"]
  IN MergeIntoFreeList(RemoveFromFreeList(h1, d), d, aggressive, stuck)

(* ReleaseSpan of a span that can be released.                             *)
ReleaseSpan(h, d, aggressive, stuck) ==
  LET h1 == RemoveFromFreeList(DecommitSpan(h, d), d)
  IN MergeIntoFreeList([h1 EXCEPT !.location[d] = "returned"], d, aggressive, stuck)

(* Every page of the span leads to it.  The two ends do already.           *)
RegisterSizeClass(h, d, c) ==
  [h EXCEPT !.sizeclass[d] = c,
            !.pagemap = [p \in DOMAIN h.pagemap |->
                           IF p > h.start[d] /\ p < LastOf(h, d) THEN d ELSE h.pagemap[p]]]

-------------------------------------------------------------------------------
(* The operations                                                          *)

(* RoundUpSize, with the wrap-around it looks for.                         *)
RoundUpSize(n) ==
  LET up == (n + smallest_span_size - 1) % LengthLimit
      rounded == up - (up % smallest_span_size)
  IN IF rounded < n
     THEN (LengthLimit - 1) - ((LengthLimit - 1) % smallest_span_size)
     ELSE rounded

Goto(label) == pc' = label

(* The lock is released; the locals are gone.                              *)
Return ==
  /\ pc' = "idle"
  /\ op' = NoOp
  /\ s' = 0
  /\ attempt' = "first"
  /\ taken' = 0
  /\ rel' = NoRel
  /\ result' = NoSpan

(* NewLocked(n), up to the first search.                                   *)
NewLocked(n, args) ==
  /\ pc' = "search"
  /\ op' = [args EXCEPT !.n = RoundUpSize(n)]
  /\ s' = RoundUpSize(n)
  /\ UNCHANGED <<heap, settings, metadata, attempt, taken, rel, result>>

NewWithSizeClass(n, c) ==
  /\ pc = "idle"
  /\ NewLocked(n, [NoOp EXCEPT !.sizeclass = c])

(* NewAligned.  When n + align_pages wraps around it asks for more than    *)
(* there can be, to fail like any allocation that is too large.            *)
NewAligned(n, align) ==
  LET alloc == RoundUpSize(n) + align IN
  /\ pc = "idle"
  /\ IF alloc < LengthLimit
     THEN NewLocked(alloc, [NoOp EXCEPT !.align = align, !.want = RoundUpSize(n)])
     ELSE NewLocked(LengthLimit - 1, NoOp)

(* TCMalloc_SystemTaken less what has been given back.                     *)
TakenPages == heap.system + metadata - heap.bytes["returned"]

(* EnsureLimit(n): goes to label, by way of ReleaseAtLeastNPages if the    *)
(* limit is passed.  There LimitEnsured(n) is its result.                  *)
EnsureLimit(n, label) ==
  /\ taken' = TakenPages
  /\ IF limit = 0 \/ TakenPages + n <= limit
     THEN /\ pc' = label
          /\ rel' = NoRel
     ELSE /\ pc' = "release"
          /\ rel' = [NoRel EXCEPT !.need = TakenPages + n - limit, !.ret = label]

(* Mutant: whatever EnsureLimit released is taken for enough.              *)
LimitEnsuredAnyway(n) == TRUE

LimitEnsured(n) == limit = 0 \/ taken - rel.released + n <= limit

(* Carve d for the request and leave the search.                           *)
Found(d) ==
  /\ \E e \in Unused(heap) \cup {NoSpan} :
       /\ e = NoSpan <=> heap.length[d] = op.n
       /\ heap' = Carve(heap, d, op.n, e)
  /\ result' = d
  /\ Goto("found")
  /\ UNCHANGED <<settings, metadata, op, s, attempt, taken, rel>>

unchangedHeap == UNCHANGED <<heap, settings, metadata>>

(* SearchFreeAndLargeLists at list s: a normal span, ...                   *)
SearchNormal ==
  /\ pc = "search" /\ s <= kMaxPages
  /\ \E d \in heap.free["normal"][s] : Found(d)

(* ... or a returned one, if the limit allows, ...                         *)
SearchReturned ==
  /\ pc = "search" /\ s <= kMaxPages
  /\ heap.free["normal"][s] = {} /\ heap.free["returned"][s] # {}
  /\ EnsureLimit(op.n, "returned")
  /\ unchangedHeap
  /\ UNCHANGED <<op, s, attempt, result>>

TakeReturned ==
  /\ pc = "returned"
  /\ LimitEnsured(op.n)
  /\ \E d \in heap.free["returned"][s] : Found(d)

(* ... or the next list, the limit having been passed or the list emptied  *)
(* by coalescing.                                                          *)
SearchNext ==
  /\ \/ /\ pc = "search" /\ s <= kMaxPages
        /\ heap.free["normal"][s] = {} /\ heap.free["returned"][s] = {}
     \/ /\ pc = "returned"
        /\ LimitEnsured(op.n) => heap.free["returned"][s] = {}
  /\ s' = s + 1
  /\ Goto("search")
  /\ unchangedHeap
  /\ UNCHANGED <<op, attempt, taken, rel, result>>

(* AllocLarge: best fit among the normal and the returned large spans.     *)
AllocLarge ==
  LET n == op.n
      best_normal == BestFit(heap, "normal", n)
      c == BestFit(heap, "returned", n)
      returned == /\ c # NoSpan
                  /\ best_normal # NoSpan => heap.length[c] < heap.length[best_normal]
  IN
  /\ pc = "search" /\ s > kMaxPages
  /\ IF returned
     THEN IF limit = 0 \/ TakenPages + n <= limit
          THEN Found(c)
          ELSE /\ EnsureLimit(n, "large")
               /\ result' = best_normal
               /\ unchangedHeap
               /\ UNCHANGED <<op, s, attempt>>
     ELSE IF best_normal # NoSpan
     THEN Found(best_normal)
     ELSE /\ Goto("notfound")
          /\ unchangedHeap
          /\ UNCHANGED <<op, s, attempt, taken, rel, result>>

(* Mutant: AllocLarge calls itself whether or not the limit is ensured.    *)
AllocLargeRetry ==
  /\ pc = "large"
  /\ result' = NoSpan
  /\ Goto("search")
  /\ unchangedHeap
  /\ UNCHANGED <<op, s, attempt, taken, rel>>

(* AllocLarge after EnsureLimit(n, true): once more, or nothing.           *)
AllocLargeAgain ==
  /\ pc = "large"
  /\ result' = NoSpan
  /\ Goto(IF LimitEnsured(op.n) THEN "search" ELSE "notfound")
  /\ unchangedHeap
  /\ UNCHANGED <<op, s, attempt, taken, rel>>

(* NewLocked after a search in vain, when free pages are many and growth   *)
(* passes a multiple of the interval: release them all and search again.   *)
ForcedCoalesce ==
  /\ heap.bytes["normal"] # 0 /\ heap.bytes["returned"] # 0
  /\ heap.bytes["normal"] + heap.bytes["returned"] >= heap.system \div 4
  /\ heap.system \div kForcedCoalesceInterval
       # (heap.system + op.n) \div kForcedCoalesceInterval

NotFoundCoalesce ==
  /\ pc = "notfound"
  /\ attempt = "first" /\ ForcedCoalesce
  /\ attempt' = "coalesced"
  /\ s' = op.n
  /\ rel' = [NoRel EXCEPT !.need = LengthLimit, !.ret = "search"]
  /\ Goto("release")
  /\ unchangedHeap
  /\ UNCHANGED <<op, taken, result>>

(* GrowHeap, up to the first EnsureLimit.                                  *)
GrowHeap ==
  /\ pc = "notfound"
  /\ attempt = "coalesced" \/ (attempt = "first" /\ ~ForcedCoalesce)
  /\ op.n <= kMaxValidPages
  /\ EnsureLimit(Max(op.n, kMaxPages), "grow")
  /\ unchangedHeap
  /\ UNCHANGED <<op, s, attempt, result>>

(* The operation returns nullptr: too long for GrowHeap, or nothing found  *)
(* even after it.                                                          *)
NewFails ==
  /\ pc = "notfound"
  /\ \/ attempt = "grown"
     \/ op.n > kMaxValidPages /\ ~(attempt = "first" /\ ForcedCoalesce)
  /\ Return
  /\ unchangedHeap

(* DeleteLocked of d in heap h.  IncrementalScavenge does nothing, or      *)
(* releases a page or more.  On to label after that.                       *)
DeleteAndScavenge(h, d, label) ==
  /\ \E stuck \in StuckPages : heap' = DeleteLocked(h, d, aggressive_decommit, stuck)
  /\ \/ Goto(label) /\ UNCHANGED rel
     \/ /\ rel' = [need |-> 1, released |-> 0, ret |-> label]
        /\ Goto("release")

(* TCMalloc_SystemAlloc has given ask pages from p on.  If the page map    *)
(* has no room for them they are lost; otherwise they are a span, deleted  *)
(* like any other, and the search starts again.                            *)
Grown(p, ask) ==
  LET h == [heap EXCEPT !.system = heap.system + ask,
                        !.committed = heap.committed + ask,
                        !.mapped = heap.mapped \cup p .. p + ask - 1]
  IN
  /\ p .. p + ask - 1 \subseteq Pages \ heap.mapped
  /\ \/ \E d \in Unused(heap) :
          /\ DeleteAndScavenge(RecordSpan(NewSpan(h, d, p, ask), d), d, "search")
          /\ attempt' = "grown"
          /\ s' = op.n
          /\ UNCHANGED <<op, taken, result>>
     \/ /\ PageMapMayFail
        /\ heap' = h
        /\ Return
  /\ UNCHANGED <<settings, metadata>>

(* The system gives the pages GrowHeap asks for: kMaxPages at least, or    *)
(* else only what is needed.                                               *)
SystemAlloc ==
  \/ /\ pc = "grow"
     /\ LimitEnsured(Max(op.n, kMaxPages))
     /\ \E p \in Pages : Grown(p, Max(op.n, kMaxPages))
  \/ /\ pc = "grow_less"
     /\ LimitEnsured(op.n)
     /\ \E p \in Pages : Grown(p, op.n)

(* It does not, or the limit forbids to ask.                               *)
SystemAllocFails ==
  /\ \/ /\ pc = "grow" /\ op.n < kMaxPages
        /\ EnsureLimit(op.n, "grow_less")
        /\ UNCHANGED <<op, s, attempt, result>>
     \/ /\ pc = "grow_less" \/ (pc = "grow" /\ op.n >= kMaxPages)
        /\ Return
  /\ unchangedHeap

(* NewWithSizeClass returns the span.                                      *)
NewDone ==
  /\ pc = "found" /\ op.align = 0
  /\ heap' = IF op.sizeclass = 0 THEN heap
             ELSE RegisterSizeClass(heap, result, op.sizeclass)
  /\ Return
  /\ UNCHANGED <<settings, metadata>>

(* NewAligned: skip to an aligned page, and give the pages before it back. *)
Skip == (op.align - (heap.start[result] % op.align)) % op.align

AlignSkip ==
  /\ pc = "found" /\ op.align > 0
  /\ IF Skip > 0
     THEN \E e \in Unused(heap) :
            /\ DeleteAndScavenge(Split(heap, result, Skip, e), result, "trailer")
            /\ result' = e
     ELSE Goto("trailer") /\ UNCHANGED <<heap, rel, result>>
  /\ UNCHANGED <<settings, metadata, op, s, attempt, taken>>

(* NewAligned: give the pages after the n wanted back.                     *)
AlignTrailer ==
  /\ pc = "trailer"
  /\ heap.length[result] > op.want
  /\ \E e \in Unused(heap) :
       DeleteAndScavenge(Split(heap, result, op.want, e), e, "return")
  /\ UNCHANGED <<settings, metadata, op, s, attempt, taken, result>>

(* Delete of a span its owner has no more use for.                         *)
Delete(d) ==
  /\ pc = "idle"
  /\ heap.location[d] = "in_use"
  /\ DeleteAndScavenge(heap, d, "return")
  /\ UNCHANGED <<settings, metadata, op, s, attempt, taken, result>>

(* The end of Delete, NewAligned and ReleaseToSystem.                      *)
Done ==
  /\ \/ pc = "return"
     \/ pc = "trailer" /\ heap.length[result] <= op.want
  /\ Return
  /\ unchangedHeap

(* What ReleaseAtLeastNPages may come to next: a span of any small list,   *)
(* or the shortest of the large ones.                                      *)
Releasing ==
  {d \in Descriptors : /\ heap.location[d] = "normal"
                       /\ heap.length[d] > kMaxPages => d = BestFit(heap, "normal", 0)}

MoreToRelease == rel.released < rel.need /\ heap.bytes["normal"] > 0

(* ReleaseAtLeastNPages: one more span, ...                                *)
ReleaseNext ==
  /\ pc = "release" /\ MoreToRelease
  /\ \E d \in Releasing, stuck \in StuckPages :
       /\ Releasable(heap, d, stuck)
       /\ heap' = ReleaseSpan(heap, d, aggressive_decommit, stuck)
       /\ rel' = [rel EXCEPT !.released = rel.released + heap.length[d]]
  /\ UNCHANGED <<settings, metadata, pc, op, s, attempt, taken, result>>

(* ... until that is enough, or nothing is left, or the system refuses.    *)
ReleaseDone ==
  /\ pc = "release"
  /\ \/ ~MoreToRelease
     \/ \E d \in Releasing, stuck \in StuckPages : ~Releasable(heap, d, stuck)
  /\ Goto(rel.ret)
  /\ unchangedHeap
  /\ UNCHANGED <<op, s, attempt, taken, rel, result>>

(* MallocExtension::ReleaseToSystem                                        *)
ReleaseToSystem(n) ==
  /\ pc = "idle"
  /\ rel' = [NoRel EXCEPT !.need = n, !.ret = "return"]
  /\ Goto("release")
  /\ unchangedHeap
  /\ UNCHANGED <<op, s, attempt, taken, result>>

(* MallocExtension::SetNumericProperty, of the two settings of the heap.   *)
SetNumericProperty ==
  /\ pc = "idle"
  /\ \/ aggressive_decommit' \in BOOLEAN /\ UNCHANGED limit
     \/ limit' \in Limits /\ UNCHANGED aggressive_decommit
  /\ UNCHANGED <<heap, metadata, control>>

(* MetaDataAlloc, by any thread: it takes no notice of lock_ or the limit. *)
MetaDataAlloc ==
  /\ metadata < MetadataLimit
  /\ metadata' = metadata + 1
  /\ UNCHANGED <<heap, settings, control>>

(* The steps of the operation that holds the lock.                         *)
Step ==
  \/ SearchNormal \/ SearchReturned \/ TakeReturned \/ SearchNext
  \/ AllocLarge \/ AllocLargeAgain
  \/ NotFoundCoalesce \/ GrowHeap \/ SystemAlloc \/ SystemAllocFails \/ NewFails
  \/ NewDone \/ AlignSkip \/ AlignTrailer \/ Done \/ ReleaseNext \/ ReleaseDone

Call ==
  \/ \E n \in Requests, c \in {0, 1} : NewWithSizeClass(n, c)
  \/ \E n \in Requests, align \in Alignments : NewAligned(n, align)
  \/ \E d \in Descriptors : Delete(d)
  \/ \E n \in Releases : ReleaseToSystem(n)
  \/ SetNumericProperty

Next == Call \/ Step \/ MetaDataAlloc

Spec == Init /\ [][Next]_vars

-------------------------------------------------------------------------------
Labels == {"idle", "search", "returned", "large", "notfound", "grow", "grow_less",
           "found", "trailer", "return", "release"}

(* Every variable has the type of the member or local it models.           *)
TypeOK ==
  /\ heap \in Heap
  /\ aggressive_decommit \in BOOLEAN
  /\ limit \in Limits
  /\ metadata \in Nat
  /\ pc \in Labels
  /\ op \in [n: Nat, sizeclass: {0, 1}, align: Nat, want: Nat]
  /\ s \in Nat
  /\ attempt \in {"first", "coalesced", "grown"}
  /\ taken \in Int
  /\ rel \in [need: Int, released: Nat, ret: Labels]
  /\ result \in Descriptors \cup {NoSpan}

(* No page is in two spans: what New hands out overlaps neither a span in  *)
(* use nor a free one, through every split, carve and merge.               *)
SpansDisjoint ==
  /\ \A d \in Live(heap) : heap.length[d] > 0 /\ PagesOf(heap, d) \subseteq heap.mapped
  /\ \A d, e \in Live(heap) : d # e => PagesOf(heap, d) \cap PagesOf(heap, e) = {}

(* "we only care about the pagemap entries for the boundaries"             *)
(* (MergeIntoFreeList): those always lead to their span, free or in use,   *)
(* although stale entries are left everywhere else; and every page of a    *)
(* span cut into objects leads to it, or free() would take another.        *)
PageMapRight ==
  \A d \in Live(heap) :
    /\ heap.pagemap[heap.start[d]] = d
    /\ heap.pagemap[LastOf(heap, d)] = d
    /\ heap.sizeclass[d] # 0 => \A p \in PagesOf(heap, d) : heap.pagemap[p] = d

(* CheckExpensive: a span is on the list of its length and location, and   *)
(* on no other.                                                            *)
ListsRight ==
  \A l \in FreeLocations, k \in 1 .. Large, d \in Descriptors :
    d \in heap.free[l][k] <=> heap.location[d] = l /\ Bin(heap.length[d]) = k

PagesAt(l) == UNION {PagesOf(heap, d) : d \in {e \in Descriptors : heap.location[e] = l}}

(* free_bytes and unmapped_bytes are the pages on the free lists, and      *)
(* unmapped_bytes + committed_bytes = system_bytes (asserted at the end of *)
(* every operation).                                                       *)
StatsRight ==
  /\ \A l \in FreeLocations : heap.bytes[l] = Cardinality(PagesAt(l))
  /\ heap.bytes["returned"] + heap.committed = heap.system

(* "Eager coalescing": two normal free spans are never neighbours.         *)
NormalCoalesced ==
  \A d, e \in Descriptors :
    heap.location[d] = "normal" /\ heap.location[e] = "normal" =>
      heap.start[d] # LastOf(heap, e) + 1

(* A span in use is left alone by every operation but its own Delete: it   *)
(* keeps its pages and its size class while the heap is split, coalesced,  *)
(* released and grown around it.                                           *)
InUseUntouched ==
  [][\A d \in Descriptors :
       heap.location[d] = "in_use" /\ d \notin {result, result'} =>
         \/ pc = "idle" /\ heap'.location[d] # "in_use"
         \/ /\ heap'.location[d] = "in_use"
            /\ heap'.start[d] = heap.start[d]
            /\ heap'.length[d] = heap.length[d]
            /\ heap'.sizeclass[d] = heap.sizeclass[d]]_vars

(* "The next span of |leftover| was not previously coalesced with |span|,  *)
(* i.e. is nullptr or has got location other than |old_location|" (Carve,  *)
(* and the assertion below it): no free span has a neighbour it could have *)
(* been coalesced with.  Of returned spans this is not so.                 *)
CarveNeighbour ==
  \A d \in Descriptors :
    LET next == heap.pagemap[LastOf(heap, d) + 1] IN
    heap.location[d] \in FreeLocations /\ next # NoSpan =>
      heap.location[next] # heap.location[d]

(* "If best_normal existed, EnsureLimit would succeeded" (AllocLarge): the *)
(* pages of the normal span it passed over are enough to come under the    *)
(* limit.  They are not when the system refuses to release them.           *)
AllocLargeLimit == pc = "large" /\ ~LimitEnsured(op.n) => result = NoSpan

Covered(h) == UNION {PagesOf(h, d) : d \in Live(h)}

(* Merging and splitting never drop a page: one that is in some span stays *)
(* in some span.                                                           *)
NoPageLost == [][Covered(heap) \subseteq Covered(heap')]_vars

(* Pages the heap has from the system and has not returned.                *)
Held(h) == h.system - h.bytes["returned"]

(* No operation takes the heap past its limit: neither growing nor taking  *)
(* a returned span back, however the spans were coalesced meanwhile.       *)
LimitRespected ==
  [][limit # 0 /\ Held(heap') > Held(heap) => Held(heap') <= limit]_vars

(* Every operation ends and gives lock_ up: ReleaseAtLeastNPages finds the *)
(* pages free_bytes promises, and AllocLarge does not retry for ever.  The *)
(* holder of the lock waits for nobody, so it is enough that it cannot go  *)
(* on for ever inside one operation.                                       *)
EveryCallReturns == []<><<TRUE>>_<<heap, control>> => []<>(pc = "idle")
===============================================================================
