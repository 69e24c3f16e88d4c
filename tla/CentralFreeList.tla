--------------------------- MODULE CentralFreeList ---------------------------
(***************************************************************************)
(* The central free lists of central_freelist.{h,cc}: one per size class,  *)
(* shared by all threads.  Each holds a transfer cache (tc_slots_, whole   *)
(* batches of objects) in front of the spans its objects are carved from,  *)
(* under a lock of its own that three paths give up half way: eviction of  *)
(* a slot of another class (LockInverter), the return of a span to the     *)
(* page heap (ReleaseToSpans) and the fetch of a new one (Populate).       *)
(*                                                                         *)
(* An action is what a thread does between taking a lock and giving it     *)
(* up, or a part of it.  SpinLock is the Mutex it implements.  The order   *)
(* of the objects in a list and of the spans in nonempty_ is abstracted:   *)
(* any object, any span may be next.                                       *)
(***************************************************************************)
EXTENDS Integers, FiniteSets, Functions

CONSTANTS
  Threads,
  Classes,                 \* the size classes
  Spans,                   \* the spans the page heap can hand out
  ObjectsPerSpan,          \* per class: objects carved from one span
  num_objects_to_move,     \* per class: objects in one transfer batch
  SlotLimit,               \* per class: entries that make 1MB of objects
  kMaxNumTransferEntries,  \* length of tc_slots_
  kInitialCacheSize,       \* cache_size_ before it is capped: 16, or 0
  Class0,                  \* size class 0: no objects, but it has slots to give
  NoThread, NoClass, NoSpan

Min(a, b) == IF a < b THEN a ELSE b
Max(a, b) == IF a < b THEN b ELSE a

ASSUME ConstantsAssumption ==
  /\ ObjectsPerSpan \in [Classes -> Nat \ {0}]
  /\ num_objects_to_move \in [Classes -> Nat \ {0}]
  /\ SlotLimit \in [Classes -> Nat]
  /\ kMaxNumTransferEntries \in Nat
  /\ kInitialCacheSize \in Nat
  /\ Class0 \in Classes
  /\ NoThread \notin Threads
  /\ NoClass \notin Classes
  /\ NoSpan \notin Spans

(* The objects Populate carves out of span s for class c.                  *)
Carve(s, c) == {s} \X (1 .. ObjectsPerSpan[c])

Objects == UNION {Carve(s, c) : s \in Spans, c \in Classes}

(* Init: at most 1MB of objects in a transfer cache, or one entry.         *)
max_cache_size ==
  [c \in Classes |-> IF c = Class0 THEN kMaxNumTransferEntries
                    ELSE Min(kMaxNumTransferEntries, Max(1, SlotLimit[c]))]

(* The objects are carved out of the address space.                        *)
ASSUME FiniteAssumption == IsFiniteSet(Objects)

Slots == 0 .. kMaxNumTransferEntries - 1

VARIABLES
  lock,        \* lock_ of each class: the thread that holds it
  cache_size,  \* cache_size_
  used_slots,  \* used_slots_
  tc_slots,    \* tc_slots_; the entries from used_slots_ on are dead
  sizeclass,   \* per span: its class, or NoClass while the page heap has it
  list,        \* per span: "nonempty", "empty", or "none"
  objects,     \* per span: the objects on its free list
  refcount,    \* per span: objects taken from it
  counter,     \* counter_
  num_spans,   \* num_spans_
  outside,     \* objects in thread caches or with the application
  pc, cl,      \* per thread: next step, and the class it was called for
  batch,       \* per thread: the range being inserted, or fetched so far
  want,        \* per thread: the N of RemoveRange
  todo,        \* per thread: what ReleaseListToSpans still has to release
  victim,      \* per thread: the class being shrunk, or NoClass
  force,       \* per thread: the argument of EvictRandomSizeClass
  evicted,     \* per thread: what ShrinkCache returned
  populated,   \* per thread: "no", "ok" or "failed" since the call
  span         \* per thread: the span given to, or got from, the page heap

classVars == <<cache_size, used_slots, tc_slots, counter, num_spans>>
spanVars == <<sizeclass, list, objects, refcount>>
callVars == <<cl, batch, want, todo, victim, force, evicted, populated, span>>
vars == <<lock, classVars, spanVars, outside, pc, callVars>>

Init ==
  /\ lock = [c \in Classes |-> NoThread]
  /\ cache_size = [c \in Classes |-> Min(kInitialCacheSize, max_cache_size[c])]
  /\ used_slots = [c \in Classes |-> 0]
  /\ tc_slots = [c \in Classes |-> [i \in Slots |-> {}]]
  /\ sizeclass = [s \in Spans |-> NoClass]
  /\ list = [s \in Spans |-> "none"]
  /\ objects = [s \in Spans |-> {}]
  /\ refcount = [s \in Spans |-> 0]
  /\ counter = [c \in Classes |-> 0]
  /\ num_spans = [c \in Classes |-> 0]
  /\ outside = {}
  /\ pc = [t \in Threads |-> "idle"]
  /\ cl = [t \in Threads |-> NoClass]
  /\ batch = [t \in Threads |-> {}]
  /\ want = [t \in Threads |-> 0]
  /\ todo = [t \in Threads |-> {}]
  /\ victim = [t \in Threads |-> NoClass]
  /\ force = [t \in Threads |-> FALSE]
  /\ evicted = [t \in Threads |-> FALSE]
  /\ populated = [t \in Threads |-> "no"]
  /\ span = [t \in Threads |-> NoSpan]

Goto(t, label) == pc' = [pc EXCEPT ![t] = label]
Take(t, c) == lock[c] = NoThread /\ lock' = [lock EXCEPT ![c] = t]
Drop(c) == lock' = [lock EXCEPT ![c] = NoThread]

(* The call is over and its locals are gone.                               *)
Return(t) ==
  /\ Goto(t, "idle")
  /\ cl' = [cl EXCEPT ![t] = NoClass]
  /\ batch' = [batch EXCEPT ![t] = {}]
  /\ want' = [want EXCEPT ![t] = 0]
  /\ victim' = [victim EXCEPT ![t] = NoClass]
  /\ force' = [force EXCEPT ![t] = FALSE]
  /\ evicted' = [evicted EXCEPT ![t] = FALSE]
  /\ populated' = [populated EXCEPT ![t] = "no"]
  /\ UNCHANGED <<todo, span>>

(* Spans on the nonempty_ list of class c.                                 *)
Nonempty(c) == {s \in Spans : list[s] = "nonempty" /\ sizeclass[s] = c}

(* The class whose lock a thread has while it releases objects to spans.   *)
ReleaseClass(t) == IF victim[t] = NoClass THEN cl[t] ELSE victim[t]

-------------------------------------------------------------------------------
(* InsertRange                                                             *)

(* used_slots_++ and the store into tc_slots_.                             *)
PutEntry(c, S) ==
  /\ tc_slots' = [tc_slots EXCEPT ![c][used_slots[c]] = S]
  /\ used_slots' = [used_slots EXCEPT ![c] = used_slots[c] + 1]

(* Mutant: the entry handed out stays in the cache.                        *)
DropEntryKept(c) == UNCHANGED <<tc_slots, used_slots>>

(* --used_slots_: the entry is dead, and the model clears it.              *)
DropEntry(c) ==
  /\ tc_slots' = [tc_slots EXCEPT ![c][used_slots[c] - 1] = {}]
  /\ used_slots' = [used_slots EXCEPT ![c] = used_slots[c] - 1]

(* MakeCacheSpace failed, or the range is not a whole batch: the range     *)
(* goes back to its spans.                                                 *)
ReleaseOwnRange(t, S) ==
  /\ batch' = [batch EXCEPT ![t] = {}]
  /\ todo' = [todo EXCEPT ![t] = S]
  /\ victim' = [victim EXCEPT ![t] = NoClass]
  /\ force' = [force EXCEPT ![t] = FALSE]
  /\ Goto(t, "release")

(* InsertRange up to the point where it returns, releases the range to     *)
(* spans or starts to look for a slot of another class.                    *)
InsertRange(t, c, S) ==
  /\ pc[t] = "idle"
  /\ S # {} /\ S \subseteq outside
  /\ \A o \in S : sizeclass[o[1]] = c
  /\ Cardinality(S) <= num_objects_to_move[c]
  /\ lock[c] = NoThread
  /\ outside' = outside \ S
  /\ IF used_slots[c] < cache_size[c] /\ Cardinality(S) = num_objects_to_move[c]
     THEN PutEntry(c, S) /\ UNCHANGED <<lock, pc, cl, batch, todo, victim, force>>
     ELSE /\ lock' = [lock EXCEPT ![c] = t]
          /\ cl' = [cl EXCEPT ![t] = c]
          /\ IF \/ Cardinality(S) # num_objects_to_move[c]
                \/ cache_size[c] = max_cache_size[c]
             THEN ReleaseOwnRange(t, S)
             ELSE /\ batch' = [batch EXCEPT ![t] = S]
                  /\ Goto(t, "evict")
                  /\ UNCHANGED <<todo, victim, force>>
          /\ UNCHANGED <<used_slots, tc_slots>>
  /\ UNCHANGED <<cache_size, counter, num_spans, spanVars, want, evicted, populated,
                 span>>

(* Mutant: eviction is tried until it succeeds.                            *)
EvictFailedRetry(t) ==
  /\ force' = [force EXCEPT ![t] = ~force[t]]
  /\ victim' = [victim EXCEPT ![t] = NoClass]
  /\ Goto(t, "evict")
  /\ UNCHANGED <<batch, todo>>

(* EvictRandomSizeClass returned false: try again by force, then give up.  *)
EvictFailed(t) ==
  IF force[t]
  THEN ReleaseOwnRange(t, batch[t])
  ELSE /\ force' = [force EXCEPT ![t] = TRUE]
       /\ victim' = [victim EXCEPT ![t] = NoClass]
       /\ Goto(t, "evict")
       /\ UNCHANGED <<batch, todo>>

(* Mutant: the own lock is kept while waiting for the victim's.            *)
LockInverterNested(t) == Goto(t, "shrink") /\ UNCHANGED lock

(* LockInverter gives up the held lock before it waits for the victim's.   *)
LockInverter(t) == Goto(t, "shrink") /\ Drop(cl[t])

(* EvictRandomSizeClass and the checks of ShrinkCache made without a lock. *)
(* race_counter is updated by all threads at once, so any class may come   *)
(* out, and the unlocked reads of another list's sizes may say anything.   *)
EvictRandomSizeClass(t) ==
  /\ pc[t] = "evict"
  /\ \/ EvictFailed(t) /\ UNCHANGED lock
     \/ \E v \in Classes \ {cl[t]} :
          /\ victim' = [victim EXCEPT ![t] = v]
          /\ LockInverter(t)
          /\ UNCHANGED <<batch, todo, force>>
  /\ UNCHANGED <<classVars, spanVars, outside, cl, want, evicted, populated, span>>

(* Mutant: the victim keeps the slot it gives.                             *)
GiveSlotKept(v) == UNCHANGED cache_size

(* Mutant: the victim loses two slots.                                     *)
GiveSlotTwice(v) == cache_size' = [cache_size EXCEPT ![v] = cache_size[v] - 2]

(* cache_size_-- of the list that is shrunk.                               *)
GiveSlot(v) == cache_size' = [cache_size EXCEPT ![v] = cache_size[v] - 1]

(* ShrinkCache of the victim, with the inverted lock.  When it evicts a    *)
(* full slot it goes on to release the objects to their spans.             *)
ShrinkCache(t) ==
  LET v == victim[t]
      full == used_slots[v] = cache_size[v]
  IN
  /\ pc[t] = "shrink"
  /\ lock[v] = NoThread
  /\ IF cache_size[v] = 0 \/ (full /\ ~force[t])
     THEN /\ evicted' = [evicted EXCEPT ![t] = FALSE]
          /\ Goto(t, "relock")
          /\ UNCHANGED <<lock, cache_size, used_slots, tc_slots, todo>>
     ELSE /\ GiveSlot(v)
          /\ evicted' = [evicted EXCEPT ![t] = TRUE]
          /\ IF full
             THEN /\ DropEntry(v)
                  /\ todo' = [todo EXCEPT ![t] = tc_slots[v][used_slots[v] - 1]]
                  /\ lock' = [lock EXCEPT ![v] = t]
                  /\ Goto(t, "release")
             ELSE /\ Goto(t, "relock")
                  /\ UNCHANGED <<lock, used_slots, tc_slots, todo>>
  /\ UNCHANGED <<counter, num_spans, spanVars, outside, cl, batch, want, victim,
                 force, populated, span>>

(* Mutant: no second look after the lock was given up.                     *)
MayGrowUnchecked(c) == TRUE

(* MakeCacheSpace's second look, with the lock retaken.                    *)
MayGrow(c) == cache_size[c] < max_cache_size[c]

(* The end of LockInverter, then the rest of MakeCacheSpace and of         *)
(* InsertRange.                                                            *)
MakeCacheSpace(t) ==
  LET c == cl[t] IN
  /\ pc[t] = "relock"
  /\ lock[c] = NoThread
  /\ IF evicted[t] /\ MayGrow(c)
     THEN /\ cache_size' = [cache_size EXCEPT ![c] = cache_size[c] + 1]
          /\ PutEntry(c, batch[t])
          /\ Return(t)
          /\ UNCHANGED lock
     ELSE /\ lock' = [lock EXCEPT ![c] = t]
          /\ IF evicted[t] THEN ReleaseOwnRange(t, batch[t]) ELSE EvictFailed(t)
          /\ evicted' = [evicted EXCEPT ![t] = FALSE]
          /\ UNCHANGED <<cache_size, used_slots, tc_slots, cl, want, populated, span>>
  /\ UNCHANGED <<counter, num_spans, spanVars, outside>>

(* Mutant: the objects of a freed span stay counted.                       *)
SpanFreedUncounted(c, s) ==
  /\ list' = [list EXCEPT ![s] = "none"]
  /\ num_spans' = [num_spans EXCEPT ![c] = num_spans[c] - 1]
  /\ UNCHANGED counter

(* Its last object released, span s leaves the list of class c, and the    *)
(* objects that were free in it leave the count.                           *)
SpanFreed(c, s) ==
  /\ counter' = [counter EXCEPT ![c] = counter[c] + 1 - ObjectsPerSpan[c]]
  /\ list' = [list EXCEPT ![s] = "none"]
  /\ num_spans' = [num_spans EXCEPT ![c] = num_spans[c] - 1]

(* Mutant: the span stays on the empty_ list.                              *)
ObjectReleasedOnly(s, o) ==
  /\ objects' = [objects EXCEPT ![s] = objects[s] \cup {o}]
  /\ UNCHANGED list

(* The object is free in its span, which is on nonempty_ from now on.      *)
ObjectReleased(s, o) ==
  /\ list' = [list EXCEPT ![s] = "nonempty"]
  /\ objects' = [objects EXCEPT ![s] = objects[s] \cup {o}]

(* ReleaseToSpans of the next object, up to the point where the lock is    *)
(* given up because its span has no object in use any more.                *)
ReleaseToSpans(t) ==
  LET c == ReleaseClass(t) IN
  /\ pc[t] = "release"
  /\ \E o \in todo[t] :
       LET s == o[1] IN
       /\ todo' = [todo EXCEPT ![t] = todo[t] \ {o}]
       /\ refcount' = [refcount EXCEPT ![s] = refcount[s] - 1]
       /\ IF refcount[s] = 1
          THEN /\ SpanFreed(c, s)
               /\ Drop(c)
               /\ pc' = [pc EXCEPT ![t] = "delete"]
               /\ span' = [span EXCEPT ![t] = s]
               /\ UNCHANGED objects
          ELSE /\ counter' = [counter EXCEPT ![c] = counter[c] + 1]
               /\ ObjectReleased(s, o)
               /\ UNCHANGED <<lock, num_spans, pc, span>>
  /\ UNCHANGED <<cache_size, used_slots, tc_slots, sizeclass, outside, cl, batch,
                 want, victim, force, evicted, populated>>

(* pageheap()->Delete: the span is the page heap's again.                  *)
DeleteSpan(t) ==
  /\ pc[t] = "delete"
  /\ sizeclass' = [sizeclass EXCEPT ![span[t]] = NoClass]
  /\ objects' = [objects EXCEPT ![span[t]] = {}]
  /\ span' = [span EXCEPT ![t] = NoSpan]
  /\ Goto(t, "deleted")
  /\ UNCHANGED <<lock, classVars, list, refcount, outside, cl, batch, want, todo,
                 victim, force, evicted, populated>>

(* The lock_.Lock() after pageheap()->Delete.                              *)
RelockAfterDelete(t) ==
  /\ pc[t] = "deleted"
  /\ Take(t, ReleaseClass(t))
  /\ Goto(t, "release")
  /\ UNCHANGED <<classVars, spanVars, outside, callVars>>

(* The end of ReleaseListToSpans: back to InsertRange, or to the           *)
(* LockInverter of ShrinkCache.                                            *)
ReleaseListDone(t) ==
  /\ pc[t] = "release"
  /\ todo[t] = {}
  /\ Drop(ReleaseClass(t))
  /\ IF victim[t] = NoClass
     THEN Return(t)
     ELSE Goto(t, "relock") /\ UNCHANGED callVars
  /\ UNCHANGED <<classVars, spanVars, outside>>

-------------------------------------------------------------------------------
(* RemoveRange                                                             *)

(* RemoveRange up to its return from the transfer cache, or the start of   *)
(* FetchFromOneSpansSafe.                                                  *)
RemoveRange(t, c, n) ==
  /\ pc[t] = "idle"
  /\ lock[c] = NoThread
  /\ IF n = num_objects_to_move[c] /\ used_slots[c] > 0
     THEN /\ DropEntry(c)
          /\ outside' = outside \cup tc_slots[c][used_slots[c] - 1]
          /\ UNCHANGED <<lock, pc, cl, want>>
     ELSE /\ lock' = [lock EXCEPT ![c] = t]
          /\ cl' = [cl EXCEPT ![t] = c]
          /\ want' = [want EXCEPT ![t] = n]
          /\ Goto(t, "fetch")
          /\ UNCHANGED <<used_slots, tc_slots, outside>>
  /\ UNCHANGED <<cache_size, counter, num_spans, spanVars, batch, todo, victim, force,
                 evicted, populated, span>>

(* FetchFromOneSpans: as many objects as are wanted, or as the span has.   *)
FetchFromOneSpans(t) ==
  /\ pc[t] = "fetch"
  /\ Cardinality(batch[t]) < want[t]
  /\ \E s \in Nonempty(cl[t]) :
       LET n == Min(want[t] - Cardinality(batch[t]), Cardinality(objects[s])) IN
       \E S \in SUBSET objects[s] :
         /\ Cardinality(S) = n
         /\ batch' = [batch EXCEPT ![t] = batch[t] \cup S]
         /\ objects' = [objects EXCEPT ![s] = objects[s] \ S]
         /\ list' = [list EXCEPT ![s] = IF S = objects[s] THEN "empty" ELSE "nonempty"]
         /\ refcount' = [refcount EXCEPT ![s] = refcount[s] + n]
         /\ counter' = [counter EXCEPT ![cl[t]] = counter[cl[t]] - n]
  /\ UNCHANGED <<lock, cache_size, used_slots, tc_slots, num_spans, sizeclass,
                 outside, pc, cl, want, todo, victim, force, evicted, populated, span>>

(* Nothing to fetch and Populate not called yet: Populate gives up the     *)
(* lock.                                                                   *)
PopulateStart(t) ==
  /\ pc[t] = "fetch"
  /\ batch[t] = {} /\ Nonempty(cl[t]) = {} /\ populated[t] = "no"
  /\ Drop(cl[t])
  /\ Goto(t, "populate")
  /\ UNCHANGED <<classVars, spanVars, outside, callVars>>

(* Populate: NewWithSizeClass, which may fail, and the carving of the span. *)
Populate(t) ==
  /\ pc[t] = "populate"
  /\ \/ \E s \in Spans :
          /\ sizeclass[s] = NoClass
          /\ sizeclass' = [sizeclass EXCEPT ![s] = cl[t]]
          /\ objects' = [objects EXCEPT ![s] = Carve(s, cl[t])]
          /\ refcount' = [refcount EXCEPT ![s] = 0]
          /\ span' = [span EXCEPT ![t] = s]
          /\ UNCHANGED populated
     \/ /\ populated' = [populated EXCEPT ![t] = "failed"]
        /\ UNCHANGED <<sizeclass, objects, refcount, span>>
  /\ Goto(t, "repopulate")
  /\ UNCHANGED <<lock, classVars, list, outside, cl, batch, want, todo, victim, force,
                 evicted>>

(* Mutant: the new span goes on the wrong list.                            *)
SpanAddedEmpty(s) == list' = [list EXCEPT ![s] = "empty"]

(* DLL_Prepend(&nonempty_, span)                                           *)
SpanAdded(s) == list' = [list EXCEPT ![s] = "nonempty"]

(* The lock_.Lock() of Populate, and the span put on the nonempty_ list.   *)
PopulateDone(t) ==
  LET c == cl[t] IN
  /\ pc[t] = "repopulate"
  /\ Take(t, c)
  /\ IF span[t] = NoSpan
     THEN UNCHANGED <<list, num_spans, counter, span, populated>>
     ELSE /\ SpanAdded(span[t])
          /\ num_spans' = [num_spans EXCEPT ![c] = num_spans[c] + 1]
          /\ counter' = [counter EXCEPT ![c] = counter[c] + ObjectsPerSpan[c]]
          /\ span' = [span EXCEPT ![t] = NoSpan]
          /\ populated' = [populated EXCEPT ![t] = "ok"]
  /\ Goto(t, "fetch")
  /\ UNCHANGED <<cache_size, used_slots, tc_slots, sizeclass, objects, refcount,
                 outside, cl, batch, want, todo, victim, force, evicted>>

(* RemoveRange returns what it has: all that was wanted, or what there was. *)
RemoveRangeDone(t) ==
  /\ pc[t] = "fetch"
  /\ \/ Cardinality(batch[t]) = want[t]
     \/ Nonempty(cl[t]) = {} /\ (batch[t] # {} \/ populated[t] # "no")
  /\ outside' = outside \cup batch[t]
  /\ Drop(cl[t])
  /\ Return(t)
  /\ UNCHANGED <<classVars, spanVars>>

-------------------------------------------------------------------------------
(* Steps of a thread inside a call.                                        *)
Step(t) ==
  \/ EvictRandomSizeClass(t) \/ ShrinkCache(t) \/ MakeCacheSpace(t)
  \/ ReleaseToSpans(t) \/ DeleteSpan(t) \/ RelockAfterDelete(t) \/ ReleaseListDone(t)
  \/ FetchFromOneSpans(t) \/ PopulateStart(t) \/ Populate(t) \/ PopulateDone(t)
  \/ RemoveRangeDone(t)

Call(t) ==
  \E c \in Classes \ {Class0} :
    \/ \E S \in SUBSET outside : InsertRange(t, c, S)
    \/ \E n \in 1 .. num_objects_to_move[c] : RemoveRange(t, c, n)

Next == \E t \in Threads : Call(t) \/ Step(t)

Spec == Init /\ [][Next]_vars

(* A thread inside a call is scheduled; the locks promise no order.        *)
FairSpec == Spec /\ \A t \in Threads : WF_vars(Step(t))

-------------------------------------------------------------------------------
Labels == {"idle", "evict", "shrink", "relock", "release", "delete", "deleted",
           "fetch", "populate", "repopulate"}

ClassTypes ==
  /\ lock \in [Classes -> Threads \cup {NoThread}]
  /\ cache_size \in [Classes -> Nat]
  /\ used_slots \in [Classes -> Nat]
  /\ tc_slots \in [Classes -> [Slots -> SUBSET Objects]]
  /\ counter \in [Classes -> Int]
  /\ num_spans \in [Classes -> Int]

SpanTypes ==
  /\ sizeclass \in [Spans -> Classes \cup {NoClass}]
  /\ list \in [Spans -> {"none", "empty", "nonempty"}]
  /\ objects \in [Spans -> SUBSET Objects]
  /\ refcount \in [Spans -> Int]
  /\ outside \in SUBSET Objects

CallTypes ==
  /\ pc \in [Threads -> Labels]
  /\ cl \in [Threads -> Classes \cup {NoClass}]
  /\ batch \in [Threads -> SUBSET Objects]
  /\ want \in [Threads -> Nat]
  /\ todo \in [Threads -> SUBSET Objects]
  /\ victim \in [Threads -> Classes \cup {NoClass}]
  /\ force \in [Threads -> BOOLEAN]
  /\ evicted \in [Threads -> BOOLEAN]
  /\ populated \in [Threads -> {"no", "ok", "failed"}]
  /\ span \in [Threads -> Spans \cup {NoSpan}]

(* Every variable has the type of the member or local it models.           *)
TypeOK == ClassTypes /\ SpanTypes /\ CallTypes

(* The class whose lock a thread must have at its present step.            *)
Needs(t, c) ==
  \/ pc[t] \in {"evict", "fetch"} /\ cl[t] = c
  \/ pc[t] = "release" /\ ReleaseClass(t) = c

(* "we never hold two size class locks concurrently" (ShrinkCache): a      *)
(* thread has exactly the lock of the list it works on, none while it is   *)
(* in the page heap or waits for a lock, and none when it has returned.    *)
LockDiscipline == \A t \in Threads, c \in Classes : lock[c] = t <=> Needs(t, c)

(* The assertions of ShrinkCache and InsertRange, at every moment and not  *)
(* only where they stand: 0 <= used_slots_ <= cache_size_ <=               *)
(* max_cache_size_, although MakeCacheSpace grows a cache on the strength  *)
(* of checks made before it gave up the lock.                              *)
SlotBounds ==
  \A c \in Classes :
    /\ 0 <= used_slots[c]
    /\ used_slots[c] <= cache_size[c]
    /\ cache_size[c] <= max_cache_size[c]

(* Threads that have taken a slot from another class and not used it yet.  *)
SlotsInTransit ==
  {t \in Threads : evicted[t] /\ pc[t] \in {"release", "delete", "deleted", "relock"}}

(* Slots only move between classes: all transfer caches together never get *)
(* more entries than Init gave them.                                       *)
SlotBudget ==
  SumFunction(cache_size) + Cardinality(SlotsInTransit)
    <= SumFunction([c \in Classes |-> Min(kInitialCacheSize, max_cache_size[c])])

InSlot(o, c, i) == i < used_slots[c] /\ o \in tc_slots[c][i]
InHand(o, t) == o \in batch[t] \cup todo[t]

(* No object is in two places: on the free list of its span, in one live   *)
(* entry of one transfer cache, in the hands of one thread inside a call,  *)
(* or outside.  Two threads never get the same object.                     *)
ObjectInOnePlace ==
  \A o \in Objects :
    /\ o \in objects[o[1]] =>
         /\ o \notin outside
         /\ \A t \in Threads : ~InHand(o, t)
         /\ \A c \in Classes, i \in Slots : ~InSlot(o, c, i)
    /\ o \in outside =>
         /\ \A t \in Threads : ~InHand(o, t)
         /\ \A c \in Classes, i \in Slots : ~InSlot(o, c, i)
    /\ \A t \in Threads : InHand(o, t) =>
         /\ o \notin batch[t] \cap todo[t]
         /\ \A u \in Threads : InHand(o, u) => t = u
         /\ \A c \in Classes, i \in Slots : ~InSlot(o, c, i)
    /\ \A c, d \in Classes :
         \A i, j \in Slots :
           InSlot(o, c, i) /\ InSlot(o, d, j) => c = d /\ i = j

(* The objects of span s that are not on its free list.                    *)
Taken(s) ==
  {o \in Objects :
    /\ o[1] = s
    /\ \/ o \in outside
       \/ \E t \in Threads : InHand(o, t)
       \/ \E c \in Classes, i \in Slots : InSlot(o, c, i)}

(* No object is lost, and none outlives its span: a span on a list has all *)
(* its objects either on its free list or taken, and refcount counts the   *)
(* taken ones; a span on no list (being carved, being deleted, or in the   *)
(* page heap) has no object anywhere else.  It is on nonempty_ exactly     *)
(* while it has something to fetch (the assertion of FetchFromOneSpans).   *)
SpanAccounts ==
  \A s \in Spans :
    IF list[s] = "none"
    THEN /\ refcount[s] = 0
         /\ Taken(s) = {}
    ELSE /\ sizeclass[s] # NoClass
         /\ objects[s] \cup Taken(s) = Carve(s, sizeclass[s])
         /\ refcount[s] = Cardinality(Taken(s))
         /\ refcount[s] > 0 \/ list[s] = "nonempty"
         /\ list[s] = "nonempty" <=> objects[s] # {}

(* counter_ and num_spans_, which length() and OverheadBytes() report, are *)
(* exact between any two critical sections.                                *)
CounterAccounts ==
  \A c \in Classes :
    LET mine == {s \in Spans : sizeclass[s] = c /\ list[s] # "none"} IN
    /\ num_spans[c] = Cardinality(mine)
    /\ counter[c] = SumFunction([s \in mine |-> Cardinality(objects[s])])

(* "Only returns nullptr on allocation failure" (FetchFromOneSpansSafe):   *)
(* when Populate has got a span, no other thread can empty it before the   *)
(* second fetch.                                                           *)
FetchFailsOnlyWithoutMemory ==
  \A t \in Threads :
    pc[t] = "fetch" /\ populated[t] = "ok" => batch[t] # {} \/ Nonempty(cl[t]) # {}

(* The locks are given up and retaken in every order, yet the threads      *)
(* never wait for each other for ever: while some call is in progress,     *)
(* calls keep returning.                                                   *)
Progress ==
  []<>(\E t \in Threads : pc[t] # "idle") =>
    []<><<\E t \in Threads : pc[t] # "idle" /\ pc'[t] = "idle">>_vars
===============================================================================
