----------------------------- MODULE ThreadCache -----------------------------
(***************************************************************************)
(* The thread caches of thread_cache.{h,cc}.  A thread allocates from, and *)
(* frees to, the free lists of its own cache without a lock; a list that   *)
(* is empty or too long exchanges batches with the central free list.  The *)
(* caches share a budget of bytes: each has a max_size_, taken from        *)
(* unclaimed_cache_space_ or stolen from the caches in turn, and what      *)
(* concerns it (the list of caches, the round-robin pointer, the budget)   *)
(* is under pageheap_lock, except for two reads: a thread compares its     *)
(* size_ with its own max_size_, and everybody reads                       *)
(* min_per_thread_cache_size_, with no lock.                               *)
(*                                                                         *)
(* A cache is named by its thread.  The objects are abstracted to their    *)
(* number, and the central lists (module CentralFreeList) to the number of *)
(* objects that are neither in a cache nor with the application.  A step   *)
(* under pageheap_lock ends where min_per_thread_cache_size_ is read       *)
(* again, for that may have changed.                                       *)
(***************************************************************************)
EXTENDS Integers, FiniteSets, Functions

CONSTANTS
  Threads,
  NumClasses,                 \* the size classes are 1 .. NumClasses
  ByteSizeForClass,           \* per class
  num_objects_to_move,        \* per class: the batch size
  TotalObjects,               \* per class: all the objects there are
  kStealAmount, kMaxThreadCacheSize, kMaxOverages,
  kMaxDynamicFreeListLength,
  kMaxTries,                  \* 10: attempts to steal with the lock held
  kMaxOverall,                \* 1GB
  kDefaultOverallThreadCacheSize, kMinThreadCacheSize,
  Overalls,                   \* arguments of set_overall_thread_cache_size
  Mins,                       \* values of min_per_thread_cache_size_
  Null,                       \* the null pointer
  NoThread, Setter            \* nobody, or SetNumericProperty, has the lock

Classes == 1 .. NumClasses

(* NumMoveSize gives at least one object, and at most 64KB worth of them:  *)
(* no more than 8192, since the smallest class has 8 bytes.                *)
ASSUME ThreadCacheAssumption ==
  /\ NumClasses \in Nat \ {0}
  /\ ByteSizeForClass \in [Classes -> Nat \ {0}]
  /\ num_objects_to_move \in [Classes -> Nat \ {0}]
  /\ TotalObjects \in [Classes -> Nat]
  /\ kStealAmount \in Nat \ {0}
  /\ kMaxThreadCacheSize \in Nat
  /\ kMaxOverages \in Nat
  /\ kMaxDynamicFreeListLength \in Nat
  /\ \A c \in Classes : num_objects_to_move[c] <= kMaxDynamicFreeListLength
  /\ kMaxTries \in Nat
  /\ kMaxOverall \in Nat
  /\ Overalls \subseteq Nat
  /\ Mins \subseteq Nat \ {0}
  /\ kDefaultOverallThreadCacheSize \in Nat
  /\ kMinThreadCacheSize \in Mins
  /\ IsFiniteSet(Threads)
  /\ Null \notin Threads
  /\ NoThread \notin Threads
  /\ Setter \notin Threads \cup {NoThread}

Least(a, b) == IF a < b THEN a ELSE b
Most(a, b) == IF a < b THEN b ELSE a

VARIABLES
  list,                        \* per cache and class: its FreeList
  size,                        \* size_ of each cache
  max_size,                    \* max_size_ of each cache
  next, prev,                  \* next_ and prev_ of each cache
  thread_heaps,                \* the head of the list of caches
  thread_heap_count,
  next_memory_steal,
  overall_thread_cache_size,
  per_thread_cache_size,
  min_per_thread_cache_size,
  unclaimed_cache_space,
  pageheap_lock,
  central,                     \* per class: objects in the central list
  application,                 \* per class: objects that are allocated
  pc,                          \* per thread: its next step
  cl,                          \* per thread: the class a loop has come to
  tries                        \* the i of IncreaseCacheLimitLocked

heapVars == <<next, prev, thread_heaps, thread_heap_count>>
limitVars == <<overall_thread_cache_size, per_thread_cache_size>>
cacheVars == <<list, size, central, application>>
vars == <<cacheVars, max_size, heapVars, next_memory_steal, limitVars,
          min_per_thread_cache_size, unclaimed_cache_space, pageheap_lock,
          pc, cl, tries>>

(* FreeList::Init.                                                         *)
NewList == [length |-> 0, lowater |-> 0, max_length |-> 1, length_overages |-> 0]

Init ==
  /\ list = [t \in Threads |-> [c \in Classes |-> NewList]]
  /\ size = [t \in Threads |-> 0]
  /\ max_size = [t \in Threads |-> 0]
  /\ next = [t \in Threads |-> Null]
  /\ prev = [t \in Threads |-> Null]
  /\ thread_heaps = Null
  /\ thread_heap_count = 0
  /\ next_memory_steal = Null
  /\ overall_thread_cache_size = kDefaultOverallThreadCacheSize
  /\ per_thread_cache_size = kMaxThreadCacheSize
  /\ min_per_thread_cache_size = kMinThreadCacheSize
  /\ unclaimed_cache_space = overall_thread_cache_size
  /\ pageheap_lock = NoThread
  /\ central = TotalObjects
  /\ application = [c \in Classes |-> 0]
  /\ pc = [t \in Threads |-> "none"]
  /\ cl = [t \in Threads |-> 0]
  /\ tries = 0

Goto(t, label) == pc' = [pc EXCEPT ![t] = label]
Take(t) == pageheap_lock = NoThread /\ pageheap_lock' = t
Drop == pageheap_lock' = NoThread
SetMaxSize(t, bytes) == max_size' = [max_size EXCEPT ![t] = bytes]

-----------------------------------------------------------------------------
(* FreeList.                                                               *)
PushRange(l, n) == [l EXCEPT !.length = @ + n]

PopRange(l, n) ==
  [l EXCEPT !.length = @ - n, !.lowater = Least(@, l.length - n)]

(* Mutant: the bytes released are not taken off size_.                     *)
ReleaseUncounted(t, c, l, bytes, n) ==
  LET moved == Least(n, l.length) IN
  /\ list' = [list EXCEPT ![t][c] = PopRange(l, moved)]
  /\ size' = [size EXCEPT ![t] = bytes]
  /\ central' = [central EXCEPT ![c] = @ + moved]

(* ReleaseToCentralCache on list l of a cache with so many bytes: n may be *)
(* more than l has.  It is cut into batches, all of which are inserted     *)
(* before the cache is used again.                                         *)
ReleaseToCentralCache(t, c, l, bytes, n) ==
  LET moved == Least(n, l.length) IN
  /\ list' = [list EXCEPT ![t][c] = PopRange(l, moved)]
  /\ size' = [size EXCEPT ![t] = bytes - moved * ByteSizeForClass[c]]
  /\ central' = [central EXCEPT ![c] = @ + moved]

(* Mutant: the limit is not rounded down to a multiple of a batch.         *)
LengthenedUnrounded(c, l) ==
  [l EXCEPT !.max_length =
     IF l.max_length < num_objects_to_move[c] THEN l.max_length + 1
     ELSE Least(l.max_length + num_objects_to_move[c], kMaxDynamicFreeListLength)]

(* The slow start of max_length: one by one up to a batch, then by whole   *)
(* batches, up to the longest multiple that is allowed.                    *)
Lengthened(c, l) ==
  LET batch_size == num_objects_to_move[c]
      new_length == Least(l.max_length + batch_size, kMaxDynamicFreeListLength)
  IN  [l EXCEPT !.max_length =
         IF l.max_length < batch_size THEN l.max_length + 1
         ELSE new_length - (new_length % batch_size)]

(* Mutant: the application's object is put on the list as well.            *)
FetchedAll(c, l, n) == Lengthened(c, PushRange(l, n))

(* What FetchFromCentralCache makes of the list when it got n objects: the *)
(* first is the application's.                                             *)
Fetched(c, l, n) == Lengthened(c, PushRange(l, n - 1))

(* Allocate, with FetchFromCentralCache.  Nothing fetched means out of     *)
(* memory, and changes nothing.                                            *)
Allocate(t, c) ==
  /\ pc[t] = "idle"
  /\ LET l == list[t][c] IN
     \/ /\ l.length > 0
        /\ list' = [list EXCEPT ![t][c] = PopRange(l, 1)]
        /\ size' = [size EXCEPT ![t] = @ - ByteSizeForClass[c]]
        /\ application' = [application EXCEPT ![c] = @ + 1]
        /\ UNCHANGED central
     \/ /\ l.length = 0
        /\ \E fetch_count \in
             1 .. Least(central[c], Least(l.max_length, num_objects_to_move[c])) :
             /\ list' = [list EXCEPT ![t][c] = Fetched(c, l, fetch_count)]
             /\ size' = [size EXCEPT ![t] =
                           @ + ByteSizeForClass[c] * (fetch_count - 1)]
             /\ central' = [central EXCEPT ![c] = @ - fetch_count]
             /\ application' = [application EXCEPT ![c] = @ + 1]
  /\ UNCHANGED <<max_size, heapVars, next_memory_steal, limitVars, pc, cl, tries,
                 min_per_thread_cache_size, unclaimed_cache_space, pageheap_lock>>

(* ListTooLong moves max_length towards a batch.                           *)
Overlong(c, l) ==
  LET batch_size == num_objects_to_move[c] IN
  IF l.max_length < batch_size THEN [l EXCEPT !.max_length = @ + 1]
  ELSE IF l.max_length = batch_size THEN l
  ELSE IF l.length_overages + 1 > kMaxOverages
       THEN [l EXCEPT !.max_length = @ - batch_size, !.length_overages = 0]
       ELSE [l EXCEPT !.length_overages = @ + 1]

(* Deallocate, with ListTooLong, up to Scavenge.  max_size_ is read        *)
(* without the lock.                                                       *)
Deallocate(t, c) ==
  /\ pc[t] = "idle"
  /\ application[c] > 0
  /\ application' = [application EXCEPT ![c] = @ - 1]
  /\ LET l == PushRange(list[t][c], 1)
         bytes == size[t] + ByteSizeForClass[c]
     IN  IF l.length > l.max_length
         THEN ReleaseToCentralCache(t, c, Overlong(c, l), bytes, num_objects_to_move[c])
         ELSE /\ list' = [list EXCEPT ![t][c] = l]
              /\ size' = [size EXCEPT ![t] = bytes]
              /\ UNCHANGED central
  /\ IF size'[t] > max_size[t]
     THEN Goto(t, "scavenge") /\ cl' = [cl EXCEPT ![t] = 1]
     ELSE UNCHANGED <<pc, cl>>
  /\ UNCHANGED <<max_size, heapVars, next_memory_steal, limitVars, tries,
                 min_per_thread_cache_size, unclaimed_cache_space, pageheap_lock>>

(* A loop over the classes has done one of them.                           *)
NextClass(t, label) ==
  IF cl[t] = NumClasses
  THEN Goto(t, label) /\ cl' = [cl EXCEPT ![t] = 0]
  ELSE cl' = [cl EXCEPT ![t] = @ + 1] /\ UNCHANGED pc

(* One round of Scavenge: half of what was never needed is given back, an  *)
(* unused max_length shrinks down to a batch, and the mark is cleared.     *)
Scavenge(t) ==
  /\ pc[t] = "scavenge"
  /\ LET c == cl[t]
         l == list[t][c]
         batch_size == num_objects_to_move[c]
         cleared == [l EXCEPT !.lowater = l.length]
     IN  IF l.lowater = 0
         THEN /\ list' = [list EXCEPT ![t][c] = cleared]
              /\ UNCHANGED <<size, central>>
         ELSE ReleaseToCentralCache(t, c,
                IF l.max_length > batch_size
                THEN [cleared EXCEPT !.max_length = Most(@ - batch_size, batch_size)]
                ELSE cleared,
                size[t], Most(l.lowater \div 2, 1))
  /\ NextClass(t, "increase")
  /\ UNCHANGED <<application, max_size, heapVars, next_memory_steal, limitVars,
                 tries, min_per_thread_cache_size, unclaimed_cache_space,
                 pageheap_lock>>

-----------------------------------------------------------------------------
(* IncreaseCacheLimitLocked up to its loop: done leads to where it returns *)
(* and steal to the loop.                                                  *)
IncreaseCacheLimitLocked(t, done, steal) ==
  IF unclaimed_cache_space > 0
  THEN /\ unclaimed_cache_space' = unclaimed_cache_space - kStealAmount
       /\ SetMaxSize(t, max_size[t] + kStealAmount)
       /\ Goto(t, done)
       /\ UNCHANGED tries
  ELSE /\ Goto(t, steal)
       /\ tries' = 0
       /\ UNCHANGED <<unclaimed_cache_space, max_size>>

(* Mutant: anybody but the thread itself is robbed.                        *)
MayStealFromAny(t, h) == h # t

(* max_size_ <= min_per_thread_cache_size_ compares as unsigned: a         *)
(* negative max_size_ would be huge.                                       *)
MayStealFrom(t, h) ==
  /\ h # t
  /\ max_size[h] < 0 \/ max_size[h] > min_per_thread_cache_size

(* Mutant: one round too many.                                             *)
StealOnceMore(t, back) ==
  IF tries > kMaxTries
  THEN Goto(t, back) /\ UNCHANGED <<max_size, next_memory_steal, tries>>
  ELSE LET h == IF next_memory_steal = Null THEN thread_heaps ELSE next_memory_steal
       IN  /\ h # Null
           /\ next_memory_steal' = next[h]
           /\ IF MayStealFrom(t, h)
              THEN /\ max_size' = [max_size EXCEPT ![h] = @ - kStealAmount,
                                                   ![t] = @ + kStealAmount]
                   /\ Goto(t, back)
                   /\ UNCHANGED tries
              ELSE /\ tries' = tries + 1
                   /\ UNCHANGED <<max_size, pc>>

(* One round of the loop; back is where IncreaseCacheLimitLocked returns.  *)
(* With no cache to look at the program would end here (the assertion on   *)
(* thread_heaps_).                                                         *)
Steal(t, back) ==
  IF tries = kMaxTries
  THEN Goto(t, back) /\ UNCHANGED <<max_size, next_memory_steal, tries>>
  ELSE LET h == IF next_memory_steal = Null THEN thread_heaps ELSE next_memory_steal
       IN  /\ h # Null
           /\ next_memory_steal' = next[h]
           /\ IF MayStealFrom(t, h)
              THEN /\ max_size' = [max_size EXCEPT ![h] = @ - kStealAmount,
                                                   ![t] = @ + kStealAmount]
                   /\ Goto(t, back)
                   /\ UNCHANGED tries
              ELSE /\ tries' = tries + 1
                   /\ UNCHANGED <<max_size, pc>>

(* IncreaseCacheLimit, at the end of Scavenge.                             *)
IncreaseCacheLimit(t) ==
  /\ pc[t] = "increase"
  /\ Take(t)
  /\ IncreaseCacheLimitLocked(t, "unlock", "steal")
  /\ UNCHANGED <<cacheVars, heapVars, next_memory_steal, limitVars,
                 min_per_thread_cache_size, cl>>

StealForOld(t) ==
  /\ pc[t] = "steal"
  /\ Steal(t, "unlock")
  /\ UNCHANGED <<cacheVars, heapVars, limitVars, min_per_thread_cache_size,
                 unclaimed_cache_space, pageheap_lock, cl>>

Unlock(t) ==
  /\ pc[t] = "unlock"
  /\ Drop
  /\ Goto(t, "idle")
  /\ UNCHANGED <<cacheVars, max_size, heapVars, next_memory_steal, limitVars,
                 min_per_thread_cache_size, unclaimed_cache_space, cl, tries>>

-----------------------------------------------------------------------------
(* NewHeap, and the constructor up to the loop of                          *)
(* IncreaseCacheLimitLocked.  The new cache is not in the list yet.        *)
NewHeap(t) ==
  /\ pc[t] = "none"
  /\ Take(t)
  /\ IncreaseCacheLimitLocked(t, "link", "steal_new")
  /\ UNCHANGED <<cacheVars, heapVars, next_memory_steal, limitVars,
                 min_per_thread_cache_size, cl>>

StealForNew(t) ==
  /\ pc[t] = "steal_new"
  /\ Steal(t, "link")
  /\ UNCHANGED <<cacheVars, heapVars, limitVars, min_per_thread_cache_size,
                 unclaimed_cache_space, pageheap_lock, cl>>

(* Mutant: the minimum is not taken out of the budget.                     *)
MinimumForFree(t) ==
  /\ SetMaxSize(t, IF max_size[t] = 0 THEN min_per_thread_cache_size ELSE max_size[t])
  /\ UNCHANGED unclaimed_cache_space

(* A cache that got nothing takes the minimum, and the budget goes         *)
(* negative.                                                               *)
MinimumBudget(t) ==
  IF max_size[t] = 0
  THEN /\ SetMaxSize(t, min_per_thread_cache_size)
       /\ unclaimed_cache_space' = unclaimed_cache_space - min_per_thread_cache_size
  ELSE UNCHANGED <<max_size, unclaimed_cache_space>>

(* The rest of the constructor and of NewHeap.                             *)
LinkHeap(t) ==
  /\ pc[t] = "link"
  /\ MinimumBudget(t)
  /\ list' = [list EXCEPT ![t] = [c \in Classes |-> NewList]]
  /\ size' = [size EXCEPT ![t] = 0]
  /\ next' = [next EXCEPT ![t] = thread_heaps]
  /\ prev' = [h \in Threads |-> IF h = t THEN Null
                                ELSE IF h = thread_heaps THEN t ELSE prev[h]]
  /\ next_memory_steal' = IF thread_heaps = Null THEN t ELSE next_memory_steal
  /\ thread_heaps' = t
  /\ thread_heap_count' = thread_heap_count + 1
  /\ Drop
  /\ Goto(t, "idle")
  /\ UNCHANGED <<central, application, limitVars, min_per_thread_cache_size, cl, tries>>

(* MarkThreadIdle, or the thread ends: DeleteCache begins with the         *)
(* destructor.                                                             *)
DeleteCache(t) ==
  /\ pc[t] = "idle"
  /\ Goto(t, "destroy")
  /\ cl' = [cl EXCEPT ![t] = 1]
  /\ UNCHANGED <<cacheVars, max_size, heapVars, next_memory_steal, limitVars, tries,
                 min_per_thread_cache_size, unclaimed_cache_space, pageheap_lock>>

(* One round of the destructor.                                            *)
Destroy(t) ==
  /\ pc[t] = "destroy"
  /\ ReleaseToCentralCache(t, cl[t], list[t][cl[t]], size[t], list[t][cl[t]].length)
  /\ NextClass(t, "unlink")
  /\ UNCHANGED <<application, max_size, heapVars, next_memory_steal, limitVars,
                 tries, min_per_thread_cache_size, unclaimed_cache_space,
                 pageheap_lock>>

(* Mutant: the cache before the deleted one keeps its next_.               *)
UnlinkBackwards(t) ==
  /\ next' = [next EXCEPT ![t] = Null]
  /\ prev' = [h \in Threads |-> IF h = t THEN Null
                                ELSE IF h = next[t] THEN prev[t] ELSE prev[h]]

(* next_ and prev_ of the neighbours lead past the deleted cache.          *)
UnlinkNeighbours(t) ==
  /\ next' = [h \in Threads |-> IF h = t THEN Null
                                ELSE IF h = prev[t] THEN next[t] ELSE next[h]]
  /\ prev' = [h \in Threads |-> IF h = t THEN Null
                                ELSE IF h = next[t] THEN prev[t] ELSE prev[h]]

(* The round-robin pointer must not stay with a cache that is deleted.     *)
StealAfterDelete(t, heaps) ==
  LET h == IF next_memory_steal = t THEN next[t] ELSE next_memory_steal
  IN  IF h = Null THEN heaps ELSE h

(* Mutant: the budget of the cache is forgotten with it.                   *)
ForgetBudget(t) ==
  /\ SetMaxSize(t, 0)
  /\ UNCHANGED unclaimed_cache_space

(* The budget of the cache is there for others.                            *)
ReturnBudget(t) ==
  /\ SetMaxSize(t, 0)
  /\ unclaimed_cache_space' = unclaimed_cache_space + max_size[t]

(* The rest of DeleteCache.  The cache's memory may be used by the next    *)
(* cache, so its members are forgotten.                                    *)
UnlinkHeap(t) ==
  /\ pc[t] = "unlink"
  /\ pageheap_lock = NoThread
  /\ LET heaps == IF thread_heaps = t THEN next[t] ELSE thread_heaps IN
     /\ thread_heaps' = heaps
     /\ next_memory_steal' = StealAfterDelete(t, heaps)
  /\ UnlinkNeighbours(t)
  /\ thread_heap_count' = thread_heap_count - 1
  /\ ReturnBudget(t)
  /\ list' = [list EXCEPT ![t] = [c \in Classes |-> NewList]]
  /\ size' = [size EXCEPT ![t] = 0]
  /\ Goto(t, "none")
  /\ UNCHANGED <<central, application, limitVars, min_per_thread_cache_size,
                 pageheap_lock, cl, tries>>

-----------------------------------------------------------------------------
(* The caches in the list that starts at thread_heaps_.                    *)
Heaps == {h \in Threads : h = thread_heaps \/ prev[h] # Null}

(* SetNumericProperty, max_total_thread_cache_bytes: the value is clipped, *)
(* and the lock is kept for RecomputePerThreadCacheSize.                   *)
set_overall_thread_cache_size(new_size) ==
  /\ Take(Setter)
  /\ overall_thread_cache_size' =
       Least(Most(new_size, min_per_thread_cache_size), kMaxOverall)
  /\ UNCHANGED <<cacheVars, max_size, heapVars, next_memory_steal,
                 per_thread_cache_size, min_per_thread_cache_size,
                 unclaimed_cache_space, pc, cl, tries>>

(* bytes * (a / b), towards zero.  The code rounds a / b to a double       *)
(* first, which may make the result one byte less.                         *)
Scaled(bytes, a, b) ==
  IF bytes < 0 THEN -((-bytes * a) \div b) ELSE (bytes * a) \div b

(* A smaller share shrinks every cache; a larger one lets them grow.       *)
RecomputePerThreadCacheSize ==
  /\ pageheap_lock = Setter
  /\ Drop
  /\ LET n == Most(thread_heap_count, 1)
         space == Least(Most(overall_thread_cache_size \div n,
                             min_per_thread_cache_size), kMaxThreadCacheSize)
         share == Most(per_thread_cache_size, 1)
     IN  /\ max_size' = [h \in Threads |->
              IF h \in Heaps /\ space < share
              THEN Scaled(max_size[h], space, share) ELSE max_size[h]]
         /\ per_thread_cache_size' = space
  /\ unclaimed_cache_space' =
       overall_thread_cache_size - SumFunctionOnSet(max_size', Heaps)
  /\ UNCHANGED <<cacheVars, heapVars, next_memory_steal, overall_thread_cache_size,
                 min_per_thread_cache_size, pc, cl, tries>>

(* SetNumericProperty, min_per_thread_cache_bytes: no lock is taken.       *)
set_min_per_thread_cache_size(new_size) ==
  /\ min_per_thread_cache_size' = new_size
  /\ UNCHANGED <<cacheVars, max_size, heapVars, next_memory_steal, limitVars,
                 unclaimed_cache_space, pageheap_lock, pc, cl, tries>>

Next ==
  \/ \E t \in Threads :
       \/ \E c \in Classes : Allocate(t, c) \/ Deallocate(t, c)
       \/ Scavenge(t)
       \/ IncreaseCacheLimit(t) \/ StealForOld(t) \/ Unlock(t)
       \/ NewHeap(t) \/ StealForNew(t) \/ LinkHeap(t)
       \/ DeleteCache(t) \/ Destroy(t) \/ UnlinkHeap(t)
  \/ \E bytes \in Overalls : set_overall_thread_cache_size(bytes)
  \/ RecomputePerThreadCacheSize
  \/ \E bytes \in Mins : set_min_per_thread_cache_size(bytes)

Spec == Init /\ [][Next]_vars

-----------------------------------------------------------------------------
Labels == {"none", "steal_new", "link", "idle", "scavenge", "increase", "steal",
           "unlock", "destroy", "unlink"}
FreeLists ==
  [length : Nat, lowater : Nat, max_length : Nat, length_overages : Nat]

CacheTypes ==
  /\ list \in [Threads -> [Classes -> FreeLists]]
  /\ size \in [Threads -> Int]
  /\ central \in [Classes -> Int]
  /\ application \in [Classes -> Nat]
  /\ pc \in [Threads -> Labels]
  /\ cl \in [Threads -> 0 .. NumClasses]

HeapTypes ==
  /\ next \in [Threads -> Threads \cup {Null}]
  /\ prev \in [Threads -> Threads \cup {Null}]
  /\ thread_heaps \in Threads \cup {Null}
  /\ thread_heap_count \in Int
  /\ next_memory_steal \in Threads \cup {Null}

BudgetTypes ==
  /\ max_size \in [Threads -> Int]
  /\ overall_thread_cache_size \in Nat
  /\ per_thread_cache_size \in Nat
  /\ min_per_thread_cache_size \in Mins
  /\ tries \in 0 .. kMaxTries

(* The lock is with the thread that works under it.                        *)
LockHeld ==
  /\ pageheap_lock \in Threads \cup {NoThread, Setter}
  /\ \A t \in Threads :
       pageheap_lock = t <=> pc[t] \in {"steal_new", "link", "steal", "unlock"}

(* The members of the caches keep their types, no list has a negative      *)
(* length, and the lock is with the thread that works under it.            *)
TypeOK ==
  /\ CacheTypes
  /\ HeapTypes
  /\ BudgetTypes
  /\ LockHeld
  /\ \A t \in Threads : pc[t] \in {"scavenge", "destroy"} => cl[t] \in Classes

(* A thread has a cache it may use, and that others may find in the list.  *)
HasCache(t) == pc[t] \notin {"none", "steal_new", "link"}

(* The doubly linked list of caches survives every order of NewHeap and    *)
(* DeleteCache: it has exactly the live caches, each is reached from       *)
(* thread_heaps_, next_ and prev_ are inverse, thread_heap_count_ is their *)
(* number, and next_memory_steal_, which IncreaseCacheLimitLocked follows, *)
(* never points to a cache that was deleted.                               *)
HeapListRight ==
  /\ \A t \in Threads : t \in Heaps <=> HasCache(t)
  /\ thread_heaps # Null => prev[thread_heaps] = Null
  /\ \A t \in Heaps : next[t] # Null => next[t] \in Heaps /\ prev[next[t]] = t
  /\ \A t \in Heaps : prev[t] # Null => prev[t] \in Heaps /\ next[prev[t]] = t
  /\ \A reached \in SUBSET Heaps :
       (/\ thread_heaps # Null => thread_heaps \in reached
        /\ \A t \in reached : next[t] # Null => next[t] \in reached)
       => reached = Heaps
  /\ thread_heap_count = Cardinality(Heaps)
  /\ next_memory_steal # Null => next_memory_steal \in Heaps

(* A thread that must steal finds a list to search (the assertion on       *)
(* thread_heaps_ in IncreaseCacheLimitLocked): where the last cache is     *)
(* gone the budget is unclaimed again.                                     *)
SearchHasHeaps ==
  \A t \in Threads : pc[t] \in {"steal_new", "steal"} => thread_heaps # Null

(* The caches whose max_size_ is taken out of the budget.                  *)
Budgeted == {t \in Threads : HasCache(t) \/ pc[t] \in {"steal_new", "link"}}

(* No byte of the budget is lost or spent twice by stealing, by the        *)
(* minimum given to a cache that found nothing, by the scaling of all      *)
(* caches and by the end of a thread: unclaimed_cache_space_ is what its   *)
(* comment says, overall_thread_cache_size_ less the sum of max_size_.     *)
UnclaimedRight ==
  pageheap_lock # Setter =>
    unclaimed_cache_space =
      overall_thread_cache_size - SumFunctionOnSet(max_size, Budgeted)

(* size_ is the number of bytes on the lists of the cache, whatever was    *)
(* fetched, overlong, scavenged or released: it alone decides when the     *)
(* cache is too large.                                                     *)
SizeRight ==
  \A t \in Threads :
    size[t] = SumFunctionOnSet(
                [c \in Classes |-> list[t][c].length * ByteSizeForClass[c]], Classes)

(* Every object is in one cache, in a central list or with the             *)
(* application: a cache that moves batches, or is deleted, loses none.     *)
ObjectsConserved ==
  \A c \in Classes :
    TotalObjects[c] = central[c] + application[c]
      + SumFunctionOnSet([t \in Threads |-> list[t][c].length], Threads)

(* What the slow start, overages and scavenging keep of a free list:       *)
(* max_length is below a batch or a multiple of it and never 0 (the        *)
(* comment in FetchFromCentralCache, the assertion in Deallocate), the     *)
(* low-water mark is not above the length, and no list outgrows the 16     *)
(* bits its length has in 32-bit builds.                                   *)
ListLimits ==
  \A t \in Threads, c \in Classes :
    LET l == list[t][c] IN
    /\ l.max_length \in 1 .. kMaxDynamicFreeListLength
    /\ l.max_length < num_objects_to_move[c]
         \/ l.max_length % num_objects_to_move[c] = 0
    /\ l.length_overages <= kMaxOverages
    /\ l.lowater <= l.length
    /\ l.length <= kMaxDynamicFreeListLength

(* Where the minimum is at least kStealAmount, stealing never takes a      *)
(* max_size_ below zero, where the unsigned comparison would make the      *)
(* victim look rich and have it robbed for ever.                           *)
BudgetNotNegative ==
  (\A bytes \in Mins : bytes >= kStealAmount) =>
    \A t \in Threads : max_size[t] >= 0
=============================================================================
