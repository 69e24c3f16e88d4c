--------------------------- MODULE ThreadCacheProofs ---------------------------
(***************************************************************************)
(* For any number of threads and classes and any sizes: the limits of the  *)
(* free lists, the list of the caches with its round-robin pointer, and    *)
(* budgets that never go negative.                                         *)
(***************************************************************************)
EXTENDS ThreadCache, FiniteSetTheorems, TLAPS

IInv ==
  /\ TypeOK
  /\ ListLimits
  /\ HeapListRight
  /\ BudgetNotNegative

-----------------------------------------------------------------------------
(* Arithmetic of the batches.                                              *)
LEMMA DivMod ==
  \A a \in Nat, b \in Nat \ {0} :
    /\ a = b * (a \div b) + (a % b)
    /\ a % b \in 0 .. b - 1
    /\ a \div b \in Nat
OBVIOUS

(* A multiple of a batch has no remainder.                                 *)
LEMMA MultipleMod == \A q \in Nat, b \in Nat \ {0} : (b * q) % b = 0
OBVIOUS

(* Products of naturals are naturals.                                      *)
LEMMA ProductNat == \A a, b \in Nat : a * b \in Nat
OBVIOUS

(* Rounding down gives a multiple, and not 0 from b on.                    *)
LEMMA RoundDown ==
  \A a \in Nat, b \in Nat \ {0} :
    a >= b => /\ a - (a % b) \in 1 .. a
              /\ (a - (a % b)) % b = 0
<1> SUFFICES ASSUME NEW a \in Nat, NEW b \in Nat \ {0}, a >= b
             PROVE  a - (a % b) \in 1 .. a /\ (a - (a % b)) % b = 0
  OBVIOUS
<1>1. (a - (a % b)) % b = 0
  BY DivMod, MultipleMod
<1>2. a % b \in 0 .. b - 1
  BY DivMod
<1> QED
  BY <1>1, <1>2

(* A batch less than a multiple of a batch is one.                         *)
LEMMA BatchLess ==
  \A a \in Nat, b \in Nat \ {0} :
    a % b = 0 /\ a >= b => (a - b) % b = 0
<1> SUFFICES ASSUME NEW a \in Nat, NEW b \in Nat \ {0}, a % b = 0, a >= b
             PROVE  (a - b) % b = 0
  OBVIOUS
<1> DEFINE q == a \div b
<1>1. a = b * q /\ q \in Nat
  BY DivMod
<1>2. q # 0
  BY <1>1
<1>3. q - 1 \in Nat
  BY <1>1, <1>2
<1>4. a - b = b * (q - 1)
  BY <1>1, <1>3
<1> QED
  BY <1>3, <1>4, MultipleMod

-----------------------------------------------------------------------------
(* The limits of one free list.                                            *)
Limits(c, l) ==
  /\ l.max_length \in 1 .. kMaxDynamicFreeListLength
  /\ l.max_length < num_objects_to_move[c]
       \/ l.max_length % num_objects_to_move[c] = 0
  /\ l.length_overages <= kMaxOverages
  /\ l.lowater <= l.length

ListOK(c, l) ==
  /\ l \in FreeLists
  /\ Limits(c, l)
  /\ l.length <= kMaxDynamicFreeListLength

ListsOK == \A t \in Threads, c \in Classes : ListOK(c, list[t][c])

(* ListLimits and the type of list in one.                                 *)
LEMMA ListsOKMeaning ==
  ASSUME list \in [Threads -> [Classes -> FreeLists]]
  PROVE  ListLimits <=> ListsOK
BY DEF ListLimits, ListsOK, ListOK, Limits

(* What the assumptions say of one class.                                  *)
LEMMA BatchTypes ==
  \A c \in Classes :
    /\ num_objects_to_move[c] \in Nat \ {0}
    /\ num_objects_to_move[c] <= kMaxDynamicFreeListLength
    /\ ByteSizeForClass[c] \in Nat
BY ThreadCacheAssumption DEF ThreadCacheAssumption

(* FreeList::Init gives a list within its limits.                          *)
LEMMA NewListOK == \A c \in Classes : ListOK(c, NewList)
BY BatchTypes, ThreadCacheAssumption
   DEF ThreadCacheAssumption, ListOK, Limits, NewList, FreeLists

(* PopRange keeps the low-water mark at or below the length.               *)
LEMMA PopOK ==
  ASSUME NEW c \in Classes, NEW l \in FreeLists, Limits(c, l),
         NEW n \in 0 .. l.length, l.length - n <= kMaxDynamicFreeListLength
  PROVE  ListOK(c, PopRange(l, n))
<1> DEFINE p == PopRange(l, n)
           length == l.length - n
           lowater == Least(l.lowater, length)
<1>1. length \in Nat /\ lowater \in Nat /\ lowater <= length
  BY DEF FreeLists, Least
<1>2. p = [l EXCEPT !.length = length, !.lowater = lowater]
  BY DEF PopRange
<1>3. length <= kMaxDynamicFreeListLength
  OBVIOUS
<1> HIDE DEF p, length, lowater
<1>4. /\ p \in FreeLists
      /\ p.max_length = l.max_length
      /\ p.length_overages = l.length_overages
      /\ p.length = length
      /\ p.lowater = lowater
  BY <1>1, <1>2 DEF FreeLists
<1>5. Limits(c, p)
  BY <1>1, <1>4 DEF Limits
<1> QED
  BY <1>3, <1>4, <1>5 DEF ListOK, p

(* Lengthened keeps max_length a multiple, or below a batch.               *)
LEMMA LengthenedOK ==
  ASSUME NEW c \in Classes, NEW l, ListOK(c, l)
  PROVE  ListOK(c, Lengthened(c, l))
<1> DEFINE b == num_objects_to_move[c]
           k == kMaxDynamicFreeListLength
           new_length == Least(l.max_length + b, k)
<1>1. b \in Nat \ {0} /\ b <= k /\ k \in Nat
  BY BatchTypes, ThreadCacheAssumption DEF ThreadCacheAssumption
<1>2. l \in FreeLists /\ Limits(c, l)
  BY DEF ListOK
<1>3. l.max_length \in Nat /\ l.max_length <= k
  BY <1>2 DEF FreeLists, Limits
<1>4. CASE l.max_length < b
  <2>1. l.max_length + 1 < b \/ l.max_length + 1 = b
    BY <1>1, <1>3, <1>4
  <2>2. b % b = 0
    BY <1>1
  <2>3. Lengthened(c, l) = [l EXCEPT !.max_length = l.max_length + 1]
    BY <1>4 DEF Lengthened
  <2> QED
    BY <1>1, <1>2, <1>3, <2>1, <2>2, <2>3 DEF ListOK, Limits, FreeLists
<1>5. CASE ~(l.max_length < b)
  <2>1. new_length \in Nat /\ new_length >= b /\ new_length <= k
    BY <1>1, <1>3, <1>5 DEF Least
  <2>2. /\ new_length - (new_length % b) \in 1 .. new_length
        /\ (new_length - (new_length % b)) % b = 0
    BY <1>1, <2>1, RoundDown
  <2>3. Lengthened(c, l) = [l EXCEPT !.max_length = new_length - (new_length % b)]
    BY <1>5 DEF Lengthened
  <2> HIDE DEF new_length, b
  <2> QED
    BY <1>1, <1>2, <2>1, <2>2, <2>3 DEF ListOK, Limits, FreeLists, b
<1> QED
  BY <1>4, <1>5

(* Overlong shrinks max_length by a batch only where it is above one.      *)
LEMMA OverlongOK ==
  ASSUME NEW c \in Classes, NEW l \in FreeLists, Limits(c, l)
  PROVE  /\ Overlong(c, l) \in FreeLists
         /\ Limits(c, Overlong(c, l))
         /\ Overlong(c, l).length = l.length
<1> DEFINE b == num_objects_to_move[c]
<1>1. b \in Nat \ {0} /\ b <= kMaxDynamicFreeListLength
      /\ kMaxDynamicFreeListLength \in Nat /\ kMaxOverages \in Nat
  BY BatchTypes, ThreadCacheAssumption DEF ThreadCacheAssumption
<1>2. l.max_length \in Nat
  BY DEF FreeLists
<1>3. CASE l.max_length < b
  <2>1. l.max_length + 1 < b \/ l.max_length + 1 = b
    BY <1>1, <1>2, <1>3
  <2>2. b % b = 0
    BY <1>1
  <2>3. Overlong(c, l) = [l EXCEPT !.max_length = l.max_length + 1]
    BY <1>3 DEF Overlong
  <2> QED
    BY <1>1, <1>2, <2>1, <2>2, <2>3 DEF Limits, FreeLists
<1>4. CASE l.max_length = b
  BY <1>1, <1>4 DEF Overlong
<1>5. CASE l.max_length > b /\ l.length_overages + 1 > kMaxOverages
  <2>1. l.max_length % b = 0
    BY <1>1, <1>2, <1>5 DEF Limits
  <2>2. (l.max_length - b) % b = 0
    BY <1>1, <1>2, <1>5, <2>1, BatchLess
  <2> DEFINE o == Overlong(c, l)
             m == l.max_length - b
  <2>3. o = [l EXCEPT !.max_length = m, !.length_overages = 0]
    BY <1>1, <1>2, <1>5 DEF Overlong
  <2>4. m \in Nat /\ m \in 1 .. kMaxDynamicFreeListLength /\ m % b = 0
    BY <1>1, <1>2, <1>5, <2>2 DEF Limits
  <2> HIDE DEF o, m
  <2>5. /\ o \in FreeLists
        /\ o.max_length = m
        /\ o.length_overages = 0
        /\ o.length = l.length
        /\ o.lowater = l.lowater
    BY <2>3, <2>4 DEF FreeLists
  <2>6. Limits(c, o)
    BY <1>1, <2>4, <2>5 DEF Limits
  <2> QED
    BY <2>5, <2>6 DEF o
<1>6. CASE l.max_length > b /\ ~(l.length_overages + 1 > kMaxOverages)
  <2>1. Overlong(c, l) = [l EXCEPT !.length_overages = l.length_overages + 1]
    BY <1>1, <1>2, <1>6 DEF Overlong
  <2> QED
    BY <1>1, <1>6, <2>1 DEF Limits, FreeLists
<1> QED
  BY <1>1, <1>2, <1>3, <1>4, <1>5, <1>6

-----------------------------------------------------------------------------
(* One list of one cache is replaced.                                      *)
LEMMA ListUpdate ==
  ASSUME list \in [Threads -> [Classes -> FreeLists]], ListsOK,
         NEW t \in Threads, NEW c \in Classes, NEW l, ListOK(c, l),
         list' = [list EXCEPT ![t][c] = l]
  PROVE  list' \in [Threads -> [Classes -> FreeLists]] /\ ListsOK'
<1>1. l \in FreeLists
  BY DEF ListOK
<1>2. list' \in [Threads -> [Classes -> FreeLists]]
  BY <1>1
<1>3. ASSUME NEW u \in Threads, NEW d \in Classes
      PROVE  ListOK(d, list'[u][d])
  <2>1. CASE u = t /\ d = c
    BY <2>1
  <2>2. CASE ~(u = t /\ d = c)
    <3>1. list'[u][d] = list[u][d]
      BY <2>2
    <3> QED
      BY <3>1 DEF ListsOK
  <2> QED
    BY <2>1, <2>2
<1> QED
  BY <1>2, <1>3 DEF ListsOK, ListOK, Limits

(* All lists of one cache are replaced by empty ones.                      *)
LEMMA ListsNew ==
  ASSUME list \in [Threads -> [Classes -> FreeLists]], ListsOK,
         NEW t \in Threads,
         list' = [list EXCEPT ![t] = [c \in Classes |-> NewList]]
  PROVE  list' \in [Threads -> [Classes -> FreeLists]] /\ ListsOK'
<1>1. NewList \in FreeLists
  BY DEF NewList, FreeLists
<1>2. list' \in [Threads -> [Classes -> FreeLists]]
  BY <1>1
<1>3. ASSUME NEW u \in Threads, NEW d \in Classes
      PROVE  ListOK(d, list'[u][d])
  <2>1. CASE u = t
    BY <2>1, NewListOK
  <2>2. CASE u # t
    BY <2>2 DEF ListsOK
  <2> QED
    BY <2>1, <2>2
<1> QED
  BY <1>2, <1>3 DEF ListsOK, ListOK, Limits

(* Whatever n, ReleaseToCentralCache leaves a good list if it leaves no    *)
(* more than a list may have.                                              *)
LEMMA ReleaseOK ==
  ASSUME list \in [Threads -> [Classes -> FreeLists]], ListsOK,
         NEW t \in Threads, NEW c \in Classes, NEW l \in FreeLists,
         Limits(c, l), NEW bytes, NEW n \in Nat,
         l.length <= kMaxDynamicFreeListLength
           \/ (n >= 1 /\ l.length - 1 <= kMaxDynamicFreeListLength),
         ReleaseToCentralCache(t, c, l, bytes, n)
  PROVE  list' \in [Threads -> [Classes -> FreeLists]] /\ ListsOK'
<1> DEFINE moved == Least(n, l.length)
<1>1. list' = [list EXCEPT ![t][c] = PopRange(l, moved)]
  BY DEF ReleaseToCentralCache
<1>2. l.length \in Nat /\ kMaxDynamicFreeListLength \in Nat
  BY ThreadCacheAssumption DEF ThreadCacheAssumption, FreeLists
<1>3. moved \in 0 .. l.length /\ l.length - moved <= kMaxDynamicFreeListLength
  BY <1>2 DEF Least
<1> HIDE DEF moved
<1>4. ListOK(c, PopRange(l, moved))
  BY <1>3, PopOK
<1> QED
  BY <1>1, <1>4, ListUpdate

-----------------------------------------------------------------------------
(* Allocate, whether it pops an object or fetches a batch.                 *)
LEMMA AllocateLists ==
  ASSUME TypeOK, ListsOK, NEW t \in Threads, NEW c \in Classes, Allocate(t, c)
  PROVE  list' \in [Threads -> [Classes -> FreeLists]] /\ ListsOK'
<1> DEFINE l == list[t][c]
           b == num_objects_to_move[c]
<1>1. list \in [Threads -> [Classes -> FreeLists]] /\ central \in [Classes -> Int]
  BY DEF TypeOK, CacheTypes
<1>2. l \in FreeLists /\ Limits(c, l) /\ l.length <= kMaxDynamicFreeListLength
  BY DEF ListsOK, ListOK
<1>3. l.length \in Nat /\ l.max_length \in Nat /\ l.lowater \in Nat
      /\ kMaxDynamicFreeListLength \in Nat
  BY <1>2, ThreadCacheAssumption DEF ThreadCacheAssumption, FreeLists
<1>4. CASE l.length > 0 /\ list' = [list EXCEPT ![t][c] = PopRange(l, 1)]
  <2>1. 1 \in 0 .. l.length /\ l.length - 1 <= kMaxDynamicFreeListLength
    BY <1>2, <1>3, <1>4
  <2>2. ListOK(c, PopRange(l, 1))
    BY <1>2, <2>1, PopOK
  <2> QED
    BY <1>1, <1>4, <2>2, ListUpdate
<1>5. ASSUME l.length = 0, NEW n \in 1 .. Least(central[c], Least(l.max_length, b)),
             list' = [list EXCEPT ![t][c] = Fetched(c, l, n)]
      PROVE  list' \in [Threads -> [Classes -> FreeLists]] /\ ListsOK'
  <2> DEFINE p == PushRange(l, n - 1)
  <2>1. n \in Nat /\ n >= 1 /\ n <= l.max_length
    <3>1. b \in Nat /\ central[c] \in Int
      BY <1>1, BatchTypes
    <3> QED
      BY <1>3, <1>5, <3>1 DEF Least
  <2>2. p = [l EXCEPT !.length = n - 1]
    BY <1>3, <1>5, <2>1 DEF PushRange
  <2>3. n - 1 \in Nat /\ n - 1 <= kMaxDynamicFreeListLength /\ l.lowater <= n - 1
    BY <1>2, <1>3, <1>5, <2>1 DEF Limits
  <2>4. ListOK(c, p)
    BY <1>2, <2>2, <2>3 DEF ListOK, Limits, FreeLists
  <2>5. ListOK(c, Fetched(c, l, n))
    BY <2>4, LengthenedOK DEF Fetched
  <2> QED
    BY <1>1, <1>5, <2>5, ListUpdate
<1> QED
  BY <1>4, <1>5 DEF Allocate

(* Deallocate: a list that is too long gives a batch away.                 *)
LEMMA DeallocateLists ==
  ASSUME TypeOK, ListsOK, NEW t \in Threads, NEW c \in Classes, Deallocate(t, c)
  PROVE  list' \in [Threads -> [Classes -> FreeLists]] /\ ListsOK'
<1> DEFINE old == list[t][c]
           l == PushRange(old, 1)
           bytes == size[t] + ByteSizeForClass[c]
           b == num_objects_to_move[c]
<1>1. list \in [Threads -> [Classes -> FreeLists]]
  BY DEF TypeOK, CacheTypes
<1>2. old \in FreeLists /\ Limits(c, old) /\ old.length <= kMaxDynamicFreeListLength
  BY DEF ListsOK, ListOK
<1>3. old.length \in Nat /\ kMaxDynamicFreeListLength \in Nat
  BY <1>2, ThreadCacheAssumption DEF ThreadCacheAssumption, FreeLists
<1>4. l = [old EXCEPT !.length = old.length + 1]
  BY DEF PushRange
<1>5. l \in FreeLists /\ Limits(c, l) /\ l.length = old.length + 1
  BY <1>2, <1>3, <1>4 DEF Limits, FreeLists
<1>6. CASE l.length > l.max_length
  <2>1. ReleaseToCentralCache(t, c, Overlong(c, l), bytes, b)
    BY <1>6 DEF Deallocate
  <2>2. /\ Overlong(c, l) \in FreeLists
        /\ Limits(c, Overlong(c, l))
        /\ Overlong(c, l).length = old.length + 1
    BY <1>5, OverlongOK
  <2>3. b \in Nat /\ b >= 1 /\ (old.length + 1) - 1 <= kMaxDynamicFreeListLength
    BY <1>2, <1>3, BatchTypes
  <2> HIDE DEF l, old, b, bytes
  <2> QED
    BY <1>1, <2>1, <2>2, <2>3, ReleaseOK
<1>7. CASE ~(l.length > l.max_length)
  <2>1. list' = [list EXCEPT ![t][c] = l]
    BY <1>7 DEF Deallocate
  <2>2. l.length <= kMaxDynamicFreeListLength
    BY <1>3, <1>5, <1>7 DEF Limits, FreeLists
  <2>3. ListOK(c, l)
    BY <1>5, <2>2 DEF ListOK
  <2> QED
    BY <1>1, <2>1, <2>3, ListUpdate
<1> QED
  BY <1>6, <1>7

(* A round of Scavenge.                                                    *)
LEMMA ScavengeLists ==
  ASSUME TypeOK, ListsOK, NEW t \in Threads, Scavenge(t)
  PROVE  list' \in [Threads -> [Classes -> FreeLists]] /\ ListsOK'
<1>0. PICK c \in Classes : c = cl[t]
  BY DEF TypeOK, Scavenge
<1> DEFINE l == list[t][c]
           b == num_objects_to_move[c]
           cleared == [l EXCEPT !.lowater = l.length]
           shrunk == [cleared EXCEPT !.max_length = Most(@ - b, b)]
           n == Most(l.lowater \div 2, 1)
           bytes == size[t]
<1>1. list \in [Threads -> [Classes -> FreeLists]]
  BY DEF TypeOK, CacheTypes
<1>2. l \in FreeLists /\ Limits(c, l) /\ l.length <= kMaxDynamicFreeListLength
  BY <1>1 DEF ListsOK, ListOK
<1>3. /\ cleared \in FreeLists
      /\ Limits(c, cleared)
      /\ cleared.length = l.length
      /\ cleared.max_length = l.max_length
  BY <1>2 DEF Limits, FreeLists
<1>4. CASE l.lowater = 0
  <2>1. list' = [list EXCEPT ![t][c] = cleared]
    BY <1>0, <1>4 DEF Scavenge
  <2>2. ListOK(c, cleared)
    BY <1>2, <1>3 DEF ListOK
  <2> QED
    BY <1>1, <2>1, <2>2, ListUpdate
<1>5. CASE l.lowater # 0
  <2>1. n \in Nat
    BY <1>2, DivMod DEF Most, FreeLists
  <2>2. CASE l.max_length > b
    <3>1. ReleaseToCentralCache(t, c, shrunk, bytes, n)
      BY <1>0, <1>5, <2>2 DEF Scavenge
    <3> DEFINE m == Most(l.max_length - b, b)
    <3>2. b \in Nat \ {0} /\ l.max_length \in Nat
      BY <1>1, <1>2, BatchTypes DEF FreeLists
    <3>3. l.max_length % b = 0 /\ b % b = 0
      BY <1>2, <2>2, <3>2 DEF Limits
    <3>4. (l.max_length - b) % b = 0
      BY <2>2, <3>2, <3>3, BatchLess
    <3>5. m \in Nat /\ m \in 1 .. kMaxDynamicFreeListLength /\ m % b = 0
      <4>1. m = l.max_length - b \/ m = b
        BY DEF Most
      <4>2. m >= b /\ m <= l.max_length /\ m \in Nat
        BY <2>2, <3>2 DEF Most
      <4>3. m % b = 0
        BY <3>3, <3>4, <4>1
      <4>4. l.max_length \in 1 .. kMaxDynamicFreeListLength
        BY <1>2 DEF Limits
      <4>5. kMaxDynamicFreeListLength \in Nat
        BY ThreadCacheAssumption DEF ThreadCacheAssumption
      <4> HIDE DEF m, l, b
      <4> QED
        BY <3>2, <4>2, <4>3, <4>4, <4>5
    <3>6. shrunk = [cleared EXCEPT !.max_length = m]
      BY <1>3
    <3> HIDE DEF m, cleared
    <3>7. /\ shrunk \in FreeLists
          /\ shrunk.length = cleared.length
          /\ shrunk.lowater = cleared.lowater
          /\ shrunk.length_overages = cleared.length_overages
          /\ shrunk.max_length = m
      BY <1>3, <3>5, <3>6 DEF FreeLists
    <3> HIDE DEF shrunk
    <3>8. Limits(c, shrunk)
      BY <1>3, <3>5, <3>7 DEF Limits
    <3>9. shrunk.length <= kMaxDynamicFreeListLength
      BY <1>2, <1>3, <3>7
    <3> HIDE DEF n, bytes
    <3> QED
      BY <1>1, <2>1, <3>1, <3>7, <3>8, <3>9, ReleaseOK
  <2>3. CASE ~(l.max_length > b)
    <3>1. ReleaseToCentralCache(t, c, cleared, bytes, n)
      BY <1>0, <1>5, <2>3 DEF Scavenge
    <3>2. cleared.length <= kMaxDynamicFreeListLength
      BY <1>2, <1>3
    <3> HIDE DEF n, cleared, bytes
    <3> QED
      BY <1>1, <1>3, <2>1, <3>1, <3>2, ReleaseOK
  <2> QED
    BY <2>2, <2>3
<1> QED
  BY <1>4, <1>5

(* A round of the destructor.                                              *)
LEMMA DestroyLists ==
  ASSUME TypeOK, ListsOK, NEW t \in Threads, Destroy(t)
  PROVE  list' \in [Threads -> [Classes -> FreeLists]] /\ ListsOK'
<1>0. PICK c \in Classes : c = cl[t]
  BY DEF TypeOK, Destroy
<1> DEFINE l == list[t][c]
           bytes == size[t]
           n == l.length
<1>1. list \in [Threads -> [Classes -> FreeLists]]
  BY DEF TypeOK, CacheTypes
<1>2. l \in FreeLists /\ Limits(c, l) /\ l.length <= kMaxDynamicFreeListLength
  BY <1>1 DEF ListsOK, ListOK
<1>3. n \in Nat
  BY <1>2 DEF FreeLists
<1>4. ReleaseToCentralCache(t, c, l, bytes, n)
  BY <1>0 DEF Destroy
<1> HIDE DEF l, bytes, n
<1> QED
  BY <1>1, <1>2, <1>3, <1>4, ReleaseOK

(* Every step keeps the lists within their limits.                         *)
LEMMA ListStep ==
  ASSUME TypeOK, ListLimits, [Next]_vars
  PROVE  list' \in [Threads -> [Classes -> FreeLists]] /\ ListLimits'
<1>1. list \in [Threads -> [Classes -> FreeLists]]
  BY DEF TypeOK, CacheTypes
<1>2. ListsOK
  BY <1>1, ListsOKMeaning
<1> SUFFICES list' \in [Threads -> [Classes -> FreeLists]] /\ ListsOK'
  BY DEF ListLimits, ListsOK, ListOK, Limits
<1>3. CASE UNCHANGED list
  BY <1>1, <1>2, <1>3 DEF ListsOK, ListOK, Limits
<1>4. ASSUME NEW t \in Threads,
             \/ \E c \in Classes : Allocate(t, c) \/ Deallocate(t, c)
             \/ Scavenge(t) \/ LinkHeap(t) \/ Destroy(t) \/ UnlinkHeap(t)
      PROVE  list' \in [Threads -> [Classes -> FreeLists]] /\ ListsOK'
  <2>1. CASE \E c \in Classes : Allocate(t, c)
    BY <1>2, <2>1, AllocateLists
  <2>2. CASE \E c \in Classes : Deallocate(t, c)
    BY <1>2, <2>2, DeallocateLists
  <2>3. CASE Scavenge(t)
    BY <1>2, <2>3, ScavengeLists
  <2>4. CASE LinkHeap(t)
    BY <1>1, <1>2, <2>4, ListsNew DEF LinkHeap
  <2>5. CASE Destroy(t)
    BY <1>2, <2>5, DestroyLists
  <2>6. CASE UnlinkHeap(t)
    BY <1>1, <1>2, <2>6, ListsNew DEF UnlinkHeap
  <2> QED
    BY <1>4, <2>1, <2>2, <2>3, <2>4, <2>5, <2>6
<1>5. CASE UNCHANGED vars
  BY <1>3, <1>5 DEF vars, cacheVars
<1>6. ASSUME NEW t \in Threads,
             \/ IncreaseCacheLimit(t) \/ StealForOld(t) \/ Unlock(t)
             \/ NewHeap(t) \/ StealForNew(t) \/ DeleteCache(t)
      PROVE  UNCHANGED list
  BY <1>6 DEF IncreaseCacheLimit, StealForOld, Unlock, NewHeap, StealForNew,
              DeleteCache, cacheVars
<1>7. ASSUME \/ \E bytes \in Overalls : set_overall_thread_cache_size(bytes)
             \/ RecomputePerThreadCacheSize
             \/ \E bytes \in Mins : set_min_per_thread_cache_size(bytes)
      PROVE  UNCHANGED list
  BY <1>7 DEF set_overall_thread_cache_size, RecomputePerThreadCacheSize,
              set_min_per_thread_cache_size, cacheVars
<1> QED
  BY <1>3, <1>4, <1>5, <1>6, <1>7 DEF Next

-----------------------------------------------------------------------------
(* Bytes and objects are counted in integers.                              *)
LEMMA ReleaseCounts ==
  ASSUME CacheTypes, NEW t \in Threads, NEW c \in Classes, NEW l \in FreeLists,
         NEW bytes \in Int, NEW n \in Nat,
         ReleaseToCentralCache(t, c, l, bytes, n)
  PROVE  size' \in [Threads -> Int] /\ central' \in [Classes -> Int]
<1> DEFINE moved == Least(n, l.length)
           weight == moved * ByteSizeForClass[c]
<1>1. moved \in Nat
  BY DEF Least, FreeLists
<1>2. weight \in Nat
  BY <1>1, ProductNat, BatchTypes
<1>3. /\ size' = [size EXCEPT ![t] = bytes - weight]
      /\ central' = [central EXCEPT ![c] = @ + moved]
  BY DEF ReleaseToCentralCache
<1> HIDE DEF moved, weight
<1> QED
  BY <1>1, <1>2, <1>3 DEF CacheTypes

(* The byte and object counters keep their types.                          *)
LEMMA CountStep ==
  ASSUME TypeOK, [Next]_vars
  PROVE  /\ size' \in [Threads -> Int]
         /\ central' \in [Classes -> Int]
         /\ application' \in [Classes -> Nat]
<1>1. CacheTypes
  BY DEF TypeOK
<1>2. ASSUME UNCHANGED cacheVars
      PROVE  /\ size' \in [Threads -> Int]
             /\ central' \in [Classes -> Int]
             /\ application' \in [Classes -> Nat]
  BY <1>1, <1>2 DEF CacheTypes, cacheVars
<1>3. ASSUME NEW t \in Threads, NEW c \in Classes, Allocate(t, c)
      PROVE  /\ size' \in [Threads -> Int]
             /\ central' \in [Classes -> Int]
             /\ application' \in [Classes -> Nat]
  <2>1. application' = [application EXCEPT ![c] = @ + 1]
    BY <1>3 DEF Allocate
  <2>2. ByteSizeForClass[c] \in Nat
    BY BatchTypes
  <2>3. CASE /\ size' = [size EXCEPT ![t] = @ - ByteSizeForClass[c]]
             /\ UNCHANGED central
    BY <1>1, <2>1, <2>2, <2>3 DEF CacheTypes
  <2>4. ASSUME NEW n \in 1 .. Least(central[c],
                                Least(list[t][c].max_length, num_objects_to_move[c])),
               size' = [size EXCEPT ![t] = @ + ByteSizeForClass[c] * (n - 1)],
               central' = [central EXCEPT ![c] = @ - n]
        PROVE  /\ size' \in [Threads -> Int]
               /\ central' \in [Classes -> Int]
               /\ application' \in [Classes -> Nat]
    <3>1. n - 1 \in Nat
      OBVIOUS
    <3>2. ByteSizeForClass[c] * (n - 1) \in Nat
      BY <2>2, <3>1, ProductNat
    <3> QED
      BY <1>1, <2>1, <2>4, <3>2 DEF CacheTypes
  <2> QED
    BY <1>3, <2>3, <2>4 DEF Allocate
<1>4. ASSUME NEW t \in Threads, NEW c \in Classes, Deallocate(t, c)
      PROVE  /\ size' \in [Threads -> Int]
             /\ central' \in [Classes -> Int]
             /\ application' \in [Classes -> Nat]
  <2> DEFINE l == PushRange(list[t][c], 1)
             bytes == size[t] + ByteSizeForClass[c]
             n == num_objects_to_move[c]
             o == Overlong(c, l)
  <2>1. bytes \in Int /\ n \in Nat
    BY <1>1, BatchTypes DEF CacheTypes
  <2>2. application' \in [Classes -> Nat]
    BY <1>1, <1>4 DEF CacheTypes, Deallocate
  <2>3. CASE ~(l.length > l.max_length)
    <3>1. size' = [size EXCEPT ![t] = bytes] /\ UNCHANGED central
      BY <1>4, <2>3 DEF Deallocate
    <3> HIDE DEF bytes
    <3> QED
      BY <1>1, <2>1, <2>2, <3>1 DEF CacheTypes
  <2>4. CASE l.length > l.max_length
    <3>1. ReleaseToCentralCache(t, c, o, bytes, n)
      BY <1>4, <2>4 DEF Deallocate
    <3>2. /\ size' = [size EXCEPT ![t] = bytes - Least(n, o.length) * ByteSizeForClass[c]]
          /\ central' = [central EXCEPT ![c] = @ + Least(n, o.length)]
      BY <3>1 DEF ReleaseToCentralCache
    <3>3. o.length = list[t][c].length + 1
      BY <1>1 DEF Overlong, PushRange, CacheTypes, FreeLists
    <3>4. Least(n, o.length) \in Nat
      BY <1>1, <2>1, <3>3 DEF Least, CacheTypes, FreeLists
    <3>5. Least(n, o.length) * ByteSizeForClass[c] \in Nat
      BY <3>4, BatchTypes, ProductNat
    <3> HIDE DEF bytes, n, o
    <3> QED
      BY <1>1, <2>1, <2>2, <3>2, <3>4, <3>5 DEF CacheTypes
  <2> QED
    BY <2>3, <2>4
<1>5. ASSUME NEW t \in Threads, Scavenge(t)
      PROVE  /\ size' \in [Threads -> Int]
             /\ central' \in [Classes -> Int]
             /\ application' \in [Classes -> Nat]
  <2>1. PICK c \in Classes : c = cl[t]
    BY <1>5 DEF TypeOK, Scavenge
  <2> DEFINE l == list[t][c]
             b == num_objects_to_move[c]
             cleared == [l EXCEPT !.lowater = l.length]
             shrunk == IF l.max_length > b
                       THEN [cleared EXCEPT !.max_length = Most(@ - b, b)]
                       ELSE cleared
             bytes == size[t]
             n == Most(l.lowater \div 2, 1)
  <2>2. l \in FreeLists /\ bytes \in Int /\ b \in Nat
    BY <1>1, BatchTypes DEF CacheTypes
  <2>3. n \in Nat /\ cleared \in FreeLists
    BY <2>2, DivMod DEF Most, FreeLists
  <2>4. shrunk \in FreeLists
    <3> DEFINE m == Most(cleared.max_length - b, b)
    <3>1. m \in Nat
      BY <2>2, <2>3 DEF FreeLists, Most
    <3>2. shrunk = IF l.max_length > b THEN [cleared EXCEPT !.max_length = m] ELSE cleared
      OBVIOUS
    <3> HIDE DEF m, cleared
    <3> QED
      BY <2>3, <3>1, <3>2 DEF FreeLists
  <2>5. CASE l.lowater = 0
    BY <1>1, <1>5, <2>1, <2>5 DEF Scavenge, CacheTypes
  <2>6. CASE l.lowater # 0
    <3>1. ReleaseToCentralCache(t, c, shrunk, bytes, n) /\ UNCHANGED application
      BY <1>5, <2>1, <2>6 DEF Scavenge
    <3> HIDE DEF shrunk, bytes, n
    <3> QED
      BY <1>1, <2>2, <2>3, <2>4, <3>1, ReleaseCounts DEF CacheTypes
  <2> QED
    BY <2>5, <2>6
<1>6. ASSUME NEW t \in Threads, Destroy(t)
      PROVE  /\ size' \in [Threads -> Int]
             /\ central' \in [Classes -> Int]
             /\ application' \in [Classes -> Nat]
  <2>1. PICK c \in Classes : c = cl[t]
    BY <1>6 DEF TypeOK, Destroy
  <2> DEFINE l == list[t][c]
             bytes == size[t]
             n == l.length
  <2>2. l \in FreeLists /\ bytes \in Int /\ n \in Nat
    BY <1>1 DEF CacheTypes, FreeLists
  <2>3. ReleaseToCentralCache(t, c, l, bytes, n) /\ UNCHANGED application
    BY <1>6, <2>1 DEF Destroy
  <2> HIDE DEF l, bytes, n
  <2> QED
    BY <1>1, <2>2, <2>3, ReleaseCounts DEF CacheTypes
<1>7. ASSUME NEW t \in Threads, LinkHeap(t) \/ UnlinkHeap(t)
      PROVE  /\ size' \in [Threads -> Int]
             /\ central' \in [Classes -> Int]
             /\ application' \in [Classes -> Nat]
  <2>1. size' = [size EXCEPT ![t] = 0] /\ UNCHANGED <<central, application>>
    BY <1>7 DEF LinkHeap, UnlinkHeap
  <2> QED
    BY <1>1, <2>1 DEF CacheTypes
<1>8. ASSUME NEW t \in Threads,
             \/ IncreaseCacheLimit(t) \/ StealForOld(t) \/ Unlock(t)
             \/ NewHeap(t) \/ StealForNew(t) \/ DeleteCache(t)
      PROVE  UNCHANGED cacheVars
  BY <1>8 DEF IncreaseCacheLimit, StealForOld, Unlock, NewHeap, StealForNew,
              DeleteCache
<1>9. ASSUME \/ \E bytes \in Overalls : set_overall_thread_cache_size(bytes)
             \/ RecomputePerThreadCacheSize
             \/ \E bytes \in Mins : set_min_per_thread_cache_size(bytes)
      PROVE  UNCHANGED cacheVars
  BY <1>9 DEF set_overall_thread_cache_size, RecomputePerThreadCacheSize,
              set_min_per_thread_cache_size
<1>10. ASSUME UNCHANGED vars PROVE UNCHANGED cacheVars
  BY <1>10 DEF vars
<1> QED
  BY <1>2, <1>3, <1>4, <1>5, <1>6, <1>7, <1>8, <1>9, <1>10 DEF Next

-----------------------------------------------------------------------------
(* Where a thread is, and that the lock is its own where it needs it.      *)
Control ==
  /\ pc \in [Threads -> Labels]
  /\ cl \in [Threads -> 0 .. NumClasses]
  /\ LockHeld
  /\ \A t \in Threads : pc[t] \in {"scavenge", "destroy"} => cl[t] \in Classes

(* One thread goes to another label; it takes the lock, drops it, or       *)
(* neither, as the labels demand.                                          *)
LEMMA ControlGoto ==
  ASSUME Control, NEW t \in Threads, NEW label \in Labels, NEW k \in 0 .. NumClasses,
         pc' = [pc EXCEPT ![t] = label], cl' = [cl EXCEPT ![t] = k],
         label \in {"scavenge", "destroy"} => k \in Classes,
         \/ /\ UNCHANGED pageheap_lock
            /\ pc[t] \in {"steal_new", "link", "steal", "unlock"}
                 <=> label \in {"steal_new", "link", "steal", "unlock"}
         \/ /\ pageheap_lock = NoThread
            /\ pageheap_lock' = t
            /\ label \in {"steal_new", "link", "steal", "unlock"}
         \/ /\ pageheap_lock = t
            /\ pageheap_lock' = NoThread
            /\ label \notin {"steal_new", "link", "steal", "unlock"}
  PROVE  Control'
<1>1. NoThread \notin Threads
  BY ThreadCacheAssumption DEF ThreadCacheAssumption
<1>2. /\ pc' \in [Threads -> Labels]
      /\ cl' \in [Threads -> 0 .. NumClasses]
      /\ \A u \in Threads : pc'[u] = IF u = t THEN label ELSE pc[u]
      /\ \A u \in Threads : cl'[u] = IF u = t THEN k ELSE cl[u]
  BY DEF Control
<1>3. LockHeld'
  BY <1>1, <1>2 DEF Control, LockHeld
<1> QED
  BY <1>2, <1>3 DEF Control

(* Every step takes and drops the lock where its label says.               *)
LEMMA ControlStep ==
  ASSUME TypeOK, [Next]_vars
  PROVE  Control'
<1>1. Control
  BY DEF Control, TypeOK, CacheTypes
<1>2. NumClasses \in Nat \ {0} /\ NoThread \notin Threads /\ Setter \notin Threads
      /\ Setter # NoThread
  BY ThreadCacheAssumption DEF ThreadCacheAssumption
<1>3. ASSUME UNCHANGED <<pc, cl, pageheap_lock>> PROVE Control'
  BY <1>1, <1>3 DEF Control, LockHeld
<1>4. ASSUME NEW t \in Threads PROVE cl' = cl => cl' = [cl EXCEPT ![t] = cl[t]]
  BY <1>1 DEF Control
<1>5. ASSUME NEW t \in Threads, NEW c \in Classes, Deallocate(t, c)
      PROVE  Control'
  <2>1. UNCHANGED pageheap_lock /\ pc[t] = "idle"
    BY <1>5 DEF Deallocate
  <2>2. CASE UNCHANGED <<pc, cl>>
    BY <1>3, <2>1, <2>2
  <2>3. CASE pc' = [pc EXCEPT ![t] = "scavenge"] /\ cl' = [cl EXCEPT ![t] = 1]
    <3>1. 1 \in Classes /\ 1 \in 0 .. NumClasses /\ "scavenge" \in Labels
      BY <1>2 DEF Classes, Labels
    <3> QED
      BY <1>1, <2>1, <2>3, <3>1, ControlGoto
  <2> QED
    BY <1>5, <2>2, <2>3 DEF Deallocate, Goto
<1>6. ASSUME NEW t \in Threads, NEW label \in {"increase", "unlink"},
             pc[t] \in {"scavenge", "destroy"},
             NextClass(t, label), UNCHANGED pageheap_lock
      PROVE  Control'
  <2>1. cl[t] \in Classes
    BY <1>1, <1>6 DEF Control
  <2>2. CASE cl[t] = NumClasses
    <3>1. pc' = [pc EXCEPT ![t] = label] /\ cl' = [cl EXCEPT ![t] = 0]
      BY <1>6, <2>2 DEF NextClass, Goto
    <3>2. 0 \in 0 .. NumClasses /\ label \in Labels
      BY <1>2 DEF Labels
    <3> QED
      BY <1>1, <1>6, <3>1, <3>2, ControlGoto
  <2>3. CASE cl[t] # NumClasses
    <3> DEFINE k == cl[t] + 1
    <3>1. cl' = [cl EXCEPT ![t] = k] /\ pc' = [pc EXCEPT ![t] = pc[t]]
      BY <1>1, <1>6, <2>3 DEF NextClass, Control
    <3>2. k \in Classes /\ k \in 0 .. NumClasses /\ pc[t] \in Labels
      BY <1>1, <1>2, <2>1, <2>3 DEF Classes, Control
    <3> HIDE DEF k
    <3> QED
      BY <1>1, <1>6, <3>1, <3>2, ControlGoto
  <2> QED
    BY <2>2, <2>3
<1>7. ASSUME NEW t \in Threads, Scavenge(t) PROVE Control'
  BY <1>6, <1>7 DEF Scavenge
<1>8. ASSUME NEW t \in Threads, Destroy(t) PROVE Control'
  BY <1>6, <1>8 DEF Destroy
<1>9. ASSUME NEW t \in Threads, IncreaseCacheLimit(t) \/ NewHeap(t) PROVE Control'
  <2>1. /\ pageheap_lock = NoThread /\ pageheap_lock' = t /\ cl' = cl
        /\ pc[t] \in {"increase", "none"}
        /\ \E label \in {"unlock", "steal", "link", "steal_new"} :
             pc' = [pc EXCEPT ![t] = label]
    BY <1>9 DEF IncreaseCacheLimit, NewHeap, IncreaseCacheLimitLocked, Take, Goto
  <2>2. PICK label \in {"unlock", "steal", "link", "steal_new"} :
             pc' = [pc EXCEPT ![t] = label]
    BY <2>1
  <2>3. label \in Labels /\ cl[t] \in 0 .. NumClasses
    BY <1>1 DEF Labels, Control
  <2> QED
    BY <1>1, <1>4, <2>1, <2>2, <2>3, ControlGoto
<1>10. ASSUME NEW t \in Threads, StealForOld(t) \/ StealForNew(t) PROVE Control'
  <2>1. /\ UNCHANGED <<pageheap_lock, cl>>
        /\ pc[t] \in {"steal", "steal_new"}
        /\ \/ UNCHANGED pc
           \/ \E label \in {"unlock", "link"} : pc' = [pc EXCEPT ![t] = label]
    BY <1>10 DEF StealForOld, StealForNew, Steal, Goto
  <2>2. CASE UNCHANGED pc
    BY <1>3, <2>1, <2>2
  <2>3. ASSUME NEW label \in {"unlock", "link"}, pc' = [pc EXCEPT ![t] = label]
        PROVE  Control'
    <3>1. label \in Labels /\ cl[t] \in 0 .. NumClasses
      BY <1>1 DEF Labels, Control
    <3> QED
      BY <1>1, <1>4, <2>1, <2>3, <3>1, ControlGoto
  <2> QED
    BY <2>1, <2>2, <2>3
<1>11. ASSUME NEW t \in Threads, Unlock(t) \/ LinkHeap(t) PROVE Control'
  <2>1. /\ pageheap_lock' = NoThread /\ cl' = cl
        /\ pc[t] \in {"unlock", "link"}
        /\ pc' = [pc EXCEPT ![t] = "idle"]
    BY <1>11 DEF Unlock, LinkHeap, Drop, Goto
  <2>2. pageheap_lock = t
    BY <1>1, <2>1 DEF Control, LockHeld
  <2>3. "idle" \in Labels /\ cl[t] \in 0 .. NumClasses
    BY <1>1 DEF Labels, Control
  <2> QED
    BY <1>1, <1>4, <2>1, <2>2, <2>3, ControlGoto
<1>12. ASSUME NEW t \in Threads, DeleteCache(t) PROVE Control'
  <2>1. /\ UNCHANGED pageheap_lock /\ pc[t] = "idle"
        /\ pc' = [pc EXCEPT ![t] = "destroy"] /\ cl' = [cl EXCEPT ![t] = 1]
    BY <1>12 DEF DeleteCache, Goto
  <2>2. "destroy" \in Labels /\ 1 \in 0 .. NumClasses /\ 1 \in Classes
    BY <1>2 DEF Labels, Classes
  <2> QED
    BY <1>1, <2>1, <2>2, ControlGoto
<1>13. ASSUME NEW t \in Threads, UnlinkHeap(t) PROVE Control'
  <2>1. /\ UNCHANGED <<pageheap_lock, cl>> /\ pc[t] = "unlink"
        /\ pc' = [pc EXCEPT ![t] = "none"]
    BY <1>13 DEF UnlinkHeap, Goto
  <2>2. "none" \in Labels /\ cl[t] \in 0 .. NumClasses
    BY <1>1 DEF Labels, Control
  <2> QED
    BY <1>1, <1>4, <2>1, <2>2, ControlGoto
<1>14. ASSUME \/ \E bytes \in Overalls : set_overall_thread_cache_size(bytes)
              \/ RecomputePerThreadCacheSize
       PROVE  Control'
  <2>1. /\ UNCHANGED <<pc, cl>>
        /\ \/ pageheap_lock = NoThread /\ pageheap_lock' = Setter
           \/ pageheap_lock = Setter /\ pageheap_lock' = NoThread
    BY <1>14 DEF set_overall_thread_cache_size, RecomputePerThreadCacheSize, Take, Drop
  <2> QED
    BY <1>1, <1>2, <2>1 DEF Control, LockHeld
<1>15. ASSUME NEW t \in Threads, NEW c \in Classes, Allocate(t, c) PROVE Control'
  BY <1>3, <1>15 DEF Allocate
<1>16. ASSUME \E bytes \in Mins : set_min_per_thread_cache_size(bytes) PROVE Control'
  BY <1>3, <1>16 DEF set_min_per_thread_cache_size
<1>17. ASSUME UNCHANGED vars PROVE Control'
  BY <1>3, <1>17 DEF vars
<1> QED
  BY <1>5, <1>7, <1>8, <1>9, <1>10, <1>11, <1>12, <1>13, <1>14, <1>15, <1>16, <1>17
     DEF Next

-----------------------------------------------------------------------------
(* The budget.                                                             *)
LEMMA BudgetSame ==
  ASSUME BudgetTypes, BudgetNotNegative,
         UNCHANGED <<max_size, limitVars>>,
         min_per_thread_cache_size' \in Mins, tries' \in 0 .. kMaxTries
  PROVE  BudgetTypes' /\ BudgetNotNegative'
BY DEF BudgetTypes, BudgetNotNegative, limitVars

(* A max_size_ changes, to one that is not negative unless a minimum may   *)
(* be less than what is stolen.                                            *)
LEMMA BudgetSet ==
  ASSUME BudgetTypes, BudgetNotNegative,
         NEW t \in Threads, NEW bytes \in Int,
         max_size' = [max_size EXCEPT ![t] = bytes],
         max_size[t] >= 0 => bytes >= 0,
         UNCHANGED <<limitVars, min_per_thread_cache_size>>, tries' \in 0 .. kMaxTries
  PROVE  BudgetTypes' /\ BudgetNotNegative'
<1>1. /\ max_size' \in [Threads -> Int]
      /\ \A u \in Threads : max_size'[u] = IF u = t THEN bytes ELSE max_size[u]
  BY DEF BudgetTypes
<1> QED
  BY <1>1 DEF BudgetTypes, BudgetNotNegative, limitVars

(* A round of the search: the victim has more than the minimum.            *)
LEMMA BudgetSteal ==
  ASSUME BudgetTypes, BudgetNotNegative, HeapTypes, NEW t \in Threads, NEW back,
         Steal(t, back), UNCHANGED <<limitVars, min_per_thread_cache_size>>
  PROVE  BudgetTypes' /\ BudgetNotNegative'
<1>1. kStealAmount \in Nat /\ kMaxTries \in Nat /\ Mins \subseteq Nat
      /\ Null \notin Threads
  BY ThreadCacheAssumption DEF ThreadCacheAssumption
<1>2. CASE tries = kMaxTries
  BY <1>2, BudgetSame DEF Steal, BudgetTypes
<1>3. CASE tries # kMaxTries
  <2> DEFINE h == IF next_memory_steal = Null THEN thread_heaps ELSE next_memory_steal
  <2>1. h \in Threads
    BY <1>3 DEF Steal, HeapTypes
  <2>2. CASE ~MayStealFrom(t, h)
    <3>1. tries' = tries + 1 /\ UNCHANGED max_size
      BY <1>3, <2>2 DEF Steal
    <3>2. tries' \in 0 .. kMaxTries
      BY <1>1, <1>3, <3>1 DEF BudgetTypes
    <3> QED
      BY <3>1, <3>2, BudgetSame DEF BudgetTypes
  <2>3. CASE MayStealFrom(t, h)
    <3>1. /\ max_size' = [max_size EXCEPT ![h] = @ - kStealAmount,
                                          ![t] = @ + kStealAmount]
          /\ UNCHANGED tries
      BY <1>3, <2>3 DEF Steal
    <3> HIDE DEF h
    <3>2. h # t /\ (max_size[h] < 0 \/ max_size[h] > min_per_thread_cache_size)
      BY <2>3 DEF MayStealFrom
    <3>3. /\ max_size' \in [Threads -> Int]
          /\ max_size'[h] = max_size[h] - kStealAmount
          /\ max_size'[t] = max_size[t] + kStealAmount
          /\ \A u \in Threads \ {h, t} : max_size'[u] = max_size[u]
      BY <1>1, <2>1, <3>1, <3>2 DEF BudgetTypes
    <3>4. BudgetNotNegative'
      <4> SUFFICES ASSUME \A bytes \in Mins : bytes >= kStealAmount, NEW u \in Threads
                   PROVE  max_size'[u] >= 0
        BY DEF BudgetNotNegative
      <4>1. \A v \in Threads : max_size[v] \in Int /\ max_size[v] >= 0
        BY DEF BudgetNotNegative, BudgetTypes
      <4>2. min_per_thread_cache_size \in Nat /\ min_per_thread_cache_size >= kStealAmount
        BY <1>1 DEF BudgetTypes
      <4> QED
        BY <1>1, <2>1, <3>2, <3>3, <4>1, <4>2
    <3> QED
      BY <3>1, <3>3, <3>4 DEF BudgetTypes, limitVars
  <2> QED
    BY <2>2, <2>3
<1> QED
  BY <1>2, <1>3

(* Scaling keeps integers integers, and the sign.                          *)
LEMMA ScaledSign ==
  \A bytes \in Int, a \in Nat, b \in Nat \ {0} :
    /\ Scaled(bytes, a, b) \in Int
    /\ bytes >= 0 => Scaled(bytes, a, b) >= 0
<1> SUFFICES ASSUME NEW bytes \in Int, NEW a \in Nat, NEW b \in Nat \ {0}
             PROVE  /\ Scaled(bytes, a, b) \in Int
                    /\ bytes >= 0 => Scaled(bytes, a, b) >= 0
  OBVIOUS
<1>1. CASE bytes >= 0
  <2>1. (bytes * a) \div b \in Nat
    BY <1>1, ProductNat, DivMod
  <2> QED
    BY <1>1, <2>1 DEF Scaled
<1>2. CASE bytes < 0
  <2>1. (-bytes) * a \in Nat
    BY <1>2, ProductNat
  <2>2. -bytes * a = (-bytes) * a
    OBVIOUS
  <2>3. (-bytes * a) \div b \in Nat
    BY <2>1, <2>2, DivMod
  <2> QED
    BY <1>2, <2>3 DEF Scaled
<1> QED
  BY <1>1, <1>2

(* Every step keeps the budget.                                            *)
LEMMA BudgetStep ==
  ASSUME TypeOK, BudgetNotNegative, [Next]_vars
  PROVE  BudgetTypes' /\ BudgetNotNegative'
<1>1. BudgetTypes /\ HeapTypes /\ (tries \in 0 .. kMaxTries)
      /\ (min_per_thread_cache_size \in Mins)
  BY DEF TypeOK, BudgetTypes
<1>2. kStealAmount \in Nat /\ kMaxTries \in Nat /\ (Mins \subseteq Nat \ {0})
      /\ kMaxOverall \in Nat /\ kMaxThreadCacheSize \in Nat /\ (Overalls \subseteq Nat)
  BY ThreadCacheAssumption DEF ThreadCacheAssumption
<1>3. ASSUME UNCHANGED <<max_size, limitVars, min_per_thread_cache_size, tries>>
      PROVE  BudgetTypes' /\ BudgetNotNegative'
  BY <1>1, <1>3, BudgetSame
<1>4. ASSUME NEW t \in Threads, IncreaseCacheLimit(t) \/ NewHeap(t)
      PROVE  BudgetTypes' /\ BudgetNotNegative'
  <2>1. /\ UNCHANGED <<limitVars, min_per_thread_cache_size>>
        /\ \/ /\ max_size' = [max_size EXCEPT ![t] = max_size[t] + kStealAmount]
              /\ UNCHANGED tries
           \/ UNCHANGED max_size /\ tries' = 0
    BY <1>4 DEF IncreaseCacheLimit, NewHeap, IncreaseCacheLimitLocked, SetMaxSize
  <2>2. CASE UNCHANGED max_size /\ tries' = 0
    BY <1>1, <1>2, <2>1, <2>2, BudgetSame
  <2>3. CASE max_size' = [max_size EXCEPT ![t] = max_size[t] + kStealAmount]
             /\ UNCHANGED tries
    <3> DEFINE bytes == max_size[t] + kStealAmount
    <3>1. bytes \in Int /\ (max_size[t] >= 0 => bytes >= 0)
      BY <1>1, <1>2 DEF BudgetTypes
    <3>2. max_size' = [max_size EXCEPT ![t] = bytes]
      BY <2>3
    <3> HIDE DEF bytes
    <3> QED
      BY <1>1, <2>1, <2>3, <3>1, <3>2, BudgetSet
  <2> QED
    BY <2>1, <2>2, <2>3
<1>5. ASSUME NEW t \in Threads, StealForOld(t) \/ StealForNew(t)
      PROVE  BudgetTypes' /\ BudgetNotNegative'
  BY <1>1, <1>5, BudgetSteal DEF StealForOld, StealForNew
<1>6. ASSUME NEW t \in Threads, LinkHeap(t)
      PROVE  BudgetTypes' /\ BudgetNotNegative'
  <2>1. /\ UNCHANGED <<limitVars, min_per_thread_cache_size, tries>>
        /\ \/ UNCHANGED max_size
           \/ max_size' = [max_size EXCEPT ![t] = min_per_thread_cache_size]
    BY <1>6 DEF LinkHeap, MinimumBudget, SetMaxSize
  <2>2. min_per_thread_cache_size \in Int /\ min_per_thread_cache_size >= 0
    BY <1>1, <1>2
  <2> QED
    BY <1>1, <1>3, <2>1, <2>2, BudgetSet
<1>7. ASSUME NEW t \in Threads, UnlinkHeap(t)
      PROVE  BudgetTypes' /\ BudgetNotNegative'
  <2>1. /\ UNCHANGED <<limitVars, min_per_thread_cache_size, tries>>
        /\ max_size' = [max_size EXCEPT ![t] = 0]
    BY <1>7 DEF UnlinkHeap, ReturnBudget, SetMaxSize
  <2>2. 0 \in Int /\ 0 >= 0
    OBVIOUS
  <2> QED
    BY <1>1, <2>1, <2>2, BudgetSet
<1>8. ASSUME NEW bytes \in Overalls, set_overall_thread_cache_size(bytes)
      PROVE  BudgetTypes' /\ BudgetNotNegative'
  <2>1. /\ UNCHANGED <<max_size, per_thread_cache_size, min_per_thread_cache_size, tries>>
        /\ overall_thread_cache_size' =
             Least(Most(bytes, min_per_thread_cache_size), kMaxOverall)
    BY <1>8 DEF set_overall_thread_cache_size
  <2>2. bytes \in Nat /\ min_per_thread_cache_size \in Nat
    BY <1>1, <1>2
  <2>3. overall_thread_cache_size' \in Nat
    BY <1>2, <2>1, <2>2 DEF Least, Most
  <2> QED
    BY <1>1, <2>1, <2>3 DEF BudgetTypes, BudgetNotNegative
<1>9. ASSUME RecomputePerThreadCacheSize
      PROVE  BudgetTypes' /\ BudgetNotNegative'
  <2> DEFINE n == Most(thread_heap_count, 1)
             each == overall_thread_cache_size \div n
             space == Least(Most(each, min_per_thread_cache_size), kMaxThreadCacheSize)
             share == Most(per_thread_cache_size, 1)
  <2>1. /\ max_size' = [h \in Threads |-> IF h \in Heaps /\ space < share
                          THEN Scaled(max_size[h], space, share) ELSE max_size[h]]
        /\ per_thread_cache_size' = space
        /\ UNCHANGED <<overall_thread_cache_size, min_per_thread_cache_size, tries>>
    BY <1>9 DEF RecomputePerThreadCacheSize
  <2>2. n \in Nat \ {0} /\ share \in Nat \ {0} /\ overall_thread_cache_size \in Nat
        /\ min_per_thread_cache_size \in Nat
    BY <1>1, <1>2 DEF Most, BudgetTypes, HeapTypes
  <2>3. each \in Nat
    BY <2>2, DivMod
  <2> HIDE DEF n, each, share
  <2>4. space \in Nat
    BY <1>2, <2>2, <2>3 DEF Least, Most
  <2> HIDE DEF space
  <2>5. \A h \in Threads : /\ max_size[h] \in Int
                           /\ Scaled(max_size[h], space, share) \in Int
                           /\ max_size[h] >= 0 => Scaled(max_size[h], space, share) >= 0
    BY <1>1, <2>2, <2>4, ScaledSign DEF BudgetTypes
  <2>6. /\ max_size' \in [Threads -> Int]
        /\ \A h \in Threads : max_size[h] >= 0 => max_size'[h] >= 0
    BY <2>1, <2>5
  <2> QED
    BY <1>1, <2>1, <2>4, <2>6 DEF BudgetTypes, BudgetNotNegative
<1>10. ASSUME NEW bytes \in Mins, set_min_per_thread_cache_size(bytes)
       PROVE  BudgetTypes' /\ BudgetNotNegative'
  BY <1>1, <1>10, BudgetSame DEF set_min_per_thread_cache_size
<1>11. ASSUME NEW t \in Threads,
              \/ \E c \in Classes : Allocate(t, c) \/ Deallocate(t, c)
              \/ Scavenge(t) \/ Unlock(t) \/ DeleteCache(t) \/ Destroy(t)
       PROVE  BudgetTypes' /\ BudgetNotNegative'
  BY <1>3, <1>11 DEF Allocate, Deallocate, Scavenge, Unlock, DeleteCache, Destroy
<1>12. ASSUME UNCHANGED vars PROVE BudgetTypes' /\ BudgetNotNegative'
  BY <1>3, <1>12 DEF vars
<1> QED
  BY <1>4, <1>5, <1>6, <1>7, <1>8, <1>9, <1>10, <1>11, <1>12 DEF Next

-----------------------------------------------------------------------------
(* The list of caches.                                                     *)
LEMMA HeapSame ==
  ASSUME HeapTypes, HeapListRight, UNCHANGED heapVars,
         \A t \in Threads : HasCache(t)' <=> HasCache(t),
         \/ UNCHANGED next_memory_steal
         \/ next_memory_steal' \in Heaps \cup {Null}
  PROVE  HeapTypes' /\ HeapListRight'
<1>1. Heaps' = Heaps /\ Heaps \subseteq Threads
  BY DEF Heaps, heapVars
<1>2. HeapTypes'
  BY <1>1 DEF HeapTypes, heapVars
<1>3. /\ \A t \in Threads : t \in Heaps' <=> HasCache(t)'
      /\ next_memory_steal' # Null => next_memory_steal' \in Heaps'
  BY <1>1 DEF HeapListRight
<1>4. UNCHANGED <<next, prev, thread_heaps, thread_heap_count>>
  BY DEF heapVars
<1> QED
  BY <1>1, <1>2, <1>3, <1>4 DEF HeapListRight

(* The search follows next_ from one cache of the list to another.         *)
LEMMA HeapSteal ==
  ASSUME HeapTypes, HeapListRight, NEW t \in Threads, NEW back,
         Steal(t, back), UNCHANGED heapVars,
         \A u \in Threads : HasCache(u)' <=> HasCache(u)
  PROVE  HeapTypes' /\ HeapListRight'
<1>1. CASE tries = kMaxTries
  BY <1>1, HeapSame DEF Steal
<1>2. CASE tries # kMaxTries
  <2> DEFINE h == IF next_memory_steal = Null THEN thread_heaps ELSE next_memory_steal
  <2>1. h # Null /\ next_memory_steal' = next[h]
    BY <1>2 DEF Steal
  <2>2. h \in Heaps
    BY <2>1 DEF Heaps, HeapListRight, HeapTypes
  <2>3. next[h] \in Heaps \cup {Null}
    BY <2>2 DEF HeapListRight
  <2> QED
    BY <2>1, <2>3, HeapSame
<1> QED
  BY <1>1, <1>2

(* A new cache becomes the head of the list.                               *)
LEMMA HeapLink ==
  ASSUME HeapTypes, HeapListRight, NEW t \in Threads, LinkHeap(t),
         \A u \in Threads : HasCache(u)' <=> u = t \/ HasCache(u)
  PROVE  HeapTypes' /\ HeapListRight'
<1>1. Null \notin Threads /\ IsFiniteSet(Threads)
  BY ThreadCacheAssumption DEF ThreadCacheAssumption
<1>2. ~HasCache(t)
  BY DEF LinkHeap, HasCache
<1>3. t \notin Heaps /\ t # thread_heaps /\ prev[t] = Null /\ Heaps \subseteq Threads
  BY <1>2 DEF HeapListRight, Heaps
<1>4. /\ next' = [next EXCEPT ![t] = thread_heaps]
      /\ prev' = [h \in Threads |-> IF h = t THEN Null
                                    ELSE IF h = thread_heaps THEN t ELSE prev[h]]
      /\ next_memory_steal' = IF thread_heaps = Null THEN t ELSE next_memory_steal
      /\ thread_heaps' = t
      /\ thread_heap_count' = thread_heap_count + 1
  BY DEF LinkHeap
<1>5. /\ next'[t] = thread_heaps
      /\ \A h \in Threads \ {t} : next'[h] = next[h]
      /\ prev'[t] = Null
      /\ thread_heaps # Null => prev'[thread_heaps] = t
      /\ \A h \in Threads : h # t /\ h # thread_heaps => prev'[h] = prev[h]
  BY <1>3, <1>4 DEF HeapTypes
<1>6. HeapTypes'
  BY <1>4 DEF HeapTypes
<1>7. Heaps' = Heaps \cup {t}
  <2>1. ASSUME NEW h \in Threads
        PROVE  (h = thread_heaps' \/ prev'[h] # Null)
                 <=> (h = thread_heaps \/ prev[h] # Null \/ h = t)
    BY <1>1, <1>3, <1>4, <1>5
  <2> QED
    BY <2>1 DEF Heaps
<1>8. \A h \in Threads : h \in Heaps' <=> HasCache(h)'
  BY <1>7 DEF HeapListRight
<1>9. \A h \in Heaps' : next'[h] # Null => next'[h] \in Heaps' /\ prev'[next'[h]] = h
  <2> SUFFICES ASSUME NEW h \in Heaps', next'[h] # Null
               PROVE  next'[h] \in Heaps' /\ prev'[next'[h]] = h
    OBVIOUS
  <2>1. CASE h = t
    BY <1>5, <1>7, <2>1 DEF Heaps, HeapTypes
  <2>2. CASE h # t
    <3>1. h \in Heaps /\ next'[h] = next[h]
      BY <1>3, <1>5, <1>7, <2>2
    <3>2. next[h] \in Heaps /\ prev[next[h]] = h
      BY <3>1 DEF HeapListRight
    <3>3. next[h] # t /\ next[h] # thread_heaps
      BY <1>1, <1>3, <3>1, <3>2 DEF HeapListRight, HeapTypes
    <3> QED
      BY <1>3, <1>5, <1>7, <3>1, <3>2, <3>3
  <2> QED
    BY <2>1, <2>2
<1>10. \A h \in Heaps' : prev'[h] # Null => prev'[h] \in Heaps' /\ next'[prev'[h]] = h
  <2> SUFFICES ASSUME NEW h \in Heaps', prev'[h] # Null
               PROVE  prev'[h] \in Heaps' /\ next'[prev'[h]] = h
    OBVIOUS
  <2>1. h # t /\ h \in Heaps
    BY <1>5, <1>7
  <2>2. CASE h = thread_heaps
    BY <1>1, <1>3, <1>5, <1>7, <2>1, <2>2
  <2>3. CASE h # thread_heaps
    <3>1. prev'[h] = prev[h]
      BY <1>3, <1>5, <2>1, <2>3
    <3>2. prev[h] \in Heaps /\ next[prev[h]] = h
      BY <2>1, <3>1 DEF HeapListRight
    <3> QED
      BY <1>3, <1>5, <1>7, <3>1, <3>2
  <2> QED
    BY <2>2, <2>3
<1>11. ASSUME NEW reached \in SUBSET Heaps', thread_heaps' \in reached,
              \A h \in reached : next'[h] # Null => next'[h] \in reached
       PROVE  reached = Heaps'
  <2> DEFINE old == reached \ {t}
  <2>1. old \in SUBSET Heaps
    BY <1>7
  <2>2. thread_heaps # Null => thread_heaps \in old
    BY <1>3, <1>4, <1>5, <1>11
  <2>3. ASSUME NEW h \in old, next[h] # Null PROVE next[h] \in old
    <3>1. h \in Heaps /\ h # t /\ h \in Threads
      BY <1>3, <2>1
    <3>2. next[h] \in Heaps /\ next'[h] = next[h]
      BY <1>5, <2>3, <3>1 DEF HeapListRight
    <3> QED
      BY <1>3, <1>11, <2>3, <3>1, <3>2
  <2>4. old = Heaps
    <3> HIDE DEF old
    <3> QED
      BY <2>1, <2>2, <2>3 DEF HeapListRight
  <2> QED
    BY <1>4, <1>7, <1>11, <2>4
<1>12. thread_heap_count' = Cardinality(Heaps')
  <2>1. IsFiniteSet(Heaps)
    BY <1>1, <1>3, FS_Subset
  <2>2. Cardinality(Heaps \cup {t}) = Cardinality(Heaps) + 1
    BY <1>3, <2>1, FS_AddElement
  <2> QED
    BY <1>4, <1>7, <2>2 DEF HeapListRight
<1>13. next_memory_steal' # Null => next_memory_steal' \in Heaps'
  BY <1>4, <1>7 DEF HeapListRight
<1>14. thread_heaps' # Null /\ prev'[thread_heaps'] = Null
  BY <1>1, <1>4, <1>5
<1> QED
  BY <1>6, <1>8, <1>9, <1>10, <1>11, <1>12, <1>13, <1>14 DEF HeapListRight

(* A cache leaves the list; the list has no cycle, so it is not its own    *)
(* neighbour.                                                              *)
LEMMA HeapUnlink ==
  ASSUME HeapTypes, HeapListRight, NEW t \in Threads, UnlinkHeap(t),
         \A u \in Threads : HasCache(u)' <=> u # t /\ HasCache(u)
  PROVE  HeapTypes' /\ HeapListRight'
<1> DEFINE p == prev[t]
           n == next[t]
<1>1. Null \notin Threads /\ IsFiniteSet(Threads)
  BY ThreadCacheAssumption DEF ThreadCacheAssumption
<1>2. t \in Heaps /\ Heaps \subseteq Threads
  BY DEF UnlinkHeap, HasCache, HeapListRight, Heaps
<1>3. /\ n # Null => n \in Heaps /\ prev[n] = t
      /\ p # Null => p \in Heaps /\ next[p] = t
      /\ p = Null <=> thread_heaps = t
      /\ thread_heaps # Null => thread_heaps \in Heaps /\ prev[thread_heaps] = Null
  BY <1>1, <1>2 DEF HeapListRight, HeapTypes, Heaps
<1>4. p # t /\ n # t
  <2> SUFFICES ASSUME p = t \/ n = t PROVE FALSE
    OBVIOUS
  <2>1. p = t /\ n = t /\ thread_heaps # t
    BY <1>1, <1>3
  <2> DEFINE others == Heaps \ {t}
  <2>2. thread_heaps # Null => thread_heaps \in others
    BY <1>3, <2>1
  <2>3. ASSUME NEW h \in others, next[h] # Null PROVE next[h] \in others
    <3>1. next[h] \in Heaps /\ prev[next[h]] = h
      BY <2>3 DEF HeapListRight
    <3> QED
      BY <2>1, <3>1
  <2>4. others = Heaps
    <3>1. others \in SUBSET Heaps
      OBVIOUS
    <3> HIDE DEF others
    <3> QED
      BY <2>2, <2>3, <3>1 DEF HeapListRight
  <2> QED
    BY <1>2, <2>4
<1>5. /\ thread_heaps' = (IF thread_heaps = t THEN n ELSE thread_heaps)
      /\ next_memory_steal' = StealAfterDelete(t, thread_heaps')
      /\ next' = [h \in Threads |-> IF h = t THEN Null
                                    ELSE IF h = p THEN n ELSE next[h]]
      /\ prev' = [h \in Threads |-> IF h = t THEN Null
                                    ELSE IF h = n THEN p ELSE prev[h]]
      /\ thread_heap_count' = thread_heap_count - 1
  BY DEF UnlinkHeap, UnlinkNeighbours
<1>6. /\ p \in Threads \cup {Null} /\ n \in Threads \cup {Null}
      /\ p # Null => next'[p] = n
      /\ n # Null => prev'[n] = p
      /\ prev'[t] = Null
      /\ \A h \in Threads \ {t} : h # p => next'[h] = next[h]
      /\ \A h \in Threads \ {t} : h # n => prev'[h] = prev[h]
  BY <1>4, <1>5 DEF HeapTypes
<1>7. HeapTypes'
  BY <1>5, <1>6 DEF HeapTypes, StealAfterDelete
<1> HIDE DEF p, n
<1>8. Heaps' = Heaps \ {t}
  <2>1. ASSUME NEW h \in Threads
        PROVE  (h = thread_heaps' \/ prev'[h] # Null)
                 <=> ((h = thread_heaps \/ prev[h] # Null) /\ h # t)
    <3>1. CASE h = t
      BY <1>1, <1>4, <1>5, <1>6, <3>1
    <3>2. CASE h # t /\ h = n
      BY <1>1, <1>2, <1>3, <1>5, <1>6, <3>2
    <3>3. CASE h # t /\ h # n
      BY <1>1, <1>3, <1>5, <1>6, <3>3
    <3> QED
      BY <3>1, <3>2, <3>3
  <2> QED
    BY <2>1 DEF Heaps
<1>9. \A h \in Threads : h \in Heaps' <=> HasCache(h)'
  BY <1>8 DEF HeapListRight
<1>10. thread_heaps' # Null => prev'[thread_heaps'] = Null
  BY <1>1, <1>2, <1>3, <1>4, <1>5, <1>6
<1>11. \A h \in Heaps' : next'[h] # Null => next'[h] \in Heaps' /\ prev'[next'[h]] = h
  <2> SUFFICES ASSUME NEW h \in Heaps', next'[h] # Null
               PROVE  next'[h] \in Heaps' /\ prev'[next'[h]] = h
    OBVIOUS
  <2>1. h \in Heaps /\ h # t /\ h \in Threads /\ h # Null
    BY <1>1, <1>2, <1>8
  <2>2. CASE h = p
    BY <1>3, <1>4, <1>6, <1>8, <2>1, <2>2
  <2>3. CASE h # p
    <3>1. next'[h] = next[h]
      BY <1>6, <2>1, <2>3
    <3>2. next[h] \in Heaps /\ prev[next[h]] = h
      BY <2>1, <3>1 DEF HeapListRight
    <3>3. next[h] # t /\ next[h] # n
      BY <1>1, <1>2, <1>3, <2>1, <2>3, <3>2 DEF p
    <3> QED
      BY <1>2, <1>6, <1>8, <3>1, <3>2, <3>3
  <2> QED
    BY <2>2, <2>3
<1>12. \A h \in Heaps' : prev'[h] # Null => prev'[h] \in Heaps' /\ next'[prev'[h]] = h
  <2> SUFFICES ASSUME NEW h \in Heaps', prev'[h] # Null
               PROVE  prev'[h] \in Heaps' /\ next'[prev'[h]] = h
    OBVIOUS
  <2>1. h \in Heaps /\ h # t /\ h \in Threads /\ h # Null
    BY <1>1, <1>2, <1>8
  <2>2. CASE h = n
    BY <1>3, <1>4, <1>6, <1>8, <2>1, <2>2
  <2>3. CASE h # n
    <3>1. prev'[h] = prev[h]
      BY <1>6, <2>1, <2>3
    <3>2. prev[h] \in Heaps /\ next[prev[h]] = h
      BY <2>1, <3>1 DEF HeapListRight
    <3>3. prev[h] # t /\ prev[h] # p
      BY <1>1, <1>2, <1>3, <2>1, <2>3, <3>2 DEF n
    <3> QED
      BY <1>2, <1>6, <1>8, <3>1, <3>2, <3>3
  <2> QED
    BY <2>2, <2>3
<1>13. ASSUME NEW reached \in SUBSET Heaps',
              thread_heaps' # Null => thread_heaps' \in reached,
              \A h \in reached : next'[h] # Null => next'[h] \in reached
       PROVE  reached = Heaps'
  <2>1. \A h \in reached : h \in Heaps /\ h # t /\ h \in Threads
    BY <1>2, <1>8
  <2>2. CASE p = Null \/ p \in reached
    <3> DEFINE more == reached \cup {t}
    <3>1. more \in SUBSET Heaps
      BY <1>2, <2>1
    <3>2. thread_heaps # Null => thread_heaps \in more
      BY <1>5, <1>13
    <3>3. n # Null => n \in reached
      BY <1>3, <1>5, <1>6, <1>13, <2>1, <2>2
    <3>4. ASSUME NEW h \in more, next[h] # Null PROVE next[h] \in more
      <4>1. CASE h = t
        BY <3>3, <3>4, <4>1 DEF n
      <4>2. CASE h # t /\ h = p
        BY <1>1, <1>2, <1>3, <2>1, <3>4, <4>2
      <4>3. CASE h # t /\ h # p
        BY <1>6, <1>13, <2>1, <3>4, <4>3
      <4> QED
        BY <4>1, <4>2, <4>3
    <3>5. more = Heaps
      <4> HIDE DEF more
      <4> QED
        BY <3>1, <3>2, <3>4 DEF HeapListRight
    <3> QED
      BY <1>8, <2>1, <3>5
  <2>3. CASE p # Null /\ p \notin reached
    <3>1. reached \in SUBSET Heaps
      BY <2>1
    <3>2. thread_heaps # Null => thread_heaps \in reached
      BY <1>3, <1>5, <1>13, <2>3
    <3>3. ASSUME NEW h \in reached, next[h] # Null PROVE next[h] \in reached
      BY <1>6, <1>13, <2>1, <2>3, <3>3
    <3>4. reached = Heaps
      BY <3>1, <3>2, <3>3 DEF HeapListRight
    <3> QED
      BY <1>2, <2>1, <3>4
  <2> QED
    BY <2>2, <2>3
<1>14. thread_heap_count' = Cardinality(Heaps')
  <2>1. IsFiniteSet(Heaps)
    BY <1>1, <1>2, FS_Subset
  <2>2. Cardinality(Heaps \ {t}) = Cardinality(Heaps) - 1
    BY <1>2, <2>1, FS_RemoveElement
  <2> QED
    BY <1>5, <1>8, <2>2 DEF HeapListRight
<1>15. next_memory_steal' # Null => next_memory_steal' \in Heaps'
  <2>1. thread_heaps' # Null => thread_heaps' \in Heaps'
    BY <1>3, <1>4, <1>5, <1>8
  <2>2. next_memory_steal # Null => next_memory_steal \in Heaps
    BY DEF HeapListRight
  <2> QED
    BY <1>3, <1>4, <1>5, <1>8, <2>1, <2>2 DEF StealAfterDelete, n
<1> QED
  BY <1>7, <1>9, <1>10, <1>11, <1>12, <1>13, <1>14, <1>15 DEF HeapListRight

(* Every step keeps the list of caches.                                    *)
LEMMA HeapStep ==
  ASSUME TypeOK, HeapListRight, [Next]_vars
  PROVE  HeapTypes' /\ HeapListRight'
<1>1. HeapTypes /\ pc \in [Threads -> Labels]
  BY DEF TypeOK, CacheTypes
<1>2. ASSUME UNCHANGED <<pc, heapVars, next_memory_steal>>
      PROVE  HeapTypes' /\ HeapListRight'
  BY <1>1, <1>2, HeapSame DEF HasCache
<1>3. ASSUME NEW t \in Threads, NEW label,
             UNCHANGED pc \/ pc' = [pc EXCEPT ![t] = label],
             pc[t] \in {"none", "steal_new", "link"}
               <=> label \in {"none", "steal_new", "link"}
      PROVE  \A u \in Threads : HasCache(u)' <=> HasCache(u)
  BY <1>1, <1>3 DEF HasCache
<1>4. ASSUME NEW t \in Threads, NEW c \in Classes, Allocate(t, c) \/ Deallocate(t, c)
      PROVE  HeapTypes' /\ HeapListRight'
  <2>1. /\ UNCHANGED <<heapVars, next_memory_steal>>
        /\ pc[t] = "idle"
        /\ UNCHANGED pc \/ pc' = [pc EXCEPT ![t] = "scavenge"]
    BY <1>4 DEF Allocate, Deallocate, Goto
  <2> QED
    BY <1>1, <1>3, <2>1, HeapSame
<1>5. ASSUME NEW t \in Threads, Scavenge(t) \/ Destroy(t)
      PROVE  HeapTypes' /\ HeapListRight'
  <2>1. /\ UNCHANGED <<heapVars, next_memory_steal>>
        /\ pc[t] \in {"scavenge", "destroy"}
        /\ \E label \in {"increase", "unlink"} :
             UNCHANGED pc \/ pc' = [pc EXCEPT ![t] = label]
    BY <1>5 DEF Scavenge, Destroy, NextClass, Goto
  <2> QED
    BY <1>1, <1>3, <2>1, HeapSame
<1>6. ASSUME NEW t \in Threads, IncreaseCacheLimit(t) \/ NewHeap(t)
      PROVE  HeapTypes' /\ HeapListRight'
  <2>1. /\ UNCHANGED <<heapVars, next_memory_steal>>
        /\ \/ /\ pc[t] = "increase"
              /\ \E label \in {"unlock", "steal"} : pc' = [pc EXCEPT ![t] = label]
           \/ /\ pc[t] = "none"
              /\ \E label \in {"link", "steal_new"} : pc' = [pc EXCEPT ![t] = label]
    BY <1>6 DEF IncreaseCacheLimit, NewHeap, IncreaseCacheLimitLocked, Goto
  <2> QED
    BY <1>1, <1>3, <2>1, HeapSame
<1>7. ASSUME NEW t \in Threads, StealForOld(t)
      PROVE  HeapTypes' /\ HeapListRight'
  <2>1. /\ UNCHANGED heapVars /\ Steal(t, "unlock") /\ pc[t] = "steal"
        /\ UNCHANGED pc \/ pc' = [pc EXCEPT ![t] = "unlock"]
    BY <1>7 DEF StealForOld, Steal, Goto
  <2>2. \A u \in Threads : HasCache(u)' <=> HasCache(u)
    BY <1>3, <2>1
  <2> QED
    BY <1>1, <2>1, <2>2, HeapSteal
<1>8. ASSUME NEW t \in Threads, StealForNew(t)
      PROVE  HeapTypes' /\ HeapListRight'
  <2>1. /\ UNCHANGED heapVars /\ Steal(t, "link") /\ pc[t] = "steal_new"
        /\ UNCHANGED pc \/ pc' = [pc EXCEPT ![t] = "link"]
    BY <1>8 DEF StealForNew, Steal, Goto
  <2>2. \A u \in Threads : HasCache(u)' <=> HasCache(u)
    BY <1>3, <2>1
  <2> QED
    BY <1>1, <2>1, <2>2, HeapSteal
<1>9. ASSUME NEW t \in Threads, Unlock(t) \/ DeleteCache(t)
      PROVE  HeapTypes' /\ HeapListRight'
  <2>1. /\ UNCHANGED <<heapVars, next_memory_steal>>
        /\ pc[t] \in {"unlock", "idle"}
        /\ \E label \in {"idle", "destroy"} : pc' = [pc EXCEPT ![t] = label]
    BY <1>9 DEF Unlock, DeleteCache, Goto
  <2> QED
    BY <1>1, <1>3, <2>1, HeapSame
<1>10. ASSUME NEW t \in Threads, LinkHeap(t)
       PROVE  HeapTypes' /\ HeapListRight'
  <2>1. pc' = [pc EXCEPT ![t] = "idle"]
    BY <1>10 DEF LinkHeap, Goto
  <2>2. \A u \in Threads : HasCache(u)' <=> u = t \/ HasCache(u)
    BY <1>1, <2>1 DEF HasCache
  <2> QED
    BY <1>1, <1>10, <2>2, HeapLink
<1>11. ASSUME NEW t \in Threads, UnlinkHeap(t)
       PROVE  HeapTypes' /\ HeapListRight'
  <2>1. pc' = [pc EXCEPT ![t] = "none"]
    BY <1>11 DEF UnlinkHeap, Goto
  <2>2. \A u \in Threads : HasCache(u)' <=> u # t /\ HasCache(u)
    BY <1>1, <2>1 DEF HasCache
  <2> QED
    BY <1>1, <1>11, <2>2, HeapUnlink
<1>12. ASSUME \/ \E bytes \in Overalls : set_overall_thread_cache_size(bytes)
              \/ RecomputePerThreadCacheSize
              \/ \E bytes \in Mins : set_min_per_thread_cache_size(bytes)
       PROVE  HeapTypes' /\ HeapListRight'
  BY <1>2, <1>12 DEF set_overall_thread_cache_size, RecomputePerThreadCacheSize,
                     set_min_per_thread_cache_size
<1>13. ASSUME UNCHANGED vars PROVE HeapTypes' /\ HeapListRight'
  BY <1>2, <1>13 DEF vars
<1> QED
  BY <1>4, <1>5, <1>6, <1>7, <1>8, <1>9, <1>10, <1>11, <1>12, <1>13 DEF Next

-----------------------------------------------------------------------------
(* The invariant holds at first,                                           *)
LEMMA InitIInv == Init => IInv
<1> SUFFICES ASSUME Init PROVE IInv
  OBVIOUS
<1>1. NewList \in FreeLists
  BY DEF NewList, FreeLists
<1>2. CacheTypes
  BY <1>1, ThreadCacheAssumption
     DEF Init, CacheTypes, Labels, ThreadCacheAssumption
<1>3. Heaps = {}
  BY ThreadCacheAssumption DEF Init, Heaps, ThreadCacheAssumption
<1>4. HeapTypes
  BY DEF Init, HeapTypes
<1>5. HeapListRight
  <2>1. \A t \in Threads : ~HasCache(t)
    BY DEF Init, HasCache
  <2>2. thread_heap_count = Cardinality(Heaps)
    BY <1>3, FS_EmptySet DEF Init
  <2>3. thread_heaps = Null /\ next_memory_steal = Null
    BY DEF Init
  <2> QED
    BY <1>3, <2>1, <2>2, <2>3 DEF HeapListRight
<1>6. BudgetTypes /\ BudgetNotNegative
  BY ThreadCacheAssumption
     DEF Init, BudgetTypes, BudgetNotNegative, ThreadCacheAssumption
<1>7. LockHeld
  BY ThreadCacheAssumption DEF Init, LockHeld, ThreadCacheAssumption
<1>8. \A t \in Threads : pc[t] \notin {"scavenge", "destroy"}
  BY DEF Init
<1>9. ListLimits
  <2>1. ListsOK
    BY NewListOK DEF Init, ListsOK
  <2> QED
    BY <1>2, <2>1, ListsOKMeaning DEF CacheTypes
<1> QED
  BY <1>2, <1>4, <1>5, <1>6, <1>7, <1>8, <1>9 DEF IInv, TypeOK

(* and every step keeps it.                                                *)
LEMMA NextIInv == IInv /\ [Next]_vars => IInv'
<1> SUFFICES ASSUME IInv, [Next]_vars PROVE IInv'
  OBVIOUS
<1>1. TypeOK /\ ListLimits /\ HeapListRight /\ BudgetNotNegative
  BY DEF IInv
<1>2. list' \in [Threads -> [Classes -> FreeLists]] /\ ListLimits'
  BY <1>1, ListStep
<1>3. /\ size' \in [Threads -> Int]
      /\ central' \in [Classes -> Int]
      /\ application' \in [Classes -> Nat]
  BY <1>1, CountStep
<1>4. Control'
  BY <1>1, ControlStep
<1>5. BudgetTypes' /\ BudgetNotNegative'
  BY <1>1, BudgetStep
<1>6. HeapTypes' /\ HeapListRight'
  BY <1>1, HeapStep
<1>7. TypeOK'
  BY <1>2, <1>3, <1>4, <1>5, <1>6 DEF TypeOK, CacheTypes, Control
<1> QED
  BY <1>2, <1>5, <1>6, <1>7 DEF IInv

(* The inductive invariant of the thread caches.                           *)
LEMMA ThreadCacheInvariant == Spec => []IInv
BY InitIInv, NextIInv, PTL DEF Spec

(* The members of the caches keep their types, no list has a negative      *)
(* length, the round counter of IncreaseCacheLimitLocked stays in bounds,  *)
(* and pageheap_lock is with exactly the thread that works under it.       *)
THEOREM ThreadCacheTypeOK == Spec => []TypeOK
<1>1. IInv => TypeOK
  BY DEF IInv
<1> QED
  BY <1>1, ThreadCacheInvariant, PTL

(* The limits that FetchFromCentralCache, ListTooLong and Scavenge keep    *)
(* for every free list: max_length_ is below a batch or a multiple of it,  *)
(* never 0, and bounds the length together with the 16 bits of 32-bit      *)
(* builds.                                                                 *)
THEOREM ThreadCacheListLimits == Spec => []ListLimits
<1>1. IInv => ListLimits
  BY DEF IInv
<1> QED
  BY <1>1, ThreadCacheInvariant, PTL

(* NewHeap and DeleteCache keep a doubly linked list of exactly the live   *)
(* caches with its count, and next_memory_steal_ never points to a deleted *)
(* one.                                                                    *)
THEOREM ThreadCacheHeapList == Spec => []HeapListRight
<1>1. IInv => HeapListRight
  BY DEF IInv
<1> QED
  BY <1>1, ThreadCacheInvariant, PTL

(* With a minimum of at least kStealAmount, IncreaseCacheLimitLocked and   *)
(* RecomputePerThreadCacheSize never make a max_size_ negative.            *)
THEOREM ThreadCacheBudget == Spec => []BudgetNotNegative
<1>1. IInv => BudgetNotNegative
  BY DEF IInv
<1> QED
  BY <1>1, ThreadCacheInvariant, PTL
================================================================================
