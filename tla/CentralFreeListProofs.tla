------------------------- MODULE CentralFreeListProofs -------------------------
(***************************************************************************)
(* For any number of threads, classes, spans and slots: the lock           *)
(* discipline of the central free lists and the bounds of their transfer   *)
(* caches.                                                                 *)
(***************************************************************************)
EXTENDS CentralFreeList, FiniteSetTheorems, TLAPS

(* A thread inside a call has a class, and one that shrinks has a victim.  *)
CallState ==
  \A t \in Threads :
    /\ pc[t] # "idle" => cl[t] \in Classes
    /\ pc[t] = "shrink" => victim[t] \in Classes

IInv ==
  /\ TypeOK
  /\ CallState
  /\ SlotBounds
  /\ LockDiscipline

(* Init caps every transfer cache at the length of tc_slots_.              *)
LEMMA MaxCacheSize ==
  \A c \in Classes : /\ max_cache_size[c] \in Nat
                     /\ max_cache_size[c] <= kMaxNumTransferEntries
BY ConstantsAssumption DEF ConstantsAssumption, max_cache_size, Min, Max

(* What Populate carves are objects of the span it carves.                 *)
LEMMA CarveObjects ==
  /\ \A s \in Spans, c \in Classes : Carve(s, c) \in SUBSET Objects
  /\ \A o \in Objects : o[1] \in Spans
<1>1. ASSUME NEW s \in Spans, NEW c \in Classes PROVE Carve(s, c) \in SUBSET Objects
  BY DEF Objects
<1>2. ASSUME NEW o \in Objects PROVE o[1] \in Spans
  <2>1. PICK s \in Spans, c \in Classes : o \in Carve(s, c)
    BY DEF Objects
  <2> QED
    BY <2>1 DEF Carve
<1> QED
  BY <1>1, <1>2

(* A set of objects has a size.                                            *)
LEMMA ObjectCount == \A S \in SUBSET Objects : Cardinality(S) \in Nat
BY FiniteAssumption, FS_Subset, FS_CardinalityType DEF FiniteAssumption

(* Empty central lists satisfy IInv.                                       *)
LEMMA InitIInv == Init => IInv
<1> SUFFICES ASSUME Init PROVE IInv
  OBVIOUS
<1> USE ConstantsAssumption DEF ConstantsAssumption, Init
<1>1. TypeOK
  BY MaxCacheSize DEF TypeOK, ClassTypes, SpanTypes, CallTypes, Labels, Min
<1>2. CallState
  BY DEF CallState
<1>3. SlotBounds
  BY MaxCacheSize DEF SlotBounds, Min
<1>4. LockDiscipline
  BY DEF LockDiscipline, Needs
<1> QED
  BY <1>1, <1>2, <1>3, <1>4 DEF IInv

(* Steps that touch neither size of a transfer cache ...                   *)
LEMMA BoundsSame ==
  ASSUME SlotBounds, UNCHANGED <<cache_size, used_slots>>
  PROVE  SlotBounds'
BY DEF SlotBounds

(* ... or fill one of them up to its size ...                              *)
LEMMA BoundsUsed ==
  ASSUME ClassTypes, SlotBounds, NEW c \in Classes, NEW k \in Nat, k <= cache_size[c],
         used_slots' = [used_slots EXCEPT ![c] = k], UNCHANGED cache_size
  PROVE  SlotBounds'
<1>1. \A d \in Classes : used_slots'[d] = k \/ used_slots'[d] = used_slots[d]
  BY DEF ClassTypes
<1>2. \A d \in Classes : used_slots'[d] # used_slots[d] => d = c /\ used_slots'[d] = k
  BY DEF ClassTypes
<1>3. ASSUME NEW d \in Classes
      PROVE  0 <= used_slots'[d] /\ used_slots'[d] <= cache_size[d]
  BY <1>1, <1>2 DEF SlotBounds
<1> QED
  BY <1>3 DEF SlotBounds

(* ... and steps that touch neither a lock nor where a thread is.          *)
LEMMA ControlSame ==
  ASSUME CallState, LockDiscipline, UNCHANGED <<lock, pc, cl, victim>>
  PROVE  CallState' /\ LockDiscipline'
<1>1. CallState'
  BY DEF CallState
<1>2. \A t \in Threads, c \in Classes : Needs(t, c)' <=> Needs(t, c)
  BY DEF Needs, ReleaseClass
<1>3. LockDiscipline'
  BY <1>2 DEF LockDiscipline
<1> QED
  BY <1>1, <1>3

(* A thread takes the one lock it needs from now on.                       *)
LEMMA LockTaken ==
  ASSUME ClassTypes, LockDiscipline, NEW t \in Threads, NEW c \in Classes,
         lock[c] = NoThread, lock' = [lock EXCEPT ![c] = t],
         \A d \in Classes : (Needs(t, d)' <=> d = c) /\ ~Needs(t, d),
         \A u \in Threads \ {t}, d \in Classes : Needs(u, d)' <=> Needs(u, d)
  PROVE  LockDiscipline'
<1>1. lock'[c] = t /\ \A d \in Classes \ {c} : lock'[d] = lock[d]
  BY DEF ClassTypes
<1>2. \A d \in Classes : lock'[d] = t <=> Needs(t, d)'
  BY <1>1 DEF LockDiscipline
<1>3. \A u \in Threads \ {t}, d \in Classes : lock'[d] = u <=> Needs(u, d)'
  BY <1>1, ConstantsAssumption DEF LockDiscipline, ConstantsAssumption
<1> QED
  BY <1>2, <1>3 DEF LockDiscipline

(* What the two operations on tc_slots_ do to it: a new entry, ...         *)
LEMMA EntryPut ==
  ASSUME ClassTypes, NEW c \in Classes, NEW S \in SUBSET Objects, PutEntry(c, S)
  PROVE  /\ tc_slots' \in [Classes -> [Slots -> SUBSET Objects]]
         /\ used_slots' \in [Classes -> Nat]
         /\ used_slots' = [used_slots EXCEPT ![c] = used_slots[c] + 1]
<1>1. tc_slots[c] \in [Slots -> SUBSET Objects]
  BY DEF ClassTypes
<1>2. [tc_slots[c] EXCEPT ![used_slots[c]] = S] \in [Slots -> SUBSET Objects]
  BY <1>1
<1>3. tc_slots' = [tc_slots EXCEPT ![c] = [tc_slots[c] EXCEPT ![used_slots[c]] = S]]
  BY DEF ClassTypes, PutEntry
<1>4. tc_slots' \in [Classes -> [Slots -> SUBSET Objects]]
  BY <1>2, <1>3 DEF ClassTypes
<1> QED
  BY <1>4 DEF ClassTypes, PutEntry

(* ... and the removal of the last entry.                                  *)
LEMMA EntryDropped ==
  ASSUME ClassTypes, SlotBounds, NEW c \in Classes, used_slots[c] > 0, DropEntry(c)
  PROVE  /\ tc_slots[c][used_slots[c] - 1] \in SUBSET Objects
         /\ tc_slots' \in [Classes -> [Slots -> SUBSET Objects]]
         /\ used_slots' \in [Classes -> Nat]
         /\ used_slots' = [used_slots EXCEPT ![c] = used_slots[c] - 1]
<1> DEFINE last == used_slots[c] - 1
<1>1. tc_slots[c] \in [Slots -> SUBSET Objects]
  BY DEF ClassTypes
<1>2. last \in Nat /\ last \in Slots
  <2>1. /\ used_slots[c] \in Nat /\ cache_size[c] \in Nat
        /\ used_slots[c] <= cache_size[c] /\ cache_size[c] <= max_cache_size[c]
    BY DEF ClassTypes, SlotBounds
  <2> QED
    BY <2>1, MaxCacheSize, ConstantsAssumption DEF ConstantsAssumption, Slots
<1>3. tc_slots' = [tc_slots EXCEPT ![c] = [tc_slots[c] EXCEPT ![last] = {}]]
  BY DEF ClassTypes, DropEntry
<1>4. [tc_slots[c] EXCEPT ![last] = {}] \in [Slots -> SUBSET Objects]
  BY <1>1
<1>5. tc_slots' \in [Classes -> [Slots -> SUBSET Objects]]
  BY <1>3, <1>4 DEF ClassTypes
<1>6. tc_slots[c][last] \in SUBSET Objects
  BY <1>1, <1>2
<1>7. used_slots' \in [Classes -> Nat] /\ used_slots' = [used_slots EXCEPT ![c] = last]
  BY <1>2 DEF ClassTypes, DropEntry
<1> QED
  BY <1>5, <1>6, <1>7

(* Every step keeps IInv, one lemma an action.  First the call of          *)
(* InsertRange, which has the lock when it does not return at once.        *)
LEMMA InsertRangeStep ==
  ASSUME IInv, NEW t \in Threads, NEW c \in Classes, NEW S \in SUBSET outside,
         InsertRange(t, c, S)
  PROVE  IInv'
<1> USE DEF InsertRange, Goto, spanVars
<1>1. ClassTypes /\ SpanTypes /\ CallTypes /\ CallState /\ SlotBounds /\ LockDiscipline
  BY DEF IInv, TypeOK
<1>2. S \in SUBSET Objects
  BY <1>1 DEF SpanTypes
<1>3. SpanTypes'
  BY <1>1 DEF SpanTypes
<1>4. CASE used_slots[c] < cache_size[c] /\ Cardinality(S) = num_objects_to_move[c]
  <2>1. PutEntry(c, S) /\ UNCHANGED <<lock, pc, callVars, cache_size, counter, num_spans>>
    BY <1>4 DEF callVars
  <2> HIDE DEF InsertRange
  <2>2. /\ tc_slots' \in [Classes -> [Slots -> SUBSET Objects]]
        /\ used_slots' \in [Classes -> Nat]
        /\ used_slots' = [used_slots EXCEPT ![c] = used_slots[c] + 1]
    BY <1>1, <1>2, <2>1, EntryPut
  <2>3. ClassTypes' /\ SlotBounds'
    <3>1. ClassTypes'
      BY <1>1, <1>4, <2>1, <2>2 DEF ClassTypes
    <3>2. used_slots[c] + 1 \in Nat /\ used_slots[c] + 1 <= cache_size[c]
      BY <1>1, <1>4 DEF ClassTypes
    <3>3. SlotBounds'
      BY <1>1, <2>1, <2>2, <3>2, BoundsUsed
    <3> QED
      BY <3>1, <3>3
  <2> QED
    BY <1>1, <1>3, <2>1, <2>3
    DEF callVars, IInv, TypeOK, CallTypes, CallState, LockDiscipline, Needs, ReleaseClass
<1>5. CASE ~(used_slots[c] < cache_size[c] /\ Cardinality(S) = num_objects_to_move[c])
  <2>1. /\ lock' = [lock EXCEPT ![c] = t]
        /\ cl' = [cl EXCEPT ![t] = c]
        /\ UNCHANGED classVars
        /\ \/ ReleaseOwnRange(t, S)
           \/ /\ batch' = [batch EXCEPT ![t] = S]
              /\ pc' = [pc EXCEPT ![t] = "evict"]
              /\ UNCHANGED <<todo, victim, force>>
    BY <1>5 DEF classVars
  <2>2. ClassTypes' /\ SlotBounds'
    <3>1. ClassTypes'
      BY <1>1, <2>1 DEF ClassTypes, classVars
    <3>2. SlotBounds'
      BY <1>1, <2>1, BoundsSame DEF classVars
    <3> QED
      BY <3>1, <3>2
  <2>3. CallTypes'
    BY <1>1, <1>2, <2>1 DEF CallTypes, Labels, ReleaseOwnRange
  <2>4. CallState'
    BY <1>1, <2>1 DEF CallState, CallTypes, ReleaseOwnRange
  <2>5. LockDiscipline'
    BY <1>1, <2>1, ConstantsAssumption
    DEF ConstantsAssumption, LockDiscipline, ClassTypes, CallTypes, CallState, Needs,
        ReleaseClass, ReleaseOwnRange
  <2> QED
    BY <1>3, <2>2, <2>3, <2>4, <2>5 DEF IInv, TypeOK
<1> QED
  BY <1>4, <1>5

(* EvictRandomSizeClass either fails, and keeps the lock, or has given it  *)
(* up when it waits for the victim's.                                      *)
LEMMA EvictStep ==
  ASSUME IInv, NEW t \in Threads, EvictRandomSizeClass(t)
  PROVE  IInv'
<1>1. ClassTypes /\ SpanTypes /\ CallTypes /\ CallState /\ SlotBounds /\ LockDiscipline
  BY DEF IInv, TypeOK
<1>2. /\ pc[t] = "evict"
      /\ UNCHANGED <<classVars, spanVars, outside, cl, want, evicted, populated, span>>
      /\ \/ EvictFailed(t) /\ UNCHANGED lock
         \/ \E v \in Classes \ {cl[t]} :
              /\ victim' = [victim EXCEPT ![t] = v]
              /\ LockInverter(t)
              /\ UNCHANGED <<batch, todo, force>>
  BY DEF EvictRandomSizeClass
<1>3. SpanTypes' /\ SlotBounds'
  BY <1>1, <1>2 DEF SpanTypes, SlotBounds, classVars, spanVars
<1>4. CASE EvictFailed(t) /\ UNCHANGED lock
  <2>1. ClassTypes'
    BY <1>1, <1>2, <1>4 DEF ClassTypes, classVars
  <2>2. CallTypes'
    <3>1. CASE force[t]
      <4>1. /\ batch' = [batch EXCEPT ![t] = {}]
            /\ todo' = [todo EXCEPT ![t] = batch[t]]
            /\ victim' = [victim EXCEPT ![t] = NoClass]
            /\ force' = [force EXCEPT ![t] = FALSE]
            /\ pc' = [pc EXCEPT ![t] = "release"]
        BY <1>4, <3>1 DEF EvictFailed, ReleaseOwnRange, Goto
      <4> QED
        BY <1>1, <1>2, <4>1 DEF CallTypes, Labels
    <3>2. CASE ~force[t]
      BY <1>1, <1>2, <1>4, <3>2 DEF CallTypes, Labels, EvictFailed, Goto
    <3> QED
      BY <3>1, <3>2
  <2>3. CallState'
    BY <1>1, <1>2, <1>4 DEF CallTypes, CallState, EvictFailed, ReleaseOwnRange, Goto
  <2>4. LockDiscipline'
    BY <1>1, <1>2, <1>4, ConstantsAssumption
    DEF ConstantsAssumption, LockDiscipline, ClassTypes, CallTypes, CallState, Needs,
        ReleaseClass, EvictFailed, ReleaseOwnRange, Goto
  <2> QED
    BY <1>3, <2>1, <2>2, <2>3, <2>4 DEF IInv, TypeOK
<1>5. ASSUME NEW v \in Classes \ {cl[t]},
             victim' = [victim EXCEPT ![t] = v],
             LockInverter(t),
             UNCHANGED <<batch, todo, force>>
      PROVE  IInv'
  <2>1. ClassTypes'
    BY <1>1, <1>2, <1>5 DEF ClassTypes, classVars, LockInverter, Drop
  <2>2. CallTypes'
    BY <1>1, <1>2, <1>5 DEF CallTypes, Labels, LockInverter, Goto
  <2>3. CallState'
    BY <1>1, <1>2, <1>5 DEF CallTypes, CallState, LockInverter, Goto
  <2>4. LockDiscipline'
    BY <1>1, <1>2, <1>5, ConstantsAssumption
    DEF ConstantsAssumption, LockDiscipline, ClassTypes, CallTypes, CallState, Needs,
        ReleaseClass, LockInverter, Drop, Goto
  <2> QED
    BY <1>3, <2>1, <2>2, <2>3, <2>4 DEF IInv, TypeOK
<1> QED
  BY <1>2, <1>4, <1>5

(* ShrinkCache gives up a slot, and a full one with its entry.             *)
LEMMA ShrinkCacheStep ==
  ASSUME IInv, NEW t \in Threads, ShrinkCache(t)
  PROVE  IInv'
<1> DEFINE v == victim[t]
           full == used_slots[v] = cache_size[v]
           refused == cache_size[v] = 0 \/ (full /\ ~force[t])
<1>1. ClassTypes /\ SpanTypes /\ CallTypes /\ CallState /\ SlotBounds /\ LockDiscipline
  BY DEF IInv, TypeOK
<1>2. /\ pc[t] = "shrink"
      /\ lock[v] = NoThread
      /\ UNCHANGED <<counter, num_spans, spanVars, outside, cl, batch, want, victim,
                     force, populated, span>>
  BY DEF ShrinkCache
<1>3. v \in Classes /\ cl[t] \in Classes
  BY <1>1, <1>2 DEF CallState
<1>4. SpanTypes'
  BY <1>1, <1>2 DEF SpanTypes, spanVars
<1>5. CASE refused
  <2>1. /\ evicted' = [evicted EXCEPT ![t] = FALSE]
        /\ pc' = [pc EXCEPT ![t] = "relock"]
        /\ UNCHANGED <<lock, cache_size, used_slots, tc_slots, todo>>
    BY <1>5 DEF ShrinkCache, Goto
  <2>2. ClassTypes' /\ SlotBounds'
    <3>1. ClassTypes'
      BY <1>1, <1>2, <2>1 DEF ClassTypes
    <3>2. SlotBounds'
      BY <1>1, <1>2, <2>1, BoundsSame
    <3> QED
      BY <3>1, <3>2
  <2>3. CallTypes' /\ CallState'
    <3>1. CallTypes'
      BY <1>1, <1>2, <1>3, <2>1 DEF CallTypes, Labels
    <3>2. CallState'
      BY <1>1, <1>2, <1>3, <2>1 DEF CallState, Labels
    <3> QED
      BY <3>1, <3>2
  <2>4. LockDiscipline'
    BY <1>1, <1>2, <2>1 DEF LockDiscipline, CallTypes, Needs, ReleaseClass
  <2> QED
    BY <1>4, <2>2, <2>3, <2>4 DEF IInv, TypeOK
<1>6. CASE ~refused /\ full
  <2>1. /\ cache_size' = [cache_size EXCEPT ![v] = cache_size[v] - 1]
        /\ evicted' = [evicted EXCEPT ![t] = TRUE]
        /\ DropEntry(v)
        /\ todo' = [todo EXCEPT ![t] = tc_slots[v][used_slots[v] - 1]]
        /\ lock' = [lock EXCEPT ![v] = t]
        /\ pc' = [pc EXCEPT ![t] = "release"]
    BY <1>6 DEF ShrinkCache, GiveSlot, Goto
  <2>2. cache_size[v] \in Nat \ {0} /\ used_slots[v] = cache_size[v]
    BY <1>1, <1>3, <1>6 DEF ClassTypes
  <2>3. /\ tc_slots[v][used_slots[v] - 1] \in SUBSET Objects
        /\ tc_slots' \in [Classes -> [Slots -> SUBSET Objects]]
        /\ used_slots' \in [Classes -> Nat]
        /\ used_slots' = [used_slots EXCEPT ![v] = used_slots[v] - 1]
    BY <1>1, <1>3, <2>1, <2>2, EntryDropped
  <2>4. ClassTypes'
    BY <1>1, <1>2, <1>3, <2>1, <2>2, <2>3 DEF ClassTypes
  <2>5. SlotBounds'
    BY <1>1, <1>3, <2>1, <2>2, <2>3, MaxCacheSize DEF ClassTypes, SlotBounds
  <2>6. CallTypes' /\ CallState'
    <3>1. CallTypes'
      BY <1>1, <1>2, <1>3, <2>1, <2>3 DEF CallTypes, Labels
    <3>2. CallState'
      BY <1>1, <1>2, <1>3, <2>1, <2>3 DEF CallState, Labels
    <3> QED
      BY <3>1, <3>2
  <2>7. LockDiscipline'
    BY <1>1, <1>2, <1>3, <2>1, ConstantsAssumption
    DEF ConstantsAssumption, LockDiscipline, ClassTypes, CallTypes, Needs, ReleaseClass
  <2> QED
    BY <1>4, <2>4, <2>5, <2>6, <2>7 DEF IInv, TypeOK
<1>7. CASE ~refused /\ ~full
  <2>1. /\ cache_size' = [cache_size EXCEPT ![v] = cache_size[v] - 1]
        /\ evicted' = [evicted EXCEPT ![t] = TRUE]
        /\ pc' = [pc EXCEPT ![t] = "relock"]
        /\ UNCHANGED <<lock, used_slots, tc_slots, todo>>
    BY <1>7 DEF ShrinkCache, GiveSlot, Goto
  <2>2. /\ cache_size[v] \in Nat \ {0} /\ used_slots[v] \in Nat
        /\ used_slots[v] <= cache_size[v] - 1
    <3>1. /\ used_slots[v] \in Nat /\ cache_size[v] \in Nat
          /\ used_slots[v] <= cache_size[v]
      BY <1>1, <1>3 DEF ClassTypes, SlotBounds
    <3> QED
      BY <1>7, <3>1
  <2>3. ClassTypes'
    BY <1>1, <1>2, <1>3, <2>1, <2>2 DEF ClassTypes
  <2>4. SlotBounds'
    BY <1>1, <1>3, <2>1, <2>2, MaxCacheSize DEF ClassTypes, SlotBounds
  <2>5. CallTypes' /\ CallState'
    <3>1. CallTypes'
      BY <1>1, <1>2, <1>3, <2>1 DEF CallTypes, Labels
    <3>2. CallState'
      BY <1>1, <1>2, <1>3, <2>1 DEF CallState, Labels
    <3> QED
      BY <3>1, <3>2
  <2>6. LockDiscipline'
    BY <1>1, <1>2, <2>1 DEF LockDiscipline, CallTypes, Needs, ReleaseClass
  <2> QED
    BY <1>4, <2>3, <2>4, <2>5, <2>6 DEF IInv, TypeOK
<1> QED
  BY <1>5, <1>6, <1>7

(* MakeCacheSpace grows the cache only after its second look, so that the  *)
(* entry fits; otherwise it keeps the lock it has retaken.                 *)
LEMMA MakeCacheSpaceStep ==
  ASSUME IInv, NEW t \in Threads, MakeCacheSpace(t)
  PROVE  IInv'
<1> DEFINE c == cl[t]
<1>1. ClassTypes /\ SpanTypes /\ CallTypes /\ CallState /\ SlotBounds /\ LockDiscipline
  BY DEF IInv, TypeOK
<1>2. /\ pc[t] = "relock"
      /\ lock[c] = NoThread
      /\ UNCHANGED <<counter, num_spans, spanVars, outside>>
  BY DEF MakeCacheSpace
<1>3. c \in Classes /\ batch[t] \in SUBSET Objects
  BY <1>1, <1>2 DEF CallState, CallTypes
<1>4. SpanTypes'
  BY <1>1, <1>2 DEF SpanTypes, spanVars
<1>5. CASE evicted[t] /\ MayGrow(c)
  <2>1. /\ cache_size' = [cache_size EXCEPT ![c] = cache_size[c] + 1]
        /\ PutEntry(c, batch[t])
        /\ Return(t)
        /\ UNCHANGED lock
    BY <1>5 DEF MakeCacheSpace
  <2>2. /\ tc_slots' \in [Classes -> [Slots -> SUBSET Objects]]
        /\ used_slots' \in [Classes -> Nat]
        /\ used_slots' = [used_slots EXCEPT ![c] = used_slots[c] + 1]
    BY <1>1, <1>3, <2>1, EntryPut
  <2>3. ClassTypes'
    BY <1>1, <1>2, <1>3, <2>1, <2>2 DEF ClassTypes
  <2>4. SlotBounds'
    BY <1>1, <1>3, <1>5, <2>1, <2>2, MaxCacheSize DEF ClassTypes, SlotBounds, MayGrow
  <2>5. CallTypes'
    BY <1>1, <2>1 DEF CallTypes, Labels, Return, Goto
  <2>6. CallState'
    BY <1>1, <2>1 DEF CallTypes, CallState, Return, Goto
  <2>7. LockDiscipline'
    BY <1>1, <1>2, <2>1 DEF LockDiscipline, CallTypes, Needs, ReleaseClass, Return, Goto
  <2> QED
    BY <1>4, <2>3, <2>4, <2>5, <2>6, <2>7 DEF IInv, TypeOK
<1>6. CASE ~(evicted[t] /\ MayGrow(c))
  <2>1. /\ lock' = [lock EXCEPT ![c] = t]
        /\ IF evicted[t] THEN ReleaseOwnRange(t, batch[t]) ELSE EvictFailed(t)
        /\ evicted' = [evicted EXCEPT ![t] = FALSE]
        /\ UNCHANGED <<cache_size, used_slots, tc_slots, cl, want, populated, span>>
    BY <1>6 DEF MakeCacheSpace
  <2>2. /\ victim' = [victim EXCEPT ![t] = NoClass]
        /\ \/ /\ pc' = [pc EXCEPT ![t] = "release"]
              /\ batch' = [batch EXCEPT ![t] = {}]
              /\ todo' = [todo EXCEPT ![t] = batch[t]]
              /\ force' = [force EXCEPT ![t] = FALSE]
           \/ /\ pc' = [pc EXCEPT ![t] = "evict"]
              /\ force' = [force EXCEPT ![t] = TRUE]
              /\ UNCHANGED <<batch, todo>>
    BY <2>1 DEF ReleaseOwnRange, EvictFailed, Goto
  <2>3. ClassTypes' /\ SlotBounds'
    <3>1. ClassTypes'
      BY <1>1, <1>2, <2>1 DEF ClassTypes
    <3>2. SlotBounds'
      BY <1>1, <1>2, <2>1, BoundsSame
    <3> QED
      BY <3>1, <3>2
  <2>4. CallTypes' /\ CallState'
    <3>1. CallTypes'
      BY <1>1, <1>3, <2>1, <2>2 DEF CallTypes, Labels
    <3>2. CallState'
      BY <1>1, <1>3, <2>1, <2>2 DEF CallTypes, CallState, Labels
    <3> QED
      BY <3>1, <3>2
  <2>5. LockDiscipline'
    BY <1>1, <1>2, <1>3, <2>1, <2>2, ConstantsAssumption
    DEF ConstantsAssumption, LockDiscipline, ClassTypes, CallTypes, Needs, ReleaseClass
  <2> QED
    BY <1>4, <2>3, <2>4, <2>5 DEF IInv, TypeOK
<1> QED
  BY <1>5, <1>6

(* ReleaseToSpans of one object; the lock is gone when its span is.        *)
LEMMA ReleaseToSpansStep ==
  ASSUME IInv, NEW t \in Threads, ReleaseToSpans(t)
  PROVE  IInv'
<1> DEFINE c == ReleaseClass(t)
<1>1. ClassTypes /\ SpanTypes /\ CallTypes /\ CallState /\ SlotBounds /\ LockDiscipline
  BY DEF IInv, TypeOK
<1>2. /\ pc[t] = "release"
      /\ UNCHANGED <<cache_size, used_slots, tc_slots, sizeclass, outside, cl, batch,
                     want, victim, force, evicted, populated>>
  BY DEF ReleaseToSpans
<1>3. c \in Classes
  BY <1>1, <1>2 DEF CallTypes, CallState, ReleaseClass
<1>4. PICK o \in todo[t] :
        /\ todo' = [todo EXCEPT ![t] = todo[t] \ {o}]
        /\ refcount' = [refcount EXCEPT ![o[1]] = refcount[o[1]] - 1]
        /\ \/ /\ SpanFreed(c, o[1])
              /\ lock' = [lock EXCEPT ![c] = NoThread]
              /\ pc' = [pc EXCEPT ![t] = "delete"]
              /\ span' = [span EXCEPT ![t] = o[1]]
              /\ UNCHANGED objects
           \/ /\ counter' = [counter EXCEPT ![c] = counter[c] + 1]
              /\ ObjectReleased(o[1], o)
              /\ UNCHANGED <<lock, num_spans, pc, span>>
  BY DEF ReleaseToSpans, Drop
<1>5. o \in Objects /\ o[1] \in Spans
  BY <1>1, CarveObjects DEF CallTypes
<1>6. ObjectsPerSpan[c] \in Nat
  BY <1>3, ConstantsAssumption DEF ConstantsAssumption
<1>7. ClassTypes' /\ SlotBounds'
  <2> HIDE DEF c
  <2>1. /\ lock' = lock \/ lock' = [lock EXCEPT ![c] = NoThread]
        /\ num_spans' = num_spans \/ num_spans' = [num_spans EXCEPT ![c] = num_spans[c] - 1]
        /\ \/ counter' = [counter EXCEPT ![c] = counter[c] + 1]
           \/ counter' = [counter EXCEPT ![c] = counter[c] + 1 - ObjectsPerSpan[c]]
    BY <1>4 DEF SpanFreed
  <2>2. counter' \in [Classes -> Int]
    BY <1>1, <1>3, <1>6, <2>1 DEF ClassTypes
  <2>3. num_spans' \in [Classes -> Int]
    BY <1>1, <1>3, <2>1 DEF ClassTypes
  <2>4. lock' \in [Classes -> Threads \cup {NoThread}]
    BY <1>1, <2>1 DEF ClassTypes
  <2>5. ClassTypes'
    BY <1>1, <1>2, <2>2, <2>3, <2>4 DEF ClassTypes
  <2>6. SlotBounds'
    BY <1>1, <1>2, BoundsSame
  <2> QED
    BY <2>5, <2>6
<1>8. SpanTypes'
  <2>1. refcount' \in [Spans -> Int]
    BY <1>1, <1>4, <1>5 DEF SpanTypes
  <2>2. list' \in [Spans -> {"none", "empty", "nonempty"}]
    BY <1>1, <1>4, <1>5 DEF SpanTypes, SpanFreed, ObjectReleased
  <2>3. objects' \in [Spans -> SUBSET Objects]
    <3>1. objects[o[1]] \cup {o} \in SUBSET Objects
      BY <1>1, <1>5 DEF SpanTypes
    <3>2. objects' = objects \/ objects' = [objects EXCEPT ![o[1]] = objects[o[1]] \cup {o}]
      BY <1>4 DEF ObjectReleased
    <3> QED
      BY <1>1, <3>1, <3>2 DEF SpanTypes
  <2> QED
    BY <1>1, <1>2, <2>1, <2>2, <2>3 DEF SpanTypes
<1>9. CallTypes' /\ CallState'
  <2>1. CallTypes'
    BY <1>1, <1>2, <1>4, <1>5 DEF CallTypes, Labels
  <2>2. CallState'
    BY <1>1, <1>2, <1>4, <1>5 DEF CallTypes, CallState, Labels
  <2> QED
    BY <2>1, <2>2
<1>10. LockDiscipline'
  <2>1. CASE UNCHANGED <<lock, pc>>
    BY <1>1, <1>2, <2>1, ControlSame
  <2>2. CASE lock' = [lock EXCEPT ![c] = NoThread] /\ pc' = [pc EXCEPT ![t] = "delete"]
    <3>1. ASSUME NEW u \in Threads, NEW d \in Classes
          PROVE  (lock[d] = u <=> Needs(u, d)) /\ (Needs(t, d) <=> c = d)
      BY <1>1, <1>2, <3>1 DEF LockDiscipline, Needs
    <3>2. ASSUME NEW u \in Threads, NEW d \in Classes
          PROVE  Needs(u, d)' <=> (u # t /\ Needs(u, d))
      BY <1>1, <1>2, <2>2, <3>2 DEF CallTypes, Needs, ReleaseClass
    <3>3. ASSUME NEW u \in Threads, NEW d \in Classes
          PROVE  lock'[d] = u <=> (d # c /\ lock[d] = u)
      <4> HIDE DEF c
      <4> QED
        BY <1>1, <2>2, <3>3, ConstantsAssumption DEF ConstantsAssumption, ClassTypes
    <3>4. \A d \in Classes : d = c => lock[d] = t
      BY <3>1
    <3> HIDE DEF c
    <3>5. ASSUME NEW u \in Threads, NEW d \in Classes
          PROVE  lock'[d] = u <=> Needs(u, d)'
      BY <3>1, <3>2, <3>3, <3>4, <3>5
    <3> QED
      BY <3>5 DEF LockDiscipline
  <2> QED
    BY <1>4, <2>1, <2>2
<1> QED
  BY <1>7, <1>8, <1>9, <1>10 DEF IInv, TypeOK

(* The page heap's Delete, without a lock, ...                             *)
LEMMA DeleteSpanStep ==
  ASSUME IInv, NEW t \in Threads, DeleteSpan(t)
  PROVE  IInv'
<1> USE DEF DeleteSpan, Goto, classVars
<1>1. ClassTypes /\ SpanTypes /\ CallTypes /\ CallState /\ SlotBounds /\ LockDiscipline
  BY DEF IInv, TypeOK
<1>2. ClassTypes' /\ SlotBounds'
  <2>1. ClassTypes'
    BY <1>1 DEF ClassTypes
  <2>2. SlotBounds'
    BY <1>1, BoundsSame
  <2> QED
    BY <2>1, <2>2
<1>3. SpanTypes'
  BY <1>1 DEF SpanTypes
<1>4. CallTypes' /\ CallState'
  <2>1. CallTypes'
    BY <1>1 DEF CallTypes, Labels
  <2>2. CallState'
    BY <1>1 DEF CallState, Labels
  <2> QED
    BY <2>1, <2>2
<1>5. LockDiscipline'
  BY <1>1 DEF LockDiscipline, CallTypes, Needs, ReleaseClass
<1> QED
  BY <1>2, <1>3, <1>4, <1>5 DEF IInv, TypeOK

(* ... the lock retaken after it, ...                                      *)
LEMMA RelockStep ==
  ASSUME IInv, NEW t \in Threads, RelockAfterDelete(t)
  PROVE  IInv'
<1> USE DEF RelockAfterDelete, Take, Goto, classVars, spanVars, callVars
<1>1. ClassTypes /\ SpanTypes /\ CallTypes /\ CallState /\ SlotBounds /\ LockDiscipline
  BY DEF IInv, TypeOK
<1>2. ClassTypes' /\ SlotBounds'
  <2>1. ClassTypes'
    BY <1>1 DEF ClassTypes
  <2>2. SlotBounds'
    BY <1>1, BoundsSame
  <2> QED
    BY <2>1, <2>2
<1>3. SpanTypes'
  BY <1>1 DEF SpanTypes
<1>4. CallTypes' /\ CallState'
  <2>1. CallTypes'
    BY <1>1 DEF CallTypes, Labels
  <2>2. CallState'
    BY <1>1 DEF CallState, Labels
  <2> QED
    BY <2>1, <2>2
<1>5. LockDiscipline'
  BY <1>1, ConstantsAssumption
  DEF ConstantsAssumption, LockDiscipline, ClassTypes, CallTypes, Needs, ReleaseClass
<1> QED
  BY <1>2, <1>3, <1>4, <1>5 DEF IInv, TypeOK

(* ... and the end of ReleaseListToSpans: InsertRange returns, or          *)
(* ShrinkCache gives the victim's lock up.                                 *)
LEMMA ReleaseListDoneStep ==
  ASSUME IInv, NEW t \in Threads, ReleaseListDone(t)
  PROVE  IInv'
<1>1. ClassTypes /\ SpanTypes /\ CallTypes /\ CallState /\ SlotBounds /\ LockDiscipline
  BY DEF IInv, TypeOK
<1>2. /\ pc[t] = "release"
      /\ lock' = [lock EXCEPT ![ReleaseClass(t)] = NoThread]
      /\ UNCHANGED <<classVars, spanVars, outside>>
  BY DEF ReleaseListDone, Drop
<1>3. ClassTypes' /\ SlotBounds'
  <2>1. ClassTypes'
    BY <1>1, <1>2 DEF ClassTypes, classVars
  <2>2. SlotBounds'
    BY <1>1, <1>2, BoundsSame DEF classVars
  <2> QED
    BY <2>1, <2>2
<1>4. SpanTypes'
  BY <1>1, <1>2 DEF SpanTypes, spanVars
<1>5. CASE victim[t] = NoClass
  <2>1. Return(t)
    BY <1>5 DEF ReleaseListDone
  <2>2. CallTypes' /\ CallState'
    <3>1. CallTypes'
      BY <1>1, <2>1 DEF CallTypes, Labels, Return, Goto
    <3>2. CallState'
      BY <1>1, <2>1 DEF CallTypes, CallState, Labels, Return, Goto
    <3> QED
      BY <3>1, <3>2
  <2>3. LockDiscipline'
    BY <1>1, <1>2, <2>1, ConstantsAssumption
    DEF ConstantsAssumption, LockDiscipline, ClassTypes, CallTypes, Needs, ReleaseClass,
        Return, Goto
  <2> QED
    BY <1>3, <1>4, <2>2, <2>3 DEF IInv, TypeOK
<1>6. CASE victim[t] # NoClass
  <2>1. pc' = [pc EXCEPT ![t] = "relock"] /\ UNCHANGED callVars
    BY <1>6 DEF ReleaseListDone, Goto
  <2>2. CallTypes' /\ CallState'
    <3>1. CallTypes'
      BY <1>1, <1>2, <2>1 DEF CallTypes, Labels, callVars
    <3>2. CallState'
      BY <1>1, <1>2, <2>1 DEF CallState, Labels, callVars
    <3> QED
      BY <3>1, <3>2
  <2>3. LockDiscipline'
    BY <1>1, <1>2, <2>1, ConstantsAssumption
    DEF ConstantsAssumption, LockDiscipline, ClassTypes, CallTypes, Needs, ReleaseClass,
        callVars
  <2> QED
    BY <1>3, <1>4, <2>2, <2>3 DEF IInv, TypeOK
<1> QED
  BY <1>5, <1>6

(* The call of RemoveRange: an entry, or the lock for a fetch.             *)
LEMMA RemoveRangeStep ==
  ASSUME IInv, NEW t \in Threads, NEW c \in Classes, NEW n \in Nat, RemoveRange(t, c, n)
  PROVE  IInv'
<1>1. ClassTypes /\ SpanTypes /\ CallTypes /\ CallState /\ SlotBounds /\ LockDiscipline
  BY DEF IInv, TypeOK
<1>2. /\ pc[t] = "idle"
      /\ lock[c] = NoThread
      /\ UNCHANGED <<cache_size, counter, num_spans, spanVars, batch, todo, victim, force,
                     evicted, populated, span>>
  BY DEF RemoveRange
<1>3. CASE n = num_objects_to_move[c] /\ used_slots[c] > 0
  <2>1. /\ DropEntry(c)
        /\ outside' = outside \cup tc_slots[c][used_slots[c] - 1]
        /\ UNCHANGED <<lock, pc, cl, want>>
    BY <1>3 DEF RemoveRange
  <2>2. /\ tc_slots[c][used_slots[c] - 1] \in SUBSET Objects
        /\ tc_slots' \in [Classes -> [Slots -> SUBSET Objects]]
        /\ used_slots' \in [Classes -> Nat]
        /\ used_slots' = [used_slots EXCEPT ![c] = used_slots[c] - 1]
    BY <1>1, <1>3, <2>1, EntryDropped
  <2>3. ClassTypes' /\ SlotBounds'
    <3>1. ClassTypes'
      BY <1>1, <1>2, <2>1, <2>2 DEF ClassTypes
    <3>2. used_slots[c] - 1 \in Nat /\ used_slots[c] - 1 <= cache_size[c]
      <4>1. used_slots[c] \in Nat /\ cache_size[c] \in Nat /\ used_slots[c] <= cache_size[c]
        BY <1>1 DEF ClassTypes, SlotBounds
      <4> QED
        BY <1>3, <4>1
    <3>3. SlotBounds'
      BY <1>1, <1>2, <2>2, <3>2, BoundsUsed
    <3> QED
      BY <3>1, <3>3
  <2>4. SpanTypes'
    BY <1>1, <1>2, <2>1, <2>2 DEF SpanTypes, spanVars
  <2>5. CallTypes'
    BY <1>1, <1>2, <2>1 DEF CallTypes
  <2>6. CallState' /\ LockDiscipline'
    BY <1>1, <1>2, <2>1, ControlSame
  <2> QED
    BY <2>3, <2>4, <2>5, <2>6 DEF IInv, TypeOK
<1>4. CASE ~(n = num_objects_to_move[c] /\ used_slots[c] > 0)
  <2>1. /\ lock' = [lock EXCEPT ![c] = t]
        /\ cl' = [cl EXCEPT ![t] = c]
        /\ want' = [want EXCEPT ![t] = n]
        /\ pc' = [pc EXCEPT ![t] = "fetch"]
        /\ UNCHANGED <<used_slots, tc_slots, outside>>
    BY <1>4 DEF RemoveRange, Goto
  <2>2. ClassTypes' /\ SlotBounds'
    <3>1. ClassTypes'
      BY <1>1, <1>2, <2>1 DEF ClassTypes
    <3>2. SlotBounds'
      BY <1>1, <1>2, <2>1, BoundsSame
    <3> QED
      BY <3>1, <3>2
  <2>3. SpanTypes'
    BY <1>1, <1>2, <2>1 DEF SpanTypes, spanVars
  <2>4. CallTypes' /\ CallState'
    <3>1. CallTypes'
      BY <1>1, <1>2, <2>1 DEF CallTypes, Labels
    <3>2. CallState'
      BY <1>1, <1>2, <2>1 DEF CallTypes, CallState, Labels
    <3> QED
      BY <3>1, <3>2
  <2>5. LockDiscipline'
    BY <1>1, <1>2, <2>1, ConstantsAssumption
    DEF ConstantsAssumption, LockDiscipline, ClassTypes, CallTypes, Needs, ReleaseClass
  <2> QED
    BY <2>2, <2>3, <2>4, <2>5 DEF IInv, TypeOK
<1> QED
  BY <1>3, <1>4

(* FetchFromOneSpans, under the lock from beginning to end.                *)
LEMMA FetchStep ==
  ASSUME IInv, NEW t \in Threads, FetchFromOneSpans(t)
  PROVE  IInv'
<1> DEFINE n(s) == Min(want[t] - Cardinality(batch[t]), Cardinality(objects[s]))
<1>1. ClassTypes /\ SpanTypes /\ CallTypes /\ CallState /\ SlotBounds /\ LockDiscipline
  BY DEF IInv, TypeOK
<1>2. /\ pc[t] = "fetch"
      /\ UNCHANGED <<lock, cache_size, used_slots, tc_slots, num_spans, sizeclass,
                     outside, pc, cl, want, todo, victim, force, evicted, populated, span>>
  BY DEF FetchFromOneSpans
<1>3. cl[t] \in Classes
  BY <1>1, <1>2 DEF CallState
<1>4. PICK s \in Spans : \E S \in SUBSET objects[s] :
        /\ batch' = [batch EXCEPT ![t] = batch[t] \cup S]
        /\ objects' = [objects EXCEPT ![s] = objects[s] \ S]
        /\ list' = [list EXCEPT ![s] = IF S = objects[s] THEN "empty" ELSE "nonempty"]
        /\ refcount' = [refcount EXCEPT ![s] = refcount[s] + n(s)]
        /\ counter' = [counter EXCEPT ![cl[t]] = counter[cl[t]] - n(s)]
  BY DEF FetchFromOneSpans, Nonempty
<1>5. n(s) \in Int
  <2>1. Cardinality(batch[t]) \in Nat /\ Cardinality(objects[s]) \in Nat /\ want[t] \in Nat
    BY <1>1, ObjectCount DEF CallTypes, SpanTypes
  <2> QED
    BY <2>1 DEF Min
<1> HIDE DEF n
<1>6. ClassTypes' /\ SlotBounds'
  <2>1. counter[cl[t]] - n(s) \in Int
    BY <1>1, <1>3, <1>5 DEF ClassTypes
  <2>2. counter' \in [Classes -> Int]
    BY <1>1, <1>4, <2>1 DEF ClassTypes
  <2>3. ClassTypes'
    BY <1>1, <1>2, <2>2 DEF ClassTypes
  <2>4. SlotBounds'
    BY <1>1, <1>2, BoundsSame
  <2> QED
    BY <2>3, <2>4
<1>7. SpanTypes'
  <2>1. refcount[s] + n(s) \in Int
    BY <1>1, <1>5 DEF SpanTypes
  <2>2. refcount' \in [Spans -> Int]
    BY <1>1, <1>4, <2>1 DEF SpanTypes
  <2>3. list' \in [Spans -> {"none", "empty", "nonempty"}]
    BY <1>1, <1>4 DEF SpanTypes
  <2>4. objects' \in [Spans -> SUBSET Objects]
    BY <1>1, <1>4 DEF SpanTypes
  <2> QED
    BY <1>1, <1>2, <2>2, <2>3, <2>4 DEF SpanTypes
<1>8. CallTypes'
  BY <1>1, <1>2, <1>4 DEF CallTypes, SpanTypes
<1>9. CallState' /\ LockDiscipline'
  BY <1>1, <1>2, ControlSame
<1> QED
  BY <1>6, <1>7, <1>8, <1>9 DEF IInv, TypeOK

(* Populate: the lock is given up, ...                                     *)
LEMMA PopulateStartStep ==
  ASSUME IInv, NEW t \in Threads, PopulateStart(t)
  PROVE  IInv'
<1> USE DEF PopulateStart, Drop, Goto, classVars, spanVars, callVars
<1>1. ClassTypes /\ SpanTypes /\ CallTypes /\ CallState /\ SlotBounds /\ LockDiscipline
  BY DEF IInv, TypeOK
<1>2. ClassTypes' /\ SlotBounds'
  <2>1. ClassTypes'
    BY <1>1 DEF ClassTypes
  <2>2. SlotBounds'
    BY <1>1, BoundsSame
  <2> QED
    BY <2>1, <2>2
<1>3. SpanTypes'
  BY <1>1 DEF SpanTypes
<1>4. CallTypes' /\ CallState'
  <2>1. CallTypes'
    BY <1>1 DEF CallTypes, Labels
  <2>2. CallState'
    BY <1>1 DEF CallState, Labels
  <2> QED
    BY <2>1, <2>2
<1>5. LockDiscipline'
  BY <1>1, ConstantsAssumption
  DEF ConstantsAssumption, LockDiscipline, ClassTypes, CallTypes, Needs, ReleaseClass
<1> QED
  BY <1>2, <1>3, <1>4, <1>5 DEF IInv, TypeOK

(* ... a span is got and carved, or there is none, ...                     *)
LEMMA PopulateStep ==
  ASSUME IInv, NEW t \in Threads, Populate(t)
  PROVE  IInv'
<1>1. ClassTypes /\ SpanTypes /\ CallTypes /\ CallState /\ SlotBounds /\ LockDiscipline
  BY DEF IInv, TypeOK
<1>2. /\ pc[t] = "populate"
      /\ pc' = [pc EXCEPT ![t] = "repopulate"]
      /\ UNCHANGED <<lock, classVars, list, outside, cl, batch, want, todo, victim, force,
                     evicted>>
  BY DEF Populate, Goto
<1>3. ClassTypes' /\ SlotBounds'
  <2>1. ClassTypes'
    BY <1>1, <1>2 DEF ClassTypes, classVars
  <2>2. SlotBounds'
    BY <1>1, <1>2, BoundsSame DEF classVars
  <2> QED
    BY <2>1, <2>2
<1>4. cl[t] \in Classes
  BY <1>1, <1>2 DEF CallState
<1>5. CallState' /\ LockDiscipline'
  BY <1>1, <1>2, <1>4 DEF CallState, CallTypes, LockDiscipline, Needs, ReleaseClass
<1>6. ASSUME NEW s \in Spans,
             sizeclass' = [sizeclass EXCEPT ![s] = cl[t]],
             objects' = [objects EXCEPT ![s] = Carve(s, cl[t])],
             refcount' = [refcount EXCEPT ![s] = 0],
             span' = [span EXCEPT ![t] = s],
             UNCHANGED populated
      PROVE  SpanTypes' /\ CallTypes'
  <2>1. Carve(s, cl[t]) \in SUBSET Objects
    BY <1>4, CarveObjects
  <2>2. SpanTypes'
    BY <1>1, <1>2, <1>4, <1>6, <2>1 DEF SpanTypes
  <2>3. CallTypes'
    BY <1>1, <1>2, <1>6 DEF CallTypes, Labels
  <2> QED
    BY <2>2, <2>3
<1>7. ASSUME populated' = [populated EXCEPT ![t] = "failed"],
             UNCHANGED <<sizeclass, objects, refcount, span>>
      PROVE  SpanTypes' /\ CallTypes'
  BY <1>1, <1>2, <1>7 DEF SpanTypes, CallTypes, Labels
<1>8. SpanTypes' /\ CallTypes'
  BY <1>6, <1>7 DEF Populate
<1> QED
  BY <1>3, <1>5, <1>8 DEF IInv, TypeOK

(* ... and the lock is retaken.                                            *)
LEMMA PopulateDoneStep ==
  ASSUME IInv, NEW t \in Threads, PopulateDone(t)
  PROVE  IInv'
<1>1. ClassTypes /\ SpanTypes /\ CallTypes /\ CallState /\ SlotBounds /\ LockDiscipline
  BY DEF IInv, TypeOK
<1>2. /\ pc[t] = "repopulate"
      /\ lock[cl[t]] = NoThread
      /\ lock' = [lock EXCEPT ![cl[t]] = t]
      /\ pc' = [pc EXCEPT ![t] = "fetch"]
      /\ UNCHANGED <<cache_size, used_slots, tc_slots, sizeclass, objects, refcount,
                     outside, cl, batch, want, todo, victim, force, evicted>>
  BY DEF PopulateDone, Take, Goto
<1>3. cl[t] \in Classes /\ ObjectsPerSpan[cl[t]] \in Nat
  BY <1>1, <1>2, ConstantsAssumption DEF CallState, ConstantsAssumption
<1>4. \/ UNCHANGED <<list, num_spans, counter, span, populated>>
      \/ /\ span[t] # NoSpan
         /\ list' = [list EXCEPT ![span[t]] = "nonempty"]
         /\ num_spans' = [num_spans EXCEPT ![cl[t]] = num_spans[cl[t]] + 1]
         /\ counter' = [counter EXCEPT ![cl[t]] = counter[cl[t]] + ObjectsPerSpan[cl[t]]]
         /\ span' = [span EXCEPT ![t] = NoSpan]
         /\ populated' = [populated EXCEPT ![t] = "ok"]
  BY DEF PopulateDone, SpanAdded
<1>5. ClassTypes' /\ SlotBounds'
  <2>1. /\ counter[cl[t]] + ObjectsPerSpan[cl[t]] \in Int
        /\ num_spans[cl[t]] + 1 \in Int
    BY <1>1, <1>3 DEF ClassTypes
  <2>2. counter' \in [Classes -> Int] /\ num_spans' \in [Classes -> Int]
    BY <1>1, <1>4, <2>1 DEF ClassTypes
  <2>3. lock' \in [Classes -> Threads \cup {NoThread}]
    BY <1>1, <1>2 DEF ClassTypes
  <2>4. ClassTypes'
    BY <1>1, <1>2, <2>2, <2>3 DEF ClassTypes
  <2>5. SlotBounds'
    BY <1>1, <1>2, BoundsSame
  <2> QED
    BY <2>4, <2>5
<1>6. SpanTypes'
  BY <1>1, <1>2, <1>4 DEF SpanTypes
<1>7. CallTypes' /\ CallState'
  <2>1. CallTypes'
    BY <1>1, <1>2, <1>3, <1>4 DEF CallTypes, Labels
  <2>2. CallState'
    BY <1>1, <1>2, <1>3 DEF CallTypes, CallState
  <2> QED
    BY <2>1, <2>2
<1>8. LockDiscipline'
  <2>1. \A d \in Classes : (Needs(t, d)' <=> d = cl[t]) /\ ~Needs(t, d)
    BY <1>1, <1>2 DEF CallTypes, Needs
  <2>2. \A u \in Threads \ {t}, d \in Classes : Needs(u, d)' <=> Needs(u, d)
    BY <1>1, <1>2 DEF CallTypes, Needs, ReleaseClass
  <2> QED
    BY <1>1, <1>2, <1>3, <2>1, <2>2, LockTaken
<1> QED
  BY <1>5, <1>6, <1>7, <1>8 DEF IInv, TypeOK

(* RemoveRange returns and gives the lock up.                              *)
LEMMA RemoveRangeDoneStep ==
  ASSUME IInv, NEW t \in Threads, RemoveRangeDone(t)
  PROVE  IInv'
<1>1. ClassTypes /\ SpanTypes /\ CallTypes /\ CallState /\ SlotBounds /\ LockDiscipline
  BY DEF IInv, TypeOK
<1>2. /\ pc[t] = "fetch"
      /\ outside' = outside \cup batch[t]
      /\ lock' = [lock EXCEPT ![cl[t]] = NoThread]
      /\ Return(t)
      /\ UNCHANGED <<classVars, spanVars>>
  BY DEF RemoveRangeDone, Drop
<1>3. ClassTypes' /\ SlotBounds'
  <2>1. ClassTypes'
    BY <1>1, <1>2 DEF ClassTypes, classVars
  <2>2. SlotBounds'
    BY <1>1, <1>2, BoundsSame DEF classVars
  <2> QED
    BY <2>1, <2>2
<1>4. SpanTypes'
  BY <1>1, <1>2 DEF SpanTypes, CallTypes, spanVars
<1>5. CallTypes' /\ CallState'
  <2>1. CallTypes'
    BY <1>1, <1>2 DEF CallTypes, Labels, Return, Goto
  <2>2. CallState'
    BY <1>1, <1>2 DEF CallTypes, CallState, Labels, Return, Goto
  <2> QED
    BY <2>1, <2>2
<1>6. LockDiscipline'
  BY <1>1, <1>2, ConstantsAssumption
  DEF ConstantsAssumption, LockDiscipline, ClassTypes, CallTypes, Needs, ReleaseClass,
      Return, Goto
<1> QED
  BY <1>3, <1>4, <1>5, <1>6 DEF IInv, TypeOK

(* Together: every step keeps IInv.                                        *)
LEMMA IInvStep == IInv /\ [Next]_vars => IInv'
<1> SUFFICES ASSUME IInv, [Next]_vars PROVE IInv'
  OBVIOUS
<1>1. CASE UNCHANGED vars
  <2>1. TypeOK'
    BY <1>1 DEF IInv, TypeOK, ClassTypes, SpanTypes, CallTypes, vars, classVars, spanVars,
       callVars
  <2>2. CallState' /\ SlotBounds' /\ LockDiscipline'
    BY <1>1, BoundsSame, ControlSame DEF IInv, vars, classVars, callVars
  <2> QED
    BY <2>1, <2>2 DEF IInv
<1>2. ASSUME NEW t \in Threads, Call(t) PROVE IInv'
  <2>1. \A c \in Classes : 1 .. num_objects_to_move[c] \subseteq Nat
    BY ConstantsAssumption DEF ConstantsAssumption
  <2> QED
    BY <1>2, <2>1, InsertRangeStep, RemoveRangeStep DEF Call
<1>3. ASSUME NEW t \in Threads, Step(t) PROVE IInv'
  BY <1>3, EvictStep, ShrinkCacheStep, MakeCacheSpaceStep, ReleaseToSpansStep,
     DeleteSpanStep, RelockStep, ReleaseListDoneStep, FetchStep, PopulateStartStep,
     PopulateStep, PopulateDoneStep, RemoveRangeDoneStep DEF Step
<1> QED
  BY <1>1, <1>2, <1>3 DEF Next

(* The invariant of the central free lists' locks and transfer caches,     *)
(* through every interleaving of InsertRange and RemoveRange.              *)
THEOREM SpecIInv == Spec => []IInv
BY InitIInv, IInvStep, PTL DEF Spec

(* The members and locals of the central free lists keep their types; in   *)
(* particular no slot count goes below zero.                               *)
THEOREM CentralTypeOK == Spec => []TypeOK
BY SpecIInv, PTL DEF IInv

(* "we never hold two size class locks concurrently" (ShrinkCache), for    *)
(* any number of threads and classes: a thread holds the lock of the list  *)
(* it works on and no other.                                               *)
THEOREM CentralLockDiscipline == Spec => []LockDiscipline
BY SpecIInv, PTL DEF IInv

(* The assertions of ShrinkCache and InsertRange hold for any sizes:       *)
(* tc_slots_ is never indexed out of its bounds.                           *)
THEOREM CentralSlotBounds == Spec => []SlotBounds
BY SpecIInv, PTL DEF IInv
================================================================================
