-------------------------- MODULE TaskQueue_proofs --------------------------
(***************************************************************************)
(* Proofs about TaskQueue, for every number of producers, consumers and    *)
(* slots: types, exclusion, the accounting of the slots, the distance      *)
(* between the two pointers, the absence of deadlock, and the refinement   *)
(* of BoundedFifo.                                                         *)
(***************************************************************************)
EXTENDS TaskQueue, FiniteSetTheorems, SequenceTheorems, TLAPS

Sites == {"idle"} \cup PushSites \cup PopSites

(* TypeOK with the bounds of the semaphores left to Accounting. *)
Typing ==
    /\ semProducer \in Nat
    /\ semConsumer \in Nat
    /\ mutexProducer \in Producers \cup {Nobody}
    /\ mutexConsumer \in Consumers \cup {Nobody}
    /\ cache \in [Slots -> Items \cup {NoItem}]
    /\ cacheProducer \in Slots
    /\ cacheConsumer \in Slots
    /\ pc \in [Threads -> Sites]
    /\ \A t \in Producers : pc[t] \notin PopSites
    /\ \A t \in Consumers : pc[t] \notin PushSites
    /\ ac \in [Threads -> Items \cup {NoItem}]
    /\ \A t \in Threads : pc[t] \in PushSites => ac[t] \in Items

-----------------------------------------------------------------------------
(* Counting threads *)

(* There are finitely many threads. *)
LEMMA FiniteThreads == IsFiniteSet(Threads)
  BY ThreadsAssumption, FS_Union DEF Threads

(* A count of threads is a natural number. *)
LEMMA CountNat == ASSUME NEW S PROVE Count(S) \in Nat
<1>1. IsFiniteSet(At(S))  BY FiniteThreads, FS_Subset DEF At
<1> QED  BY <1>1, FS_CardinalityType DEF Count

(* A thread among those counted makes the count positive. *)
LEMMA CountPositive ==
  ASSUME NEW S, NEW t \in Threads, pc[t] \in S
  PROVE  Count(S) >= 1
<1>1. t \in At(S)  BY DEF At
<1>2. IsFiniteSet(At(S))  BY FiniteThreads, FS_Subset DEF At
<1>3. At(S) # {}  BY <1>1
<1>4. Cardinality(At(S)) # 0  BY <1>2, <1>3, FS_EmptySet
<1> QED  BY <1>4, CountNat DEF Count

(* One thread that moves from one line to another changes a count by what it
   leaves and what it enters. *)
LEMMA CountMove ==
  ASSUME Typing, NEW t \in Threads, NEW from, NEW to, NEW S, Move(t, from, to)
  PROVE  Count(S)' = Count(S) + (IF to \in S THEN 1 ELSE 0)
                              - (IF from \in S THEN 1 ELSE 0)
<1> DEFINE A == At(S)
           B == {u \in Threads : pc'[u] \in S}
<1>1. /\ IsFiniteSet(A) /\ IsFiniteSet(B)
  BY FiniteThreads, FS_Subset DEF At
<1>2. pc[t] = from /\ pc' = [pc EXCEPT ![t] = to] /\ pc \in [Threads -> Sites]
  BY DEF Move, Typing
<1>3. \A u \in Threads : pc'[u] = IF u = t THEN to ELSE pc[u]
  BY <1>2
<1>4. Count(S) = Cardinality(A) /\ Count(S)' = Cardinality(B)
  BY DEF Count, At
<1>5. Cardinality(A) \in Nat /\ Cardinality(B) \in Nat
  BY <1>1, FS_CardinalityType
<1>6. CASE from \in S /\ to \in S
  <2>1. A = B  BY <1>2, <1>3, <1>6 DEF At
  <2> QED  BY <2>1, <1>4, <1>5, <1>6
<1>7. CASE from \notin S /\ to \notin S
  <2>1. A = B  BY <1>2, <1>3, <1>7 DEF At
  <2> QED  BY <2>1, <1>4, <1>5, <1>7
<1>8. CASE from \in S /\ to \notin S
  <2>1. B = A \ {t} /\ t \in A  BY <1>2, <1>3, <1>8 DEF At
  <2>2. Cardinality(B) = Cardinality(A) - 1
    BY <2>1, <1>1, FS_RemoveElement
  <2> QED  BY <2>2, <1>4, <1>5, <1>8
<1>9. CASE from \notin S /\ to \in S
  <2>1. B = A \cup {t} /\ t \notin A  BY <1>2, <1>3, <1>9 DEF At
  <2>2. Cardinality(B) = Cardinality(A) + 1
    BY <2>1, <1>1, FS_AddElement
  <2> QED  BY <2>2, <1>4, <1>5, <1>9
<1> QED  BY <1>6, <1>7, <1>8, <1>9

(* The four counts of Accounting, and how a move changes them. *)
LEMMA CountsMove ==
  ASSUME Typing, NEW t \in Threads, NEW from, NEW to, Move(t, from, to)
  PROVE  /\ Count(PushClaimed)' = Count(PushClaimed) + (IF to \in PushClaimed THEN 1 ELSE 0)
                 - (IF from \in PushClaimed THEN 1 ELSE 0)
        
        /\ Count(PushStored)' = Count(PushStored) + (IF to \in PushStored THEN 1 ELSE 0)
                 - (IF from \in PushStored THEN 1 ELSE 0)
         /\ Count(PopClaimed)' = Count(PopClaimed) + (IF to \in PopClaimed THEN 1 ELSE 0)
                 - (IF from \in PopClaimed THEN 1 ELSE 0)
        
        /\ Count(PopLoaded)' = Count(PopLoaded) + (IF to \in PopLoaded THEN 1 ELSE 0)
                 - (IF from \in PopLoaded THEN 1 ELSE 0)
  BY CountMove
-----------------------------------------------------------------------------
(* The types *)

(* The initial state has the types, and nobody has claimed a slot. *)
LEMMA TypingInit == Init => Typing
  BY LengthAssumption DEF Init, Typing, Slots, Sites, PushSites, PopSites, Threads

(* A pointer that advances stays in the ring. *)
LEMMA AdvanceType == \A s \in Slots : Advance(s) \in Slots
  BY LengthAssumption DEF Advance, Slots

(* Every step keeps the types. *)
LEMMA TypingStep == Typing /\ [Next]_vars => Typing'
<1> SUFFICES ASSUME Typing, [Next]_vars PROVE Typing'
  OBVIOUS
<1> USE DEF Typing, Move, Threads, Sites, PushSites, PopSites,
            sems, locks, ring
<1>1. ASSUME NEW t \in Producers, NEW item \in Items, PushCall(t, item)
      PROVE  Typing'
  BY <1>1, ThreadsAssumption DEF PushCall
<1>2. ASSUME NEW t \in Producers, PushWait(t) PROVE Typing'
  BY <1>2, ThreadsAssumption DEF PushWait
<1>3. ASSUME NEW t \in Producers, PushLock(t) PROVE Typing'
  BY <1>3, ThreadsAssumption DEF PushLock
<1>4. ASSUME NEW t \in Producers, PushStore(t) PROVE Typing'
  BY <1>4, ThreadsAssumption DEF PushStore
<1>5. ASSUME NEW t \in Producers, PushAdvance(t) PROVE Typing'
  BY <1>5, AdvanceType, ThreadsAssumption DEF PushAdvance
<1>6. ASSUME NEW t \in Producers, PushUnlock(t) PROVE Typing'
  BY <1>6, ThreadsAssumption DEF PushUnlock
<1>7. ASSUME NEW t \in Producers, PushPost(t) PROVE Typing'
  BY <1>7, ThreadsAssumption DEF PushPost
<1>8. ASSUME NEW t \in Consumers, PopCall(t) PROVE Typing'
  BY <1>8, ThreadsAssumption DEF PopCall
<1>9. ASSUME NEW t \in Consumers, PopWait(t) PROVE Typing'
  BY <1>9, ThreadsAssumption DEF PopWait
<1>10. ASSUME NEW t \in Consumers, PopLock(t) PROVE Typing'
  BY <1>10, ThreadsAssumption DEF PopLock
<1>11. ASSUME NEW t \in Consumers, PopLoad(t) PROVE Typing'
  BY <1>11, ThreadsAssumption DEF PopLoad
<1>12. ASSUME NEW t \in Consumers, PopAdvance(t) PROVE Typing'
  BY <1>12, AdvanceType, ThreadsAssumption DEF PopAdvance
<1>13. ASSUME NEW t \in Consumers, PopUnlock(t) PROVE Typing'
  BY <1>13, ThreadsAssumption DEF PopUnlock
<1>14. ASSUME NEW t \in Consumers, PopPost(t) PROVE Typing'
  BY <1>14, ThreadsAssumption DEF PopPost
<1>15. CASE UNCHANGED vars
  BY <1>15 DEF vars
<1> QED
  BY <1>1, <1>2, <1>3, <1>4, <1>5, <1>6, <1>7, <1>8, <1>9, <1>10, <1>11, <1>12, <1>13, <1>14, <1>15 DEF Next, PushStep, PopStep
-----------------------------------------------------------------------------
(* Exclusion *)

(* Every step keeps each mutex in the hands of the one thread that is between
   lock and unlock. *)
LEMMA ExclusionStep == Typing /\ Exclusion /\ [Next]_vars => Exclusion'
<1> SUFFICES ASSUME Typing, Exclusion, [Next]_vars PROVE Exclusion'
  OBVIOUS
<1> USE ThreadsAssumption
    DEF Typing, Exclusion, Move, Threads, Sites, PushSites, PopSites,
        PushCritical, PopCritical, sems, locks, ring
<1>1. ASSUME NEW t \in Producers, NEW item \in Items, PushCall(t, item)
      PROVE  Exclusion'
  BY <1>1 DEF PushCall
<1>2. ASSUME NEW t \in Producers, PushWait(t) PROVE Exclusion'
  BY <1>2 DEF PushWait
<1>3. ASSUME NEW t \in Producers, PushLock(t) PROVE Exclusion'
  BY <1>3 DEF PushLock
<1>4. ASSUME NEW t \in Producers, PushStore(t) PROVE Exclusion'
  BY <1>4 DEF PushStore
<1>5. ASSUME NEW t \in Producers, PushAdvance(t) PROVE Exclusion'
  BY <1>5 DEF PushAdvance
<1>6. ASSUME NEW t \in Producers, PushUnlock(t) PROVE Exclusion'
  BY <1>6 DEF PushUnlock
<1>7. ASSUME NEW t \in Producers, PushPost(t) PROVE Exclusion'
  BY <1>7 DEF PushPost
<1>8. ASSUME NEW t \in Consumers, PopCall(t) PROVE Exclusion'
  BY <1>8 DEF PopCall
<1>9. ASSUME NEW t \in Consumers, PopWait(t) PROVE Exclusion'
  BY <1>9 DEF PopWait
<1>10. ASSUME NEW t \in Consumers, PopLock(t) PROVE Exclusion'
  BY <1>10 DEF PopLock
<1>11. ASSUME NEW t \in Consumers, PopLoad(t) PROVE Exclusion'
  BY <1>11 DEF PopLoad
<1>12. ASSUME NEW t \in Consumers, PopAdvance(t) PROVE Exclusion'
  BY <1>12 DEF PopAdvance
<1>13. ASSUME NEW t \in Consumers, PopUnlock(t) PROVE Exclusion'
  BY <1>13 DEF PopUnlock
<1>14. ASSUME NEW t \in Consumers, PopPost(t) PROVE Exclusion'
  BY <1>14 DEF PopPost
<1>15. CASE UNCHANGED vars
  BY <1>15 DEF vars
<1> QED
  BY <1>1, <1>2, <1>3, <1>4, <1>5, <1>6, <1>7, <1>8, <1>9, <1>10, <1>11, <1>12, <1>13, <1>14, <1>15 DEF Next, PushStep, PopStep
-----------------------------------------------------------------------------
(* The slots *)

(* Both sides of the ledger count: they are natural numbers. *)
LEMMA HeldNat == Typing => Held \in Nat /\ Free \in Nat
  BY CountNat DEF Typing, Held, Free

(* With every slot accounted for, at most TASK_QUEUE_LEN are held, and both
   semaphores stay in the ring. *)
LEMMA HeldBound ==
  Typing /\ Accounting => /\ Held \in 0 .. TASK_QUEUE_LEN
                          /\ semProducer \in 0 .. TASK_QUEUE_LEN
                          /\ semConsumer \in 0 .. TASK_QUEUE_LEN
  BY CountNat, LengthAssumption DEF Typing, Accounting, Held, Free

(* A push that has claimed a slot leaves room for it. *)
LEMMA ClaimedRoom ==
  ASSUME Typing, Accounting, NEW t \in Threads, pc[t] \in PushClaimed
  PROVE  Held < TASK_QUEUE_LEN
<1>1. Count(PushClaimed) >= 1  BY CountPositive
<1> QED  BY <1>1, CountNat, HeldNat, LengthAssumption
     DEF Typing, Accounting, Free

(* A pop that has claimed an item finds one. *)
LEMMA ClaimedItem ==
  ASSUME Typing, NEW t \in Threads, pc[t] \in PopClaimed
  PROVE  Held >= 1
<1>1. Count(PopClaimed) >= 1  BY CountPositive
<1> QED  BY <1>1, CountNat DEF Typing, Held

(* What each step does to the ledger: only advancing the producer pointer
   makes an item held, and only loading it makes it not held. *)
LEMMA Ledger ==
  ASSUME Typing, NEW t \in Threads
  PROVE  /\ PushAdvance(t) => Held' = Held + 1 /\ Free' = Free - 1
         /\ PopLoad(t) => Held' = Held - 1 /\ Free' = Free + 1
         /\ (\/ \E item \in Items : PushCall(t, item)
             \/ PushWait(t) \/ PushLock(t) \/ PushStore(t)
             \/ PushUnlock(t) \/ PushPost(t)
             \/ PopCall(t) \/ PopWait(t) \/ PopLock(t)
             \/ PopAdvance(t) \/ PopUnlock(t) \/ PopPost(t))
            => Held' = Held /\ Free' = Free
<1> DEFINE Keeps == Held' = Held /\ Free' = Free
<1> USE DEF sems, locks, ring
<1>1. ASSUME NEW item \in Items, PushCall(t, item) PROVE Keeps
  <2>1. Move(t, "idle", "pushWait")  BY <1>1 DEF PushCall
  <2>2. /\ Count(PushClaimed)' = Count(PushClaimed)
        /\ Count(PushStored)' = Count(PushStored)
        /\ Count(PopClaimed)' = Count(PopClaimed)
        /\ Count(PopLoaded)' = Count(PopLoaded)
    BY <2>1, CountsMove, CountNat
    DEF PushClaimed, PushStored, PopClaimed, PopLoaded
  <2> QED  BY <1>1, <2>2, CountNat DEF PushCall, Held, Free, Typing
<1>2. ASSUME PushWait(t) PROVE Keeps
  <2>1. Move(t, "pushWait", "pushLock")  BY <1>2 DEF PushWait
  <2>2. /\ Count(PushClaimed)' = Count(PushClaimed) + 1
        /\ Count(PushStored)' = Count(PushStored)
        /\ Count(PopClaimed)' = Count(PopClaimed)
        /\ Count(PopLoaded)' = Count(PopLoaded)
    BY <2>1, CountsMove, CountNat
    DEF PushClaimed, PushStored, PopClaimed, PopLoaded
  <2> QED  BY <1>2, <2>2, CountNat DEF PushWait, Held, Free, Typing
<1>3. ASSUME PushLock(t) PROVE Keeps
  <2>1. Move(t, "pushLock", "pushStore")  BY <1>3 DEF PushLock
  <2>2. /\ Count(PushClaimed)' = Count(PushClaimed)
        /\ Count(PushStored)' = Count(PushStored)
        /\ Count(PopClaimed)' = Count(PopClaimed)
        /\ Count(PopLoaded)' = Count(PopLoaded)
    BY <2>1, CountsMove, CountNat
    DEF PushClaimed, PushStored, PopClaimed, PopLoaded
  <2> QED  BY <1>3, <2>2, CountNat DEF PushLock, Held, Free, Typing
<1>4. ASSUME PushStore(t) PROVE Keeps
  <2>1. Move(t, "pushStore", "pushAdvance")  BY <1>4 DEF PushStore
  <2>2. /\ Count(PushClaimed)' = Count(PushClaimed)
        /\ Count(PushStored)' = Count(PushStored)
        /\ Count(PopClaimed)' = Count(PopClaimed)
        /\ Count(PopLoaded)' = Count(PopLoaded)
    BY <2>1, CountsMove, CountNat
    DEF PushClaimed, PushStored, PopClaimed, PopLoaded
  <2> QED  BY <1>4, <2>2, CountNat DEF PushStore, Held, Free, Typing
<1>5. ASSUME PushAdvance(t) PROVE Held' = Held + 1 /\ Free' = Free - 1
  <2>1. Move(t, "pushAdvance", "pushUnlock")  BY <1>5 DEF PushAdvance
  <2>2. /\ Count(PushClaimed)' = Count(PushClaimed) - 1
        /\ Count(PushStored)' = Count(PushStored) + 1
        /\ Count(PopClaimed)' = Count(PopClaimed)
        /\ Count(PopLoaded)' = Count(PopLoaded)
    BY <2>1, CountsMove, CountNat
    DEF PushClaimed, PushStored, PopClaimed, PopLoaded
  <2> QED  BY <1>5, <2>2, CountNat DEF PushAdvance, Held, Free, Typing
<1>6. ASSUME PushUnlock(t) PROVE Keeps
  <2>1. Move(t, "pushUnlock", "pushPost")  BY <1>6 DEF PushUnlock
  <2>2. /\ Count(PushClaimed)' = Count(PushClaimed)
        /\ Count(PushStored)' = Count(PushStored)
        /\ Count(PopClaimed)' = Count(PopClaimed)
        /\ Count(PopLoaded)' = Count(PopLoaded)
    BY <2>1, CountsMove, CountNat
    DEF PushClaimed, PushStored, PopClaimed, PopLoaded
  <2> QED  BY <1>6, <2>2, CountNat DEF PushUnlock, Held, Free, Typing
<1>7. ASSUME PushPost(t) PROVE Keeps
  <2>1. Move(t, "pushPost", "idle")  BY <1>7 DEF PushPost
  <2>2. /\ Count(PushClaimed)' = Count(PushClaimed)
        /\ Count(PushStored)' = Count(PushStored) - 1
        /\ Count(PopClaimed)' = Count(PopClaimed)
        /\ Count(PopLoaded)' = Count(PopLoaded)
    BY <2>1, CountsMove, CountNat
    DEF PushClaimed, PushStored, PopClaimed, PopLoaded
  <2> QED  BY <1>7, <2>2, CountNat DEF PushPost, Held, Free, Typing
<1>8. ASSUME PopCall(t) PROVE Keeps
  <2>1. Move(t, "idle", "popWait")  BY <1>8 DEF PopCall
  <2>2. /\ Count(PushClaimed)' = Count(PushClaimed)
        /\ Count(PushStored)' = Count(PushStored)
        /\ Count(PopClaimed)' = Count(PopClaimed)
        /\ Count(PopLoaded)' = Count(PopLoaded)
    BY <2>1, CountsMove, CountNat
    DEF PushClaimed, PushStored, PopClaimed, PopLoaded
  <2> QED  BY <1>8, <2>2, CountNat DEF PopCall, Held, Free, Typing
<1>9. ASSUME PopWait(t) PROVE Keeps
  <2>1. Move(t, "popWait", "popLock")  BY <1>9 DEF PopWait
  <2>2. /\ Count(PushClaimed)' = Count(PushClaimed)
        /\ Count(PushStored)' = Count(PushStored)
        /\ Count(PopClaimed)' = Count(PopClaimed) + 1
        /\ Count(PopLoaded)' = Count(PopLoaded)
    BY <2>1, CountsMove, CountNat
    DEF PushClaimed, PushStored, PopClaimed, PopLoaded
  <2> QED  BY <1>9, <2>2, CountNat DEF PopWait, Held, Free, Typing
<1>10. ASSUME PopLock(t) PROVE Keeps
  <2>1. Move(t, "popLock", "popLoad")  BY <1>10 DEF PopLock
  <2>2. /\ Count(PushClaimed)' = Count(PushClaimed)
        /\ Count(PushStored)' = Count(PushStored)
        /\ Count(PopClaimed)' = Count(PopClaimed)
        /\ Count(PopLoaded)' = Count(PopLoaded)
    BY <2>1, CountsMove, CountNat
    DEF PushClaimed, PushStored, PopClaimed, PopLoaded
  <2> QED  BY <1>10, <2>2, CountNat DEF PopLock, Held, Free, Typing
<1>11. ASSUME PopLoad(t) PROVE Held' = Held - 1 /\ Free' = Free + 1
  <2>1. Move(t, "popLoad", "popAdvance")  BY <1>11 DEF PopLoad
  <2>2. /\ Count(PushClaimed)' = Count(PushClaimed)
        /\ Count(PushStored)' = Count(PushStored)
        /\ Count(PopClaimed)' = Count(PopClaimed) - 1
        /\ Count(PopLoaded)' = Count(PopLoaded) + 1
    BY <2>1, CountsMove, CountNat
    DEF PushClaimed, PushStored, PopClaimed, PopLoaded
  <2> QED  BY <1>11, <2>2, CountNat DEF PopLoad, Held, Free, Typing
<1>12. ASSUME PopAdvance(t) PROVE Keeps
  <2>1. Move(t, "popAdvance", "popUnlock")  BY <1>12 DEF PopAdvance
  <2>2. /\ Count(PushClaimed)' = Count(PushClaimed)
        /\ Count(PushStored)' = Count(PushStored)
        /\ Count(PopClaimed)' = Count(PopClaimed)
        /\ Count(PopLoaded)' = Count(PopLoaded)
    BY <2>1, CountsMove, CountNat
    DEF PushClaimed, PushStored, PopClaimed, PopLoaded
  <2> QED  BY <1>12, <2>2, CountNat DEF PopAdvance, Held, Free, Typing
<1>13. ASSUME PopUnlock(t) PROVE Keeps
  <2>1. Move(t, "popUnlock", "popPost")  BY <1>13 DEF PopUnlock
  <2>2. /\ Count(PushClaimed)' = Count(PushClaimed)
        /\ Count(PushStored)' = Count(PushStored)
        /\ Count(PopClaimed)' = Count(PopClaimed)
        /\ Count(PopLoaded)' = Count(PopLoaded)
    BY <2>1, CountsMove, CountNat
    DEF PushClaimed, PushStored, PopClaimed, PopLoaded
  <2> QED  BY <1>13, <2>2, CountNat DEF PopUnlock, Held, Free, Typing
<1>14. ASSUME PopPost(t) PROVE Keeps
  <2>1. Move(t, "popPost", "idle")  BY <1>14 DEF PopPost
  <2>2. /\ Count(PushClaimed)' = Count(PushClaimed)
        /\ Count(PushStored)' = Count(PushStored)
        /\ Count(PopClaimed)' = Count(PopClaimed)
        /\ Count(PopLoaded)' = Count(PopLoaded) - 1
    BY <2>1, CountsMove, CountNat
    DEF PushClaimed, PushStored, PopClaimed, PopLoaded
  <2> QED  BY <1>14, <2>2, CountNat DEF PopPost, Held, Free, Typing
<1> QED
  BY <1>1, <1>2, <1>3, <1>4, <1>5, <1>6, <1>7, <1>8, <1>9, <1>10, <1>11, <1>12, <1>13, <1>14

(* Every step moves a slot from one account to another. *)
LEMMA AccountingStep ==
  Typing /\ Accounting /\ [Next]_vars => Accounting'
<1> SUFFICES ASSUME Typing, Accounting, [Next]_vars PROVE Accounting'
  OBVIOUS
<1> USE DEF sems, locks, ring
<1>1. Held \in Nat /\ Free \in Nat
  BY HeldNat
<1>2. CASE UNCHANGED vars
  BY <1>2 DEF vars, Accounting, Free, Held, Count, At
<1>3. CASE Next
  <2>1. \/ Held' = Held + 1 /\ Free' = Free - 1
        \/ Held' = Held - 1 /\ Free' = Free + 1
        \/ Held' = Held /\ Free' = Free
    BY <1>3, Ledger DEF Next, PushStep, PopStep, Threads
  <2> QED  BY <1>1, <2>1, LengthAssumption DEF Accounting
<1> QED  BY <1>2, <1>3

(* Advancing once more goes one place further. *)
LEMMA SlotStep ==
  ASSUME NEW s \in Slots, NEW k \in 0 .. TASK_QUEUE_LEN - 1
  PROVE  /\ Slot(s, k) \in Slots
         /\ Slot(s, 0) = s
         /\ Slot(s, k + 1) \in Slots
         /\ Advance(Slot(s, k)) = Slot(s, k + 1)
         /\ Slot(Advance(s), k) = Slot(s, k + 1)
  BY LengthAssumption DEF Slots, Slot, Advance

(* A full turn away from a slot is the slot itself, and only that. *)
LEMMA SlotTurn ==
  ASSUME NEW s \in Slots, NEW k \in 0 .. TASK_QUEUE_LEN
  PROVE  Slot(s, k) = s <=> k \in {0, TASK_QUEUE_LEN}
  BY LengthAssumption DEF Slots, Slot

(* The oldest item is in a slot of the ring. *)
LEMMA FirstType == Typing => First \in Slots
  BY AdvanceType DEF Typing, First

(* A step that leaves the consumer pointer alone, and in which no thread
   reaches or leaves the line popAdvance, leaves First alone. *)
LEMMA FirstSame ==
  ASSUME Typing, NEW t \in Threads, NEW from, NEW to, Move(t, from, to),
         from # "popAdvance", to # "popAdvance",
         cacheConsumer' = cacheConsumer
  PROVE  First' = First
  BY DEF Typing, Move, First, Threads, Advance

(* The steps that neither make an item held nor take one out. *)
Quiet(t) ==
    \/ t \in Producers /\ \E item \in Items : PushCall(t, item)
    \/ t \in Consumers /\ PopCall(t)
    \/ PushWait(t) \/ PushLock(t) \/ PushStore(t)
    \/ PushUnlock(t) \/ PushPost(t)
    \/ PopWait(t) \/ PopLock(t)
    \/ PopAdvance(t) \/ PopUnlock(t) \/ PopPost(t)

(* The load makes the next slot the first one: First runs ahead of the
   consumer pointer until the pop advances it. *)
LEMMA FirstOfLoad ==
  ASSUME Typing, Exclusion, NEW t \in Consumers, PopLoad(t)
  PROVE  First = cacheConsumer /\ First' = Advance(First)
<1>1. Move(t, "popLoad", "popAdvance") /\ cacheConsumer' = cacheConsumer
  BY DEF PopLoad, ring
<1>2. t \in Threads  BY DEF Threads
<1>3. \A u \in Consumers : pc[u] # "popAdvance"
  BY <1>1, <1>2 DEF Move, Exclusion, PopCritical, Threads
<1>4. First = cacheConsumer  BY <1>3 DEF First
<1>5. pc'[t] = "popAdvance"  BY <1>1, <1>2 DEF Move, Typing
<1>6. First' = Advance(cacheConsumer)  BY <1>1, <1>5 DEF First, Advance
<1> QED  BY <1>4, <1>6

(* The pop that advances the consumer pointer is the only one past its load,
   so the pointer catches up with First. *)
LEMMA FirstOfAdvance ==
  ASSUME Typing, Exclusion, NEW t \in Consumers, PopAdvance(t)
  PROVE  First' = First
<1>1. Move(t, "popAdvance", "popUnlock") /\ t \in Threads
  BY DEF PopAdvance, Threads
<1>2. First = Advance(cacheConsumer)  BY <1>1 DEF Move, First
<1>3. \A u \in Consumers : pc'[u] # "popAdvance"
  BY <1>1 DEF Move, Exclusion, PopCritical, Threads, Typing
<1> QED  BY <1>2, <1>3 DEF PopAdvance, First

(* A quiet step moves neither the first slot nor the number of items. *)
LEMMA QuietStep ==
  ASSUME Typing, Exclusion, NEW t \in Threads, Quiet(t)
  PROVE  Held' = Held /\ First' = First /\ cacheProducer' = cacheProducer
<1> USE DEF sems, locks, ring
<1>1. Held' = Held  BY Ledger DEF Quiet
<1>2. cacheProducer' = cacheProducer
  BY DEF Quiet, PushCall, PushWait, PushLock, PushStore, PushUnlock, PushPost,
         PopCall, PopWait, PopLock, PopAdvance, PopUnlock, PopPost
<1>3. First' = First
  <2>1. CASE PopAdvance(t)
    <3>1. t \in Consumers
      BY <2>1 DEF PopAdvance, Move, Typing, Threads, PopSites
    <3> QED  BY <2>1, <3>1, FirstOfAdvance
  <2>2. ASSUME NEW item \in Items, PushCall(t, item) PROVE First' = First
    BY <2>2, FirstSame DEF PushCall
  <2>3. CASE PushWait(t)  BY <2>3, FirstSame DEF PushWait
  <2>4. CASE PushLock(t)  BY <2>4, FirstSame DEF PushLock
  <2>5. CASE PushStore(t)  BY <2>5, FirstSame DEF PushStore
  <2>6. CASE PushUnlock(t)  BY <2>6, FirstSame DEF PushUnlock
  <2>7. CASE PushPost(t)  BY <2>7, FirstSame DEF PushPost
  <2>8. CASE PopCall(t)  BY <2>8, FirstSame DEF PopCall
  <2>9. CASE PopWait(t)  BY <2>9, FirstSame DEF PopWait
  <2>10. CASE PopLock(t)  BY <2>10, FirstSame DEF PopLock
  <2>11. CASE PopUnlock(t)  BY <2>11, FirstSame DEF PopUnlock
  <2>12. CASE PopPost(t)  BY <2>12, FirstSame DEF PopPost
  <2> QED
    BY <2>1, <2>2, <2>3, <2>4, <2>5, <2>6, <2>7, <2>8, <2>9, <2>10, <2>11, <2>12
    DEF Quiet
<1> QED  BY <1>1, <1>2, <1>3

(* Whatever a thread does in a step is a push that advances, a pop that
   loads, or quiet. *)
LEMMA NextCases ==
  Next => \/ \E t \in Producers : PushAdvance(t)
          \/ \E t \in Consumers : PopLoad(t)
          \/ \E t \in Threads : Quiet(t)
  BY DEF Next, PushStep, PopStep, Quiet, Threads

(* Every step keeps the pointers as far apart as the counts say. *)
LEMMA PositionStep ==
  Typing /\ Exclusion /\ Accounting /\ Position /\ [Next]_vars => Position'
<1> SUFFICES ASSUME Typing, Exclusion, Accounting, Position, [Next]_vars
             PROVE  Position'
  OBVIOUS
<1> USE DEF sems, locks, ring
<1>1. ASSUME NEW t \in Producers, PushAdvance(t) PROVE Position'
  <2>1. Move(t, "pushAdvance", "pushUnlock") /\ t \in Threads
    BY <1>1 DEF PushAdvance, Threads
  <2>2. Held' = Held + 1
    BY <1>1, <2>1, Ledger
  <2>3. Held \in 0 .. TASK_QUEUE_LEN - 1
    BY <2>1, ClaimedRoom, HeldNat, LengthAssumption DEF Move, PushClaimed
  <2>4. First' = First  BY <1>1, <2>1, FirstSame DEF PushAdvance
  <2>5. cacheProducer' = Advance(Slot(First, Held))
    BY <1>1 DEF PushAdvance, Position
  <2>6. First \in Slots  BY FirstType
  <2> QED  BY <2>2, <2>3, <2>4, <2>5, <2>6, SlotStep DEF Position
<1>2. ASSUME NEW t \in Consumers, PopLoad(t) PROVE Position'
  <2>1. Move(t, "popLoad", "popAdvance") /\ t \in Threads
    BY <1>2 DEF PopLoad, Threads
  <2>2. Held' = Held - 1
    BY <1>2, <2>1, Ledger
  <2>3. Held \in 1 .. TASK_QUEUE_LEN
    BY <2>1, ClaimedItem, HeldBound, HeldNat, LengthAssumption
    DEF Move, PopClaimed
  <2>4. First' = Advance(First) /\ First \in Slots
    BY <1>2, FirstOfLoad, FirstType
  <2>5. Slot(Advance(First), Held - 1) = Slot(First, Held)
    <3>1. Held - 1 \in 0 .. TASK_QUEUE_LEN - 1
      BY <2>3, LengthAssumption
    <3>2. Held - 1 + 1 = Held  BY <2>3, LengthAssumption
    <3> QED  BY <3>1, <3>2, <2>4, SlotStep
  <2>6. cacheProducer' = cacheProducer  BY <1>2 DEF PopLoad
  <2> QED  BY <2>2, <2>4, <2>5, <2>6 DEF Position
<1>3. ASSUME NEW t \in Threads, Quiet(t) PROVE Position'
  BY <1>3, QuietStep DEF Position
<1>4. CASE UNCHANGED vars
  BY <1>4 DEF vars, Position, First, Held, Count, At
<1> QED  BY <1>1, <1>2, <1>3, <1>4, NextCases

-----------------------------------------------------------------------------
(* The theorems *)

(* The inductive invariant: none of its parts is inductive alone.  The bounds
   of the semaphores need the accounting, the accounting needs to know at
   which lines a thread can be, and the distance of the pointers needs both
   the mutual exclusion of the pops and the room the accounting leaves. *)
IInv == Typing /\ Exclusion /\ Accounting /\ Position

(* At the start no slot is claimed. *)
LEMMA CountInit == ASSUME Init, NEW S, "idle" \notin S PROVE Count(S) = 0
<1>1. At(S) = {}  BY DEF Init, At
<1> QED  BY <1>1, FS_EmptySet DEF Count

(* The initial state satisfies the invariant. *)
LEMMA IInvInit == Init => IInv
<1> SUFFICES ASSUME Init PROVE IInv
  OBVIOUS
<1>1. Typing  BY TypingInit
<1>2. Exclusion
  BY ThreadsAssumption DEF Init, Exclusion, PushCritical, PopCritical, Threads
<1>3. /\ Count(PushClaimed) = 0 /\ Count(PushStored) = 0
      /\ Count(PopClaimed) = 0 /\ Count(PopLoaded) = 0
  BY CountInit DEF PushClaimed, PushStored, PopClaimed, PopLoaded
<1>4. Held = 0 /\ Free = TASK_QUEUE_LEN
  BY <1>3, LengthAssumption DEF Init, Held, Free
<1>5. Accounting
  BY <1>4, LengthAssumption DEF Accounting
<1>6. First = 0  BY DEF Init, First, Threads
<1>7. Position  BY <1>4, <1>6, LengthAssumption DEF Init, Position, Slot
<1> QED  BY <1>1, <1>2, <1>5, <1>7 DEF IInv

(* Every behaviour of the ring satisfies the invariant. *)
THEOREM Inductive == Spec => []IInv
<1>1. Init => IInv  BY IInvInit
<1>2. IInv /\ [Next]_vars => IInv'
  BY TypingStep, ExclusionStep, AccountingStep, PositionStep DEF IInv
<1> QED  BY <1>1, <1>2, PTL DEF Spec

(* The types: the semaphores never exceed the ring, the pointers never leave
   it, whatever the number of threads. *)
THEOREM TypeCorrect == Spec => []TypeOK
<1>1. IInv => TypeOK
  BY HeldBound DEF IInv, Typing, TypeOK, Sites
<1> QED  BY <1>1, Inductive, PTL

(* At most one thread stores and at most one loads. *)
THEOREM MutualExclusion == Spec => []Exclusion
<1>1. IInv => Exclusion  BY DEF IInv
<1> QED  BY <1>1, Inductive, PTL

(* Every slot stays accounted for: no push stores into a held slot, no pop
   loads from a slot that holds nothing. *)
THEOREM SlotsAccounted == Spec => []Accounting
<1>1. IInv => Accounting  BY DEF IInv
<1> QED  BY <1>1, Inductive, PTL

(* The pointers stay as far apart as the semaphores say. *)
THEOREM PointersInStep == Spec => []Position
<1>1. IInv => Position  BY DEF IInv
<1> QED  BY <1>1, Inductive, PTL

(* Thread t is inside a call and its next line has to wait: sem_wait at zero,
   or a mutex that is held. *)
Waits(t) ==
    \/ pc[t] = "pushWait" /\ semProducer = 0
    \/ pc[t] = "popWait" /\ semConsumer = 0
    \/ pc[t] = "pushLock" /\ mutexProducer # Nobody
    \/ pc[t] = "popLock" /\ mutexConsumer # Nobody

(* If nobody inside a call can go on, they are all pushes and the ring is full,
   or all pops and it is empty. *)
NoDeadlock ==
    (\A t \in Threads : pc[t] = "idle" \/ Waits(t)) =>
        \/ \A t \in Threads : pc[t] = "idle"
        \/ (\A t \in Threads : pc[t] \in {"idle", "pushWait"}) /\ Held = TASK_QUEUE_LEN
        \/ (\A t \in Threads : pc[t] \in {"idle", "popWait"}) /\ Held = 0

(* Two semaphores and two mutexes never make the threads wait for each other:
   Push waits for nothing but room and Pop for nothing but a packet, so that
   the next call of the other function lets them go on. *)
THEOREM NobodyDeadlocks == Spec => []NoDeadlock
<1>1. ASSUME IInv PROVE NoDeadlock
  <2> SUFFICES ASSUME \A t \in Threads : pc[t] = "idle" \/ Waits(t),
                      \E t \in Threads : pc[t] # "idle"
               PROVE  \/ /\ \A t \in Threads : pc[t] \in {"idle", "pushWait"}
                         /\ Held = TASK_QUEUE_LEN
                      \/ /\ \A t \in Threads : pc[t] \in {"idle", "popWait"}
                         /\ Held = 0
    BY DEF NoDeadlock
  <2>1. Typing /\ Exclusion /\ Accounting  BY <1>1 DEF IInv
  <2>2. \A t \in Threads : pc[t] \in {"idle", "pushWait", "popWait", "pushLock", "popLock"}
    BY DEF Waits
  <2>3. mutexProducer = Nobody /\ mutexConsumer = Nobody
    <3>1. \A t \in Threads : mutexProducer # t /\ mutexConsumer # t
      BY <2>1, <2>2 DEF Exclusion, PushCritical, PopCritical
    <3> QED  BY <2>1, <3>1 DEF Typing, Threads
  <2>4. \A t \in Threads : \/ pc[t] = "idle"
                           \/ pc[t] = "pushWait" /\ semProducer = 0
                           \/ pc[t] = "popWait" /\ semConsumer = 0
    BY <2>3 DEF Waits
  <2>5. /\ Count(PushClaimed) = 0 /\ Count(PopLoaded) = 0
        /\ Count(PushStored) = 0 /\ Count(PopClaimed) = 0
    <3>1. /\ At(PushClaimed) = {} /\ At(PopLoaded) = {}
          /\ At(PushStored) = {} /\ At(PopClaimed) = {}
      BY <2>4 DEF At, PushClaimed, PopLoaded, PushStored, PopClaimed
    <3> QED  BY <3>1, FS_EmptySet DEF Count
  <2>6. /\ Held = semConsumer /\ semProducer + semConsumer = TASK_QUEUE_LEN
        /\ semProducer \in Nat /\ semConsumer \in Nat
    BY <2>1, <2>5 DEF Held, Free, Accounting, Typing
  <2>7. CASE semProducer = 0
    <3>1. semConsumer = TASK_QUEUE_LEN /\ semConsumer # 0
      BY <2>6, <2>7, LengthAssumption
    <3> QED  BY <2>4, <2>6, <3>1
  <2>8. CASE semProducer # 0
    <3>1. \A t \in Threads : pc[t] \in {"idle", "popWait"}  BY <2>4, <2>8
    <3>2. semConsumer = 0  BY <2>4, <2>8
    <3> QED  BY <2>6, <3>1, <3>2
  <2> QED  BY <2>7, <2>8
<1> QED  BY <1>1, Inductive, PTL

(* What CTaskQueue::IsEmpty answers: true for a full ring as well. *)
THEOREM IsEmptyCorrect == Spec => []IsEmptyAnswer
<1>1. ASSUME IInv PROVE IsEmptyAnswer
  <2>1. /\ Typing /\ Position /\ Exclusion
        /\ Held \in 0 .. TASK_QUEUE_LEN
        /\ cacheConsumer \in Slots
    BY <1>1, HeldBound DEF IInv, Typing
  <2>2. CASE At({"popAdvance"}) = {}
    <3>1. Count({"popAdvance"}) = 0  BY <2>2, FS_EmptySet DEF Count
    <3>2. First = cacheConsumer  BY <2>2 DEF At, First, Threads
    <3>3. IsEmpty <=> Slot(cacheConsumer, Held) = cacheConsumer
      BY <2>1, <3>2 DEF IsEmpty, Position
    <3> QED  BY <2>1, <3>1, <3>3, SlotTurn DEF IsEmptyAnswer
  <2>3. CASE At({"popAdvance"}) # {}
    <3>1. PICK t \in Threads : pc[t] = "popAdvance"  BY <2>3 DEF At
    <3>2. t \in Consumers  BY <2>1, <3>1 DEF Typing, Threads, PushSites, PopSites
    <3>3. At({"popAdvance"}) = {t}
      BY <2>1, <3>1 DEF At, Exclusion, PopCritical
    <3>4. Count({"popAdvance"}) = 1  BY <3>3, FS_Singleton DEF Count
    <3>5. First = Advance(cacheConsumer)  BY <3>1, <3>2 DEF First
    <3>6. Held < TASK_QUEUE_LEN
      <4>1. Count(PopLoaded) >= 1  BY <3>1, CountPositive DEF PopLoaded
      <4> QED  BY <1>1, <4>1, CountNat, HeldNat, LengthAssumption
               DEF IInv, Accounting, Free, Typing
    <3>7. IsEmpty <=> Slot(cacheConsumer, Held + 1) = cacheConsumer
      BY <2>1, <3>5, <3>6, SlotStep, LengthAssumption DEF IsEmpty, Position
    <3> QED  BY <2>1, <3>4, <3>6, <3>7, SlotTurn, LengthAssumption
             DEF IsEmptyAnswer
  <2> QED  BY <2>2, <2>3
<1> QED  BY <1>1, Inductive, PTL

-----------------------------------------------------------------------------
(* The refinement: CTaskQueue implements BoundedFifo. *)

Contents == Items \cup {NoItem}

(* Between the store and the advance of a push, nobody else writes to its
   slot, and the item is not in the queue yet. *)
Stored ==
    \A t \in Producers : pc[t] = "pushAdvance" => cache[cacheProducer] = ac[t]

(* What the refinement needs besides IInv is inductive with it. *)
LEMMA StoredStep == Typing /\ Exclusion /\ Stored /\ [Next]_vars => Stored'
<1> SUFFICES ASSUME Typing, Exclusion, Stored, [Next]_vars,
                    NEW u \in Producers, pc'[u] = "pushAdvance"
             PROVE  cache'[cacheProducer'] = ac'[u]
  BY DEF Stored
<1> USE ThreadsAssumption
    DEF Typing, Exclusion, Stored, Threads, Move, PushCritical, sems, locks, ring
<1>1. CASE pc[u] = "pushAdvance"
  <2>1. mutexProducer = u  BY <1>1
  <2>2. \A t \in Producers : ~PushStore(t) /\ (t # u => ~PushAdvance(t))
    BY <1>1, <2>1 DEF PushStore, PushAdvance
  <2>3. ~PushAdvance(u)  BY DEF PushAdvance
  <2>4. UNCHANGED <<cache, cacheProducer>>
    BY <2>2, <2>3
    DEF Next, PushStep, PopStep, vars, PushCall, PushWait, PushLock, PushUnlock,
        PushPost, PopCall, PopWait, PopLock, PopLoad, PopAdvance, PopUnlock,
        PopPost
  <2>5. ac'[u] = ac[u]
    BY <1>1, <2>2, <2>3
    DEF Next, PushStep, PopStep, vars, PushCall, PushWait, PushLock, PushUnlock,
        PushPost, PopCall, PopWait, PopLock, PopLoad, PopAdvance, PopUnlock,
        PopPost
  <2> QED  BY <1>1, <2>4, <2>5
<1>2. CASE pc[u] # "pushAdvance"
  <2>1. PushStore(u)
    BY <1>2
    DEF Next, PushStep, PopStep, vars, PushCall, PushWait, PushLock, PushStore,
        PushAdvance, PushUnlock, PushPost, PopCall, PopWait, PopLock, PopLoad,
        PopAdvance, PopUnlock, PopPost
  <2> QED  BY <2>1 DEF PushStore
<1> QED  BY <1>1, <1>2

QueueShape ==
    /\ Held \in 0 .. TASK_QUEUE_LEN
    /\ First \in Slots
    /\ Queue \in Seq(Contents)
    /\ Len(Queue) = Held
    /\ \A k \in 1 .. Held : Queue[k] = cache[Slot(First, k - 1)]

(* Different places are different slots. *)
LEMMA SlotInjective ==
  ASSUME NEW s \in Slots, NEW j \in 0 .. TASK_QUEUE_LEN - 1,
         NEW k \in 0 .. TASK_QUEUE_LEN - 1, Slot(s, j) = Slot(s, k)
  PROVE  j = k
  BY LengthAssumption DEF Slots, Slot

(* The abstract queue is the sequence of the held items. *)
LEMMA QueueType == IInv => QueueShape
<1> SUFFICES ASSUME IInv PROVE QueueShape
  OBVIOUS
<1>1. Typing /\ Held \in 0 .. TASK_QUEUE_LEN /\ First \in Slots
  BY HeldBound, FirstType DEF IInv
<1>2. \A k \in 1 .. Held : cache[Slot(First, k - 1)] \in Contents
  <2> SUFFICES ASSUME NEW k \in 1 .. Held
               PROVE  cache[Slot(First, k - 1)] \in Contents
    OBVIOUS
  <2>1. k - 1 \in 0 .. TASK_QUEUE_LEN - 1  BY <1>1, LengthAssumption
  <2>2. Slot(First, k - 1) \in Slots  BY <1>1, <2>1, SlotStep
  <2> QED  BY <1>1, <2>2 DEF Typing, Contents
<1>3. Queue \in [1 .. Held -> Contents]  BY <1>2 DEF Queue
<1>4. Held \in Nat  BY <1>1, LengthAssumption
<1>5. Queue \in Seq(Contents)  BY <1>3, <1>4, SeqDef
<1>6. Len(Queue) = Held
  <2>1. Len(Queue) \in Nat /\ DOMAIN Queue = 1 .. Len(Queue)
    BY <1>5, LenProperties
  <2> QED  BY <1>3, <1>4, <2>1
<1>7. \A k \in 1 .. Held : Queue[k] = cache[Slot(First, k - 1)]
  BY DEF Queue
<1> QED  BY <1>1, <1>5, <1>6, <1>7 DEF QueueShape

(* A push that advances appends the item it has stored. *)
LEMMA AdvanceAppends ==
  ASSUME IInv, IInv', Stored, NEW t \in Producers, PushAdvance(t)
  PROVE  Queue' = Append(Queue, ac[t]) /\ Len(Queue) < TASK_QUEUE_LEN
<1> DEFINE q == Append(Queue, ac[t])
<1>1. Move(t, "pushAdvance", "pushUnlock") /\ t \in Threads
  BY DEF PushAdvance, Threads
<1>2. QueueShape  BY QueueType
<1>3. Held' = Held + 1 /\ First' = First /\ cache' = cache
  BY <1>1, Ledger, FirstSame DEF PushAdvance, ring, IInv
<1>4. Held \in 0 .. TASK_QUEUE_LEN - 1
  BY <1>1, ClaimedRoom, HeldNat, LengthAssumption DEF Move, PushClaimed, IInv
<1>5. ac[t] \in Contents /\ cache[Slot(First, Held)] = ac[t]
  BY <1>1 DEF IInv, Typing, Move, Stored, Position, Contents
<1>6. Queue' \in Seq(Contents) /\ Len(Queue') = Held + 1
  <2>1. IInv' => QueueShape'  BY QueueType, PTL
  <2> QED  BY <1>3, <2>1 DEF QueueShape, Contents
<1>7. \A k \in 1 .. Held + 1 : Queue'[k] = cache[Slot(First, k - 1)]
  BY <1>3 DEF Queue, Slot
<1>8. /\ q \in Seq(Contents) /\ Len(q) = Held + 1 /\ q[Held + 1] = ac[t]
      /\ \A k \in 1 .. Held : q[k] = Queue[k]
  BY <1>2, <1>5, AppendProperties DEF QueueShape
<1>9. ASSUME NEW k \in 1 .. Held + 1 PROVE Queue'[k] = q[k]
  <2>1. CASE k = Held + 1
    <3>1. k - 1 = Held /\ k \in 1 .. Held + 1  BY <1>4, <2>1, LengthAssumption
    <3> QED  BY <1>5, <1>7, <1>8, <2>1, <3>1
  <2>2. CASE k \in 1 .. Held  BY <1>2, <1>7, <1>8, <2>2 DEF QueueShape
  <2>3. k = Held + 1 \/ k \in 1 .. Held  BY <1>4, LengthAssumption
  <2> QED  BY <2>1, <2>2, <2>3
<1> HIDE DEF q
<1>10. Queue' = q  BY <1>6, <1>8, <1>9, SeqEqual
<1> QED  BY <1>2, <1>4, <1>10, LengthAssumption DEF q, QueueShape

(* A pop that loads removes the head of the queue. *)
LEMMA LoadRemoves ==
  ASSUME IInv, IInv', NEW t \in Consumers, PopLoad(t)
  PROVE  /\ Queue # << >>
         /\ ac' = [ac EXCEPT ![t] = Head(Queue)]
         /\ Queue' = Tail(Queue)
<1>1. Move(t, "popLoad", "popAdvance") /\ t \in Threads
  BY DEF PopLoad, Threads
<1>2. QueueShape  BY QueueType
<1>3. /\ Held' = Held - 1 /\ First = cacheConsumer /\ First' = Advance(First)
      /\ cache' = cache /\ ac' = [ac EXCEPT ![t] = cache[cacheConsumer]]
  BY <1>1, Ledger, FirstOfLoad DEF PopLoad, ring, IInv
<1>4. Held \in 1 .. TASK_QUEUE_LEN
  BY <1>1, <1>2, ClaimedItem, LengthAssumption
  DEF Move, PopClaimed, IInv, QueueShape
<1>5. Queue # << >>  BY <1>2, <1>4, EmptySeq DEF QueueShape
<1>6. Head(Queue) = cache[First]
  <2>1. Head(Queue) = Queue[1]  BY <1>2, <1>5 DEF QueueShape
  <2>2. Queue[1] = cache[Slot(First, 1 - 1)]  BY <1>2, <1>4 DEF QueueShape
  <2>3. Slot(First, 0) = First
    BY <1>2, SlotStep, LengthAssumption DEF QueueShape
  <2> QED  BY <2>1, <2>2, <2>3
<1>7. Queue' \in Seq(Contents) /\ Len(Queue') = Held - 1
  <2>1. IInv' => QueueShape'  BY QueueType, PTL
  <2> QED  BY <1>3, <2>1 DEF QueueShape, Contents
<1>8. /\ Tail(Queue) \in Seq(Contents) /\ Len(Tail(Queue)) = Held - 1
      /\ \A k \in 1 .. Held - 1 : Tail(Queue)[k] = Queue[k + 1]
  BY <1>2, <1>5, HeadTailProperties DEF QueueShape
<1>9. ASSUME NEW k \in 1 .. Held - 1 PROVE Queue'[k] = Tail(Queue)[k]
  <2>1. /\ k + 1 \in 1 .. Held /\ k - 1 \in 0 .. TASK_QUEUE_LEN - 1
        /\ k - 1 + 1 = k /\ k + 1 - 1 = k
    BY <1>4, LengthAssumption
  <2>2. Queue'[k] = cache[Slot(Advance(First), k - 1)]
    BY <1>3 DEF Queue, Slot
  <2>3. Slot(Advance(First), k - 1) = Slot(First, k)
    BY <1>2, <2>1, SlotStep DEF QueueShape
  <2>4. Queue[k + 1] = cache[Slot(First, k)]
    BY <1>2, <2>1 DEF QueueShape
  <2> QED  BY <1>8, <2>2, <2>3, <2>4
<1>10. Queue' = Tail(Queue)  BY <1>7, <1>8, <1>9, SeqEqual
<1> QED  BY <1>3, <1>5, <1>6, <1>10

(* A quiet step leaves the queue alone: a store goes to the slot behind the
   newest item, which no held item has. *)
LEMMA QuietKeeps ==
  ASSUME IInv, NEW t \in Threads, Quiet(t)
  PROVE  Queue' = Queue
<1>1. Held' = Held /\ First' = First  BY QuietStep DEF IInv
<1>2. CASE PushStore(t)
  <2>1. pc[t] = "pushStore" /\ cache' = [cache EXCEPT ![Slot(First, Held)] = ac[t]]
    BY <1>2 DEF PushStore, Move, IInv, Position
  <2>2. Held \in 0 .. TASK_QUEUE_LEN - 1
    BY <2>1, ClaimedRoom, HeldNat, LengthAssumption DEF PushClaimed, IInv
  <2>3. QueueShape  BY QueueType
  <2>4. ASSUME NEW k \in 1 .. Held
        PROVE  cache'[Slot(First, k - 1)] = cache[Slot(First, k - 1)]
    <3>1. k - 1 \in 0 .. TASK_QUEUE_LEN - 1 /\ k - 1 # Held
      BY <2>2, LengthAssumption
    <3>2. Slot(First, k - 1) \in Slots /\ Slot(First, k - 1) # Slot(First, Held)
      BY <2>2, <2>3, <3>1, SlotStep, SlotInjective DEF QueueShape
    <3> QED  BY <2>1, <3>2 DEF IInv, Typing
  <2> QED  BY <1>1, <2>4 DEF Queue, Slot
<1>3. CASE ~PushStore(t)
  <2>1. cache' = cache
    BY <1>3
    DEF Quiet, ring, PushCall, PushWait, PushLock, PushUnlock, PushPost,
        PopCall, PopWait, PopLock, PopAdvance, PopUnlock, PopPost
  <2> QED  BY <1>1, <2>1 DEF Queue, Slot
<1> QED  BY <1>2, <1>3

-----------------------------------------------------------------------------

(* The phase a line belongs to. *)
PhaseOf(site) ==
    CASE site = "idle" -> "idle"
      [] site \in {"pushWait"} \cup PushClaimed -> "put"
      [] site \in PushStored -> "putDone"
      [] site \in {"popWait"} \cup PopClaimed -> "take"
      [] OTHER -> "takeDone"

(* The phases of the lines. *)
LEMMA PhaseValues ==
  /\ PhaseOf("idle") = "idle"
  /\ \A site \in {"pushWait", "pushLock", "pushStore", "pushAdvance"} :
        PhaseOf(site) = "put"
  /\ \A site \in {"pushUnlock", "pushPost"} : PhaseOf(site) = "putDone"
  /\ \A site \in {"popWait", "popLock", "popLoad"} : PhaseOf(site) = "take"
  /\ \A site \in {"popAdvance", "popUnlock", "popPost"} :
        PhaseOf(site) = "takeDone"
  BY DEF PhaseOf, PushClaimed, PushStored, PopClaimed

(* A thread that moves on enters the phase of its new line. *)
LEMMA PhaseMove ==
  ASSUME Typing, NEW t \in Threads, NEW from, NEW to, Move(t, from, to)
  PROVE  /\ Phase[t] = PhaseOf(from)
         /\ Phase' = [Phase EXCEPT ![t] = PhaseOf(to)]
<1>1. Phase = [u \in Threads |-> PhaseOf(pc[u])]  BY DEF Phase, PhaseOf
<1>2. Phase' = [u \in Threads |-> PhaseOf(pc'[u])]  BY DEF Phase, PhaseOf
<1>3. pc[t] = from /\ \A u \in Threads : pc'[u] = IF u = t THEN to ELSE pc[u]
  BY DEF Move, Typing
<1> HIDE DEF PhaseOf, Phase
<1> QED  BY <1>1, <1>2, <1>3

(* A move within a phase does not show. *)
LEMMA PhaseSame ==
  ASSUME Typing, NEW t \in Threads, NEW from, NEW to, Move(t, from, to),
         PhaseOf(from) = PhaseOf(to)
  PROVE  Phase' = Phase
<1>1. /\ Phase[t] = PhaseOf(from) /\ Phase' = [Phase EXCEPT ![t] = PhaseOf(to)]
  BY PhaseMove
<1>2. Phase = [u \in Threads |-> Phase[u]]  BY DEF Phase
<1> QED  BY <1>1, <1>2

(* What the steps are to the user of the queue.  A step inside a call that
   leaves the queue and the packet alone does not show; *)
LEMMA InsideImplements ==
  ASSUME IInv, NEW t \in Threads, Quiet(t), NEW from, NEW to,
         Move(t, from, to), PhaseOf(from) = PhaseOf(to), ac' = ac
  PROVE  UNCHANGED Fifo!vars
BY QuietKeeps, PhaseSame DEF Fifo!vars, IInv

(* the call of Push puts the packet into the thread's hands; *)
LEMMA PushCallImplements ==
  ASSUME IInv, NEW t \in Producers, NEW item \in Items, PushCall(t, item)
  PROVE  Fifo!PutCall(t, item)
<1>1. Typing /\ t \in Threads /\ Quiet(t)  BY DEF IInv, Threads, Quiet
<1>2. Move(t, "idle", "pushWait")  BY DEF PushCall
<1>3. Fifo!Enter(t, "idle", "put")
  BY <1>1, <1>2, PhaseMove, PhaseValues DEF Fifo!Enter
<1> QED  BY <1>1, <1>3, QuietKeeps DEF PushCall, Fifo!PutCall

(* inside Push, the advance is what puts the packet into the queue; *)
LEMMA PushImplements ==
  ASSUME IInv, IInv', Stored, NEW t \in Producers, PushStep(t)
  PROVE  Fifo!Put(t) \/ Fifo!PutReturn(t) \/ UNCHANGED Fifo!vars
<1>1. Typing /\ t \in Threads  BY DEF IInv, Threads
<1>2. CASE PushAdvance(t)
  <2>1. Move(t, "pushAdvance", "pushUnlock")  BY <1>2 DEF PushAdvance
  <2>2. Fifo!Enter(t, "put", "putDone")
    BY <1>1, <2>1, PhaseMove, PhaseValues DEF Fifo!Enter
  <2> QED  BY <1>2, <2>2, AdvanceAppends DEF PushAdvance, Fifo!Put
<1>3. CASE PushPost(t)
  <2>1. Move(t, "pushPost", "idle") /\ Quiet(t)  BY <1>3 DEF PushPost, Quiet
  <2>2. Fifo!Enter(t, "putDone", "idle")
    BY <1>1, <2>1, PhaseMove, PhaseValues DEF Fifo!Enter
  <2> QED
    BY <1>1, <1>3, <2>1, <2>2, QuietKeeps DEF PushPost, Fifo!PutReturn
<1>4. CASE PushWait(t)
  BY <1>1, <1>4, InsideImplements, PhaseValues DEF PushWait, Quiet
<1>5. CASE PushLock(t)
  BY <1>1, <1>5, InsideImplements, PhaseValues DEF PushLock, Quiet
<1>6. CASE PushStore(t)
  BY <1>1, <1>6, InsideImplements, PhaseValues DEF PushStore, Quiet
<1>7. CASE PushUnlock(t)
  BY <1>1, <1>7, InsideImplements, PhaseValues DEF PushUnlock, Quiet
<1> QED  BY <1>2, <1>3, <1>4, <1>5, <1>6, <1>7 DEF PushStep

(* the call of Pop begins with no packet; *)
LEMMA PopCallImplements ==
  ASSUME IInv, NEW t \in Consumers, PopCall(t)
  PROVE  Fifo!TakeCall(t)
<1>1. Typing /\ t \in Threads /\ Quiet(t)  BY DEF IInv, Threads, Quiet
<1>2. Move(t, "idle", "popWait")  BY DEF PopCall
<1>3. Fifo!Enter(t, "idle", "take")
  BY <1>1, <1>2, PhaseMove, PhaseValues DEF Fifo!Enter
<1> QED  BY <1>1, <1>3, QuietKeeps DEF PopCall, Fifo!TakeCall

(* and inside Pop, the load is what takes the oldest packet. *)
LEMMA PopImplements ==
  ASSUME IInv, IInv', NEW t \in Consumers, PopStep(t)
  PROVE  Fifo!Take(t) \/ Fifo!TakeReturn(t) \/ UNCHANGED Fifo!vars
<1>1. Typing /\ t \in Threads  BY DEF IInv, Threads
<1>2. CASE PopLoad(t)
  <2>1. Move(t, "popLoad", "popAdvance")  BY <1>2 DEF PopLoad
  <2>2. Fifo!Enter(t, "take", "takeDone")
    BY <1>1, <2>1, PhaseMove, PhaseValues DEF Fifo!Enter
  <2> QED  BY <1>2, <2>2, LoadRemoves DEF Fifo!Take
<1>3. CASE PopPost(t)
  <2>1. Move(t, "popPost", "idle") /\ Quiet(t)  BY <1>3 DEF PopPost, Quiet
  <2>2. Fifo!Enter(t, "takeDone", "idle")
    BY <1>1, <2>1, PhaseMove, PhaseValues DEF Fifo!Enter
  <2> QED
    BY <1>1, <1>3, <2>1, <2>2, QuietKeeps DEF PopPost, Fifo!TakeReturn
<1>4. CASE PopWait(t)
  BY <1>1, <1>4, InsideImplements, PhaseValues DEF PopWait, Quiet
<1>5. CASE PopLock(t)
  BY <1>1, <1>5, InsideImplements, PhaseValues DEF PopLock, Quiet
<1>6. CASE PopAdvance(t)
  BY <1>1, <1>6, InsideImplements, PhaseValues DEF PopAdvance, Quiet
<1>7. CASE PopUnlock(t)
  BY <1>1, <1>7, InsideImplements, PhaseValues DEF PopUnlock, Quiet
<1> QED  BY <1>2, <1>3, <1>4, <1>5, <1>6, <1>7 DEF PopStep

(* Every step of the ring is one of the FIFO queue, or a stutter. *)
LEMMA StepImplements ==
  IInv /\ IInv' /\ Stored /\ [Next]_vars => [Fifo!Next]_(Fifo!vars)
<1> SUFFICES ASSUME IInv, IInv', Stored, [Next]_vars
             PROVE  Fifo!Next \/ UNCHANGED Fifo!vars
  OBVIOUS
<1>1. CASE \E t \in Producers, item \in Items : PushCall(t, item)
  BY <1>1, PushCallImplements DEF Fifo!Next
<1>2. CASE \E t \in Producers : PushStep(t)
  BY <1>2, PushImplements DEF Fifo!Next
<1>3. CASE \E t \in Consumers : PopCall(t)
  BY <1>3, PopCallImplements DEF Fifo!Next
<1>4. CASE \E t \in Consumers : PopStep(t)
  BY <1>4, PopImplements DEF Fifo!Next
<1>5. CASE UNCHANGED vars
  BY <1>5
  DEF vars, sems, locks, ring, Fifo!vars, Queue, Phase, Slot, First, Held, Count, At
<1> QED  BY <1>1, <1>2, <1>3, <1>4, <1>5 DEF Next

(* What a push has stored is still in its slot when the push advances. *)
LEMMA AlwaysStored == Spec => []Stored
<1>1. Init => Stored  BY DEF Init, Stored, Threads
<1>2. IInv /\ Stored /\ [Next]_vars => Stored'  BY StoredStep DEF IInv
<1> QED  BY <1>1, <1>2, Inductive, PTL DEF Spec

(* The ring starts as an empty queue. *)
LEMMA InitImplements == Init => Fifo!Init
<1> SUFFICES ASSUME Init PROVE Fifo!Init
  OBVIOUS
<1>1. IInv /\ Held = 0
  BY IInvInit, CountInit DEF Init, Held, PushStored, PopClaimed
<1>2. Queue = << >>  BY <1>1, QueueType, EmptySeq DEF QueueShape
<1>3. Phase = [t \in Threads |-> "idle"]
  BY PhaseValues, Zenon DEF Init, Phase, PhaseOf
<1> QED  BY <1>2, <1>3 DEF Init, Fifo!Init, Threads, Fifo!Threads

(* CTaskQueue is the bounded FIFO queue its users see, with any number of
   pushes and pops in progress at once: no packet is lost, duplicated,
   invented or overtaken, a push waits for room and a pop for a packet. *)
THEOREM ImplementsBoundedFifo == Spec => FifoSpec
BY InitImplements, StepImplements, AlwaysStored, Inductive, PTL
DEF Spec, FifoSpec, Fifo!Spec
=============================================================================
