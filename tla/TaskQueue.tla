----------------------------- MODULE TaskQueue -----------------------------
(***************************************************************************)
(* CTaskQueue (source/TaskQueue.cpp): the ring of AnalContent pointers     *)
(* between the capture thread and the protocol workers.  Two counting      *)
(* semaphores bound it, one mutex serialises the pushes, another the pops; *)
(* a push and a pop run concurrently on the same ring.  A step is one call *)
(* of the pthread library or one access to the shared pointers.            *)
(***************************************************************************)
EXTENDS Naturals, FiniteSets, Sequences

CONSTANTS
    Producers,       \* the threads that call Push
    Consumers,       \* the threads that call Pop
    Items,           \* the pointers that are pushed
    TASK_QUEUE_LEN,  \* the number of slots (1000 in the code)
    NoItem,          \* what a pointer holds that points to no packet
    Nobody           \* the owner of a free mutex

ASSUME LengthAssumption == TASK_QUEUE_LEN \in Nat \ {0}
ASSUME ThreadsAssumption ==
    /\ IsFiniteSet(Producers) /\ IsFiniteSet(Consumers)
    /\ Producers \cap Consumers = {}
    /\ Nobody \notin Producers \cup Consumers

VARIABLES
    semProducer,     \* m_semProducer: the slots a push may still claim
    semConsumer,     \* m_semConsumer: the items a pop may still claim
    mutexProducer,   \* the owner of m_mutexProducer
    mutexConsumer,   \* the owner of m_mutexConsumer
    cache,           \* the slots, from m_cacheHead to m_cacheTail
    cacheProducer,   \* m_cacheProducer, as an index: the slot to store into
    cacheConsumer,   \* m_cacheConsumer, as an index: the slot to load from
    pc,              \* pc[t]: the line at which thread t is
    ac               \* ac[t]: the parameter ac of the call of thread t

sems == <<semProducer, semConsumer>>
locks == <<mutexProducer, mutexConsumer>>
ring == <<cache, cacheProducer, cacheConsumer>>
vars == <<sems, locks, ring, pc, ac>>

Threads == Producers \cup Consumers
Slots == 0 .. TASK_QUEUE_LEN - 1

(* The slots come from malloc: they hold anything until they are stored to.
   NoItem stands for it, and no pop may ever return it. *)
Init ==
    /\ semProducer = TASK_QUEUE_LEN
    /\ semConsumer = 0
    /\ mutexProducer = Nobody
    /\ mutexConsumer = Nobody
    /\ cache = [s \in Slots |-> NoItem]
    /\ cacheProducer = 0
    /\ cacheConsumer = 0
    /\ pc = [t \in Threads |-> "idle"]
    /\ ac = [t \in Threads |-> NoItem]

-----------------------------------------------------------------------------

(* Bugs: the test for m_cacheTail is missing, or it is one slot early. *)
AdvanceNoWrap(s) == s + 1
AdvanceShort(s) == IF s = TASK_QUEUE_LEN - 2 THEN 0 ELSE s + 1

(* A pointer steps to the next slot, and from m_cacheTail to m_cacheHead. *)
Advance(s) == IF s = TASK_QUEUE_LEN - 1 THEN 0 ELSE s + 1

(* Bug: it looks one slot ahead. *)
IsEmptyAhead == cacheConsumer = Advance(cacheProducer)

(* IsEmpty: it compares the two pointers and takes no lock. *)
IsEmpty == cacheConsumer = cacheProducer

Move(t, from, to) ==
    /\ pc[t] = from
    /\ pc' = [pc EXCEPT ![t] = to]

(* Push(ac): the call, sem_wait, lock, store, advance, unlock, sem_post. *)
PushCall(t, item) ==
    /\ Move(t, "idle", "pushWait")
    /\ ac' = [ac EXCEPT ![t] = item]
    /\ UNCHANGED <<sems, locks, ring>>

(* Bug: the semaphore is tested and not decremented. *)
PushWaitKeeps(t) ==
    /\ semProducer > 0
    /\ Move(t, "pushWait", "pushLock")
    /\ UNCHANGED <<sems, locks, ring, ac>>

PushWait(t) ==
    /\ semProducer > 0
    /\ Move(t, "pushWait", "pushLock")
    /\ semProducer' = semProducer - 1
    /\ UNCHANGED <<semConsumer, locks, ring, ac>>

(* Bug: the producers do not lock. *)
PushLockFree(t) ==
    /\ Move(t, "pushLock", "pushStore")
    /\ mutexProducer' = t
    /\ UNCHANGED <<sems, mutexConsumer, ring, ac>>

PushLock(t) ==
    /\ mutexProducer = Nobody
    /\ Move(t, "pushLock", "pushStore")
    /\ mutexProducer' = t
    /\ UNCHANGED <<sems, mutexConsumer, ring, ac>>

PushStore(t) ==
    /\ Move(t, "pushStore", "pushAdvance")
    /\ cache' = [cache EXCEPT ![cacheProducer] = ac[t]]
    /\ UNCHANGED <<sems, locks, cacheProducer, cacheConsumer, ac>>

PushAdvance(t) ==
    /\ Move(t, "pushAdvance", "pushUnlock")
    /\ cacheProducer' = Advance(cacheProducer)
    /\ UNCHANGED <<sems, locks, cache, cacheConsumer, ac>>

PushUnlock(t) ==
    /\ Move(t, "pushUnlock", "pushPost")
    /\ mutexProducer' = Nobody
    /\ UNCHANGED <<sems, mutexConsumer, ring, ac>>

(* The last step also ends the caller's use of its pointer: CMyPcapDump's
   CallBack returns, and the packet is the queue's. *)
PushPost(t) ==
    /\ Move(t, "pushPost", "idle")
    /\ semConsumer' = semConsumer + 1
    /\ ac' = [ac EXCEPT ![t] = NoItem]
    /\ UNCHANGED <<semProducer, locks, ring>>

(* Pop(ac), called by CDealProtPkg::Run with ac = NULL. *)
PopCall(t) ==
    /\ Move(t, "idle", "popWait")
    /\ ac' = [ac EXCEPT ![t] = NoItem]
    /\ UNCHANGED <<sems, locks, ring>>

PopWait(t) ==
    /\ semConsumer > 0
    /\ Move(t, "popWait", "popLock")
    /\ semConsumer' = semConsumer - 1
    /\ UNCHANGED <<semProducer, locks, ring, ac>>

(* Bug: the consumers do not lock. *)
PopLockFree(t) ==
    /\ Move(t, "popLock", "popLoad")
    /\ mutexConsumer' = t
    /\ UNCHANGED <<sems, mutexProducer, ring, ac>>

PopLock(t) ==
    /\ mutexConsumer = Nobody
    /\ Move(t, "popLock", "popLoad")
    /\ mutexConsumer' = t
    /\ UNCHANGED <<sems, mutexProducer, ring, ac>>

PopLoad(t) ==
    /\ Move(t, "popLoad", "popAdvance")
    /\ ac' = [ac EXCEPT ![t] = cache[cacheConsumer]]
    /\ UNCHANGED <<sems, locks, ring>>

PopAdvance(t) ==
    /\ Move(t, "popAdvance", "popUnlock")
    /\ cacheConsumer' = Advance(cacheConsumer)
    /\ UNCHANGED <<sems, locks, cache, cacheProducer, ac>>

PopUnlock(t) ==
    /\ Move(t, "popUnlock", "popPost")
    /\ mutexConsumer' = Nobody
    /\ UNCHANGED <<sems, mutexProducer, ring, ac>>

PopPost(t) ==
    /\ Move(t, "popPost", "idle")
    /\ semProducer' = semProducer + 1
    /\ UNCHANGED <<semConsumer, locks, ring, ac>>

(* What a thread does inside a call it has made. *)
PushStep(t) ==
    \/ PushWait(t) \/ PushLock(t) \/ PushStore(t)
    \/ PushAdvance(t) \/ PushUnlock(t) \/ PushPost(t)

PopStep(t) ==
    \/ PopWait(t) \/ PopLock(t) \/ PopLoad(t)
    \/ PopAdvance(t) \/ PopUnlock(t) \/ PopPost(t)

Next ==
    \/ \E t \in Producers, item \in Items : PushCall(t, item)
    \/ \E t \in Producers : PushStep(t)
    \/ \E t \in Consumers : PopCall(t)
    \/ \E t \in Consumers : PopStep(t)

Spec == Init /\ [][Next]_vars

-----------------------------------------------------------------------------

PushSites == {"pushWait", "pushLock", "pushStore", "pushAdvance",
              "pushUnlock", "pushPost"}
PopSites == {"popWait", "popLock", "popLoad", "popAdvance",
             "popUnlock", "popPost"}

(* The variables stay in their types: every thread only at the lines of the
   call it makes, the pointers inside the ring. *)
TypeOK ==
    /\ semProducer \in 0 .. TASK_QUEUE_LEN
    /\ semConsumer \in 0 .. TASK_QUEUE_LEN
    /\ mutexProducer \in Producers \cup {Nobody}
    /\ mutexConsumer \in Consumers \cup {Nobody}
    /\ cache \in [Slots -> Items \cup {NoItem}]
    /\ cacheProducer \in Slots
    /\ cacheConsumer \in Slots
    /\ pc \in [Threads -> {"idle"} \cup PushSites \cup PopSites]
    /\ \A t \in Producers : pc[t] \notin PopSites
    /\ \A t \in Consumers : pc[t] \notin PushSites
    /\ ac \in [Threads -> Items \cup {NoItem}]
    /\ \A t \in Threads : pc[t] \in PushSites => ac[t] \in Items

(* The threads at one of the lines S, and how many they are. *)
At(S) == {t \in Threads : pc[t] \in S}
Count(S) == Cardinality(At(S))

(* The lines at which a mutex is held. *)
PushCritical == {"pushStore", "pushAdvance", "pushUnlock"}
PopCritical == {"popLoad", "popAdvance", "popUnlock"}

(* A mutex is held exactly while its owner is between lock and unlock; so
   at most one thread stores, and at most one loads. *)
Exclusion ==
    /\ \A t \in Threads : pc[t] \in PushCritical <=> mutexProducer = t
    /\ \A t \in Threads : pc[t] \in PopCritical <=> mutexConsumer = t

(* Where a thread stands with the slot it works on: a push has claimed it,
   or stored it and not announced it; a pop has claimed it, or loaded it and
   not given it back. *)
PushClaimed == {"pushLock", "pushStore", "pushAdvance"}
PushStored == {"pushUnlock", "pushPost"}
PopClaimed == {"popLock", "popLoad"}
PopLoaded == {"popAdvance", "popUnlock", "popPost"}

(* The slots that hold an item no pop has loaded: those the semaphore
   announces, those stored and not announced yet, and those a pop has claimed
   and not loaded yet. *)
Held == semConsumer + Count(PushStored) + Count(PopClaimed)

(* The other slots: those the semaphore offers, those a push has claimed and
   not advanced past, and those a pop has loaded and not given back. *)
Free == semProducer + Count(PushClaimed) + Count(PopLoaded)

(* Every slot is either free or held, so the semaphores never lose a slot nor
   count one twice. *)
Accounting == Free + Held = TASK_QUEUE_LEN

(* The slot k places after slot s. *)
Slot(s, k) == IF s + k < TASK_QUEUE_LEN THEN s + k ELSE s + k - TASK_QUEUE_LEN

(* The slot of the oldest held item.  Between the load of a pop and its
   advance the consumer pointer is one behind. *)
First == IF \E t \in Consumers : pc[t] = "popAdvance"
         THEN Advance(cacheConsumer)
         ELSE cacheConsumer

(* The two pointers are always as far apart as the semaphores say, although
   no lock protects them together. *)
Position == cacheProducer = Slot(First, Held)

(* IsEmpty cannot tell an empty ring from a full one: it answers true
   exactly when no slot, or every slot, lies between the two pointers. *)
IsEmptyAnswer ==
    IsEmpty <=> Held + Count({"popAdvance"}) \in {0, TASK_QUEUE_LEN}

(* Refinement: the ring is a bounded FIFO queue.  The push takes effect when
   the pointer is advanced, the pop when the item is loaded. *)
Queue == [k \in 1 .. Held |-> cache[Slot(First, k - 1)]]

Phase == [t \in Threads |->
    CASE pc[t] = "idle" -> "idle"
      [] pc[t] \in {"pushWait"} \cup PushClaimed -> "put"
      [] pc[t] \in PushStored -> "putDone"
      [] pc[t] \in {"popWait"} \cup PopClaimed -> "take"
      [] OTHER -> "takeDone"]

Fifo == INSTANCE BoundedFifo
          WITH Capacity <- TASK_QUEUE_LEN, queue <- Queue, phase <- Phase

(* Every behaviour of the ring is one of a bounded FIFO queue: no item is
   lost, duplicated, invented or overtaken by a later one. *)
FifoSpec == Fifo!Spec
=============================================================================
