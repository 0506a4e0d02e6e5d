--------------------------- MODULE ACQueue_proofs ---------------------------
(***************************************************************************)
(* Proofs about ACQueue, for every size of the ring, every width of the    *)
(* indexes that exceeds it and every number of threads: types, the shape   *)
(* of the ring, wake-ups, and the refinement of LossyFifo.                 *)
(***************************************************************************)
EXTENDS ACQueue, SequenceTheorems, TLAPS

Marks == {"idle", "waiting", "timedWaiting", "woken", "timedWoken",
          "timedOut", "crashed"}

(* A remainder below the divisor is the number itself. *)
LEMMA ModSmall ==
  ASSUME NEW n \in Nat \ {0}, NEW i \in 0 .. n - 1
  PROVE  i % n = i /\ n % n = 0
  OBVIOUS

(* The first index used is 0, and each next one is one place further. *)
LEMMA NextIndexValue ==
  /\ NextIndex(MinusOne) = 0
  /\ \A i \in Slots : NextIndex(i) = IF i = MaxSize - 1 THEN 0 ELSE i + 1
<1>1. MaxSize \in Nat \ {0} /\ WordMod \in Nat \ {0} /\ MaxSize < WordMod
  BY SizeAssumption, WordAssumption
<1>2. NextIndex(MinusOne) = 0
  <2>1. WordMod - 1 + 1 = WordMod  BY <1>1
  <2>2. WordMod % WordMod = 0 /\ 0 % MaxSize = 0  BY <1>1, ModSmall
  <2> QED  BY <2>1, <2>2 DEF NextIndex, MinusOne
<1>3. ASSUME NEW i \in Slots
      PROVE  NextIndex(i) = IF i = MaxSize - 1 THEN 0 ELSE i + 1
  <2>1. i + 1 \in 0 .. WordMod - 1  BY <1>1 DEF Slots
  <2>2. (i + 1) % WordMod = i + 1  BY <1>1, <2>1, ModSmall
  <2>3. CASE i = MaxSize - 1
    <3>1. i + 1 = MaxSize  BY <1>1, <2>3
    <3>2. MaxSize % MaxSize = 0  BY <1>1, ModSmall
    <3> QED  BY <2>2, <2>3, <3>1, <3>2 DEF NextIndex
  <2>4. CASE i # MaxSize - 1
    <3>1. i + 1 \in 0 .. MaxSize - 1  BY <1>1, <2>4 DEF Slots
    <3>2. (i + 1) % MaxSize = i + 1  BY <1>1, <3>1, ModSmall
    <3> QED  BY <2>2, <2>4, <3>2 DEF NextIndex
  <2> QED  BY <2>3, <2>4
<1> QED  BY <1>2, <1>3

(* The next index is always in the array. *)
LEMMA NextIndexType == \A i \in Slots \cup {MinusOne} : NextIndex(i) \in Slots
  BY NextIndexValue, SizeAssumption DEF Slots

-----------------------------------------------------------------------------

(* Types, shape and wake-ups together; the shape needs the types. *)
IInv == TypeOK /\ RingShape /\ NoLostWakeup

(* The empty ring has the shape, and nobody waits. *)
LEMMA IInvInit == Init => IInv
<1> SUFFICES ASSUME Init PROVE IInv
  OBVIOUS
<1>1. TypeOK  BY SizeAssumption DEF Init, TypeOK, Slots
<1>2. RingShape
  BY NextIndexValue, SizeAssumption DEF Init, RingShape, Place
<1>3. NoLostWakeup  BY DEF Init, NoLostWakeup
<1> QED  BY <1>1, <1>2, <1>3 DEF IInv

(* A push keeps the shape and leaves nobody asleep. *)
LEMMA PushStep ==
  ASSUME IInv, NEW t \in Producers, NEW item \in Items, Push(t, item)
  PROVE  IInv'
<1> USE SizeAssumption DEF IInv
<1>1. CASE PushRefused(t)
  <2>1. TypeOK'
    BY <1>1 DEF PushRefused, TypeOK, Broadcast, Return, Threads
  <2>2. RingShape'
    BY <1>1 DEF PushRefused, RingShape, Place, NextIndex
  <2>3. NoLostWakeup'
    BY <1>1 DEF PushRefused, NoLostWakeup, Broadcast
  <2> QED  BY <2>1, <2>2, <2>3
<1>2. CASE PushStored(t, item)
  <2>1. m_back' \in Slots
    BY <1>2, NextIndexType DEF PushStored, TypeOK
  <2>2. m_size \in 0 .. MaxSize - 1 /\ m_size' = m_size + 1
    BY <1>2 DEF PushStored, TypeOK, IsFull
  <2>3. TypeOK'
    <3>1. m_array' \in [Slots -> Items \cup {NoItem}]
      BY <1>2, <2>1 DEF PushStored, TypeOK
    <3>2. m_size' \in 0 .. MaxSize  BY <2>2
    <3>3. pc' \in [Threads -> Marks]
      BY <1>2 DEF PushStored, TypeOK, Broadcast, Marks
    <3>4. ret' \in [Threads -> BOOLEAN]
      BY <1>2 DEF PushStored, TypeOK, Return, Threads
    <3> QED
      BY <1>2, <2>1, <3>1, <3>2, <3>3, <3>4 DEF PushStored, TypeOK, Marks
  <2>4. RingShape'
    <3>1. m_back' = Place(m_size)  BY <1>2 DEF PushStored, RingShape
    <3>2. m_front' = m_front /\ NextIndex(m_front) \in Slots
      BY <1>2, NextIndexType DEF PushStored, TypeOK
    <3>3. NextIndex(m_back') = IF m_back' = MaxSize - 1 THEN 0 ELSE m_back' + 1
      BY <2>1, NextIndexValue
    <3> QED
      BY <2>2, <3>1, <3>2, <3>3 DEF RingShape, Place, Slots
  <2>5. NoLostWakeup'
    BY <1>2 DEF PushStored, NoLostWakeup, Broadcast
  <2> QED  BY <2>3, <2>4, <2>5
<1> QED  BY <1>1, <1>2 DEF Push

(* A pop of the oldest packet keeps the invariant, whatever it answers. *)
LEMMA TakeStep ==
  ASSUME IInv, NEW t \in Threads, m_size > 0, TakeFront(t),
         ret' \in [Threads -> BOOLEAN], NEW mark \in {"idle", "crashed"},
         pc' = [pc EXCEPT ![t] = mark]
  PROVE  IInv'
<1> USE SizeAssumption DEF IInv
<1>1. m_front' \in Slots /\ m_front' = NextIndex(m_front)
  BY NextIndexType DEF TakeFront, TypeOK
<1>2. m_size \in 1 .. MaxSize /\ m_size' = m_size - 1
  BY DEF TakeFront, TypeOK
<1>3. TypeOK'
  <2>1. m_size' \in 0 .. MaxSize  BY <1>2
  <2>2. /\ ac' \in [Threads -> Items \cup {NoItem}]
        /\ m_array' \in [Slots -> Items \cup {NoItem}]
    BY <1>1 DEF TakeFront, TypeOK
  <2> QED  BY <1>1, <2>1, <2>2 DEF TakeFront, TypeOK
<1>4. RingShape'
  <2>1. m_back' = m_back /\ NextIndex(m_back) = Place(m_size)
    BY DEF TakeFront, RingShape
  <2>2. NextIndex(m_front') = IF m_front' = MaxSize - 1 THEN 0 ELSE m_front' + 1
    BY <1>1, NextIndexValue
  <2> QED  BY <1>1, <1>2, <2>1, <2>2 DEF RingShape, Place, Slots
<1>5. NoLostWakeup'
  BY <1>2 DEF TakeFront, NoLostWakeup, TypeOK
<1> QED  BY <1>3, <1>4, <1>5

(* Clear restarts the ring. *)
LEMMA ClearStep == ASSUME IInv, NEW t \in Threads, Clear(t) PROVE IInv'
<1> USE SizeAssumption DEF IInv
<1>1. TypeOK'  BY DEF Clear, TypeOK
<1>2. RingShape'  BY NextIndexValue DEF Clear, RingShape, Place
<1>3. NoLostWakeup'  BY DEF Clear, NoLostWakeup
<1> QED  BY <1>1, <1>2, <1>3

(* A step that changes neither the ring nor, except for sleepers that find
   the queue empty, who sleeps. *)
LEMMA OtherStep ==
  ASSUME IInv, UNCHANGED <<m_array, m_size, m_front, m_back, ac>>,
         ret' \in [Threads -> BOOLEAN], NEW t \in Threads, NEW mark \in Marks,
         pc' = [pc EXCEPT ![t] = mark],
         mark \in {"waiting", "timedWaiting"} => m_size = 0
  PROVE  IInv'
<1> USE DEF IInv
<1>1. TypeOK'  BY DEF TypeOK, Marks
<1>2. RingShape'  BY DEF RingShape, Place, NextIndex
<1>3. NoLostWakeup'  BY DEF NoLostWakeup, TypeOK
<1> QED  BY <1>1, <1>2, <1>3

(* A pop that gives up has stopped waiting. *)
LEMMA GiveUpStep ==
  ASSUME IInv, NEW t \in Threads, GivesUp(t)
  PROVE  IInv'
<1>1. ret' \in [Threads -> BOOLEAN]  BY DEF GivesUp, Return, IInv, TypeOK
<1> QED  BY <1>1, OtherStep DEF GivesUp, Marks

(* Every step keeps the invariant. *)
LEMMA IInvStep == IInv /\ [Next]_vars => IInv'
<1> SUFFICES ASSUME IInv, [Next]_vars PROVE IInv'
  OBVIOUS
<1>1. ret \in [Threads -> BOOLEAN]  BY DEF IInv, TypeOK
<1>2. ASSUME NEW t \in Producers, NEW item \in Items, Push(t, item) PROVE IInv'
  BY <1>2, PushStep
<1>3. ASSUME NEW t \in Consumers, Pop(t) PROVE IInv'
  <2>1. t \in Threads  BY DEF Threads
  <2>2. CASE PopWaits(t)
    BY <1>1, <2>1, <2>2, OtherStep DEF PopWaits, Wait, Marks
  <2>3. CASE PopTakes(t)
    <3>1. ret' \in [Threads -> BOOLEAN]
      BY <1>1, <2>1, <2>3 DEF PopTakes, Return
    <3> QED  BY <2>1, <2>3, <3>1, TakeStep DEF PopTakes
  <2>4. CASE PopFails(t)
    BY <1>1, <2>1, <2>4, GiveUpStep DEF PopFails
  <2> QED  BY <1>3, <2>2, <2>3, <2>4 DEF Pop
<1>4. ASSUME NEW t \in Consumers, TimedPop(t) PROVE IInv'
  <2>1. t \in Threads  BY DEF Threads
  <2>2. CASE TimedPopWaits(t)
    BY <1>1, <2>1, <2>2, OtherStep DEF TimedPopWaits, Wait, Marks
  <2>3. CASE TimedPopTakes(t)
    <3>1. ret' \in [Threads -> BOOLEAN]
      BY <1>1, <2>1, <2>3 DEF TimedPopTakes, Return
    <3> QED  BY <2>1, <2>3, <3>1, TakeStep DEF TimedPopTakes
  <2>4. CASE TimedPopGivesUp(t)
    BY <2>1, <2>4, GiveUpStep DEF TimedPopGivesUp
  <2>5. CASE TimedPopTimesOut(t)
    BY <1>1, <2>1, <2>5, OtherStep DEF TimedPopTimesOut, Wait, Marks
  <2>6. CASE TimedPopRunsOn(t)
    BY <1>1, <2>1, <2>6, TakeStep DEF TimedPopRunsOn
  <2> QED  BY <1>4, <2>2, <2>3, <2>4, <2>5, <2>6 DEF TimedPop
<1>5. ASSUME NEW t \in Consumers, SpuriousWake(t) PROVE IInv'
  BY <1>1, <1>5, OtherStep DEF SpuriousWake, Marks, Threads
<1>6. ASSUME NEW t \in Threads, Clear(t) PROVE IInv'
  BY <1>6, ClearStep
<1>7. CASE UNCHANGED vars
  BY <1>7 DEF vars, IInv, TypeOK, RingShape, Place, NextIndex, NoLostWakeup
<1> QED  BY <1>2, <1>3, <1>4, <1>5, <1>6, <1>7 DEF Next, Calls

(* Every behaviour satisfies the invariant. *)
THEOREM Inductive == Spec => []IInv
  BY IInvInit, IInvStep, PTL DEF Spec

(* The size never leaves 0 .. m_max_size (an unsigned m_size-- never wraps)
   and the indexes never leave the array, although they start at 2^32 - 1. *)
THEOREM TypeCorrect == Spec => []TypeOK
<1>1. IInv => TypeOK  BY DEF IInv
<1> QED  BY <1>1, Inductive, PTL

(* Front, back and size agree for ever. *)
THEOREM RingShapeCorrect == Spec => []RingShape
<1>1. IInv => RingShape  BY DEF IInv
<1> QED  BY <1>1, Inductive, PTL

(* The output thread never sleeps on a queue that holds a packet. *)
THEOREM WakeupsKept == Spec => []NoLostWakeup
<1>1. IInv => NoLostWakeup  BY DEF IInv
<1> QED  BY <1>1, Inductive, PTL

-----------------------------------------------------------------------------
(* The refinement: CACQueue implements LossyFifo. *)

Contents == Items \cup {NoItem}

(* A place of a packet in the ring is a slot, and places below m_max_size
   are pairwise different. *)
LEMMA PlaceType ==
  ASSUME TypeOK
  PROVE  /\ \A k \in 0 .. MaxSize : Place(k) \in Slots
         /\ \A j, k \in 0 .. MaxSize - 1 : Place(j) = Place(k) => j = k
<1>1. NextIndex(m_front) \in Slots  BY NextIndexType DEF TypeOK
<1> QED  BY <1>1, SizeAssumption DEF Place, Slots

QueueShape ==
    /\ Queue \in Seq(Contents)
    /\ Len(Queue) = m_size
    /\ \A k \in 1 .. m_size : Queue[k] = m_array[Place(k - 1)]

(* The abstract queue is a sequence of m_size packets. *)
LEMMA QueueType == TypeOK => QueueShape
<1> SUFFICES ASSUME TypeOK PROVE QueueShape
  OBVIOUS
<1>1. m_size \in Nat /\ m_size <= MaxSize  BY SizeAssumption DEF TypeOK
<1>2. \A k \in 1 .. m_size : m_array[Place(k - 1)] \in Contents
  <2> SUFFICES ASSUME NEW k \in 1 .. m_size
               PROVE  m_array[Place(k - 1)] \in Contents
    OBVIOUS
  <2>1. k - 1 \in 0 .. MaxSize  BY <1>1, SizeAssumption
  <2>2. Place(k - 1) \in Slots  BY <2>1, PlaceType
  <2> QED  BY <2>2 DEF TypeOK, Contents
<1>3. Queue \in [1 .. m_size -> Contents]  BY <1>2 DEF Queue
<1>4. Queue \in Seq(Contents)  BY <1>1, <1>3, SeqDef
<1>5. Len(Queue) = m_size
  <2>1. Len(Queue) \in Nat /\ DOMAIN Queue = 1 .. Len(Queue)
    BY <1>4, LenProperties
  <2> QED  BY <1>1, <1>3, <2>1
<1> QED  BY <1>4, <1>5 DEF Queue, QueueShape

(* The queue stays what it is when the ring does. *)
LEMMA QueueSame ==
  UNCHANGED <<m_array, m_size, m_front>> => Queue' = Queue
  BY DEF Queue, Place, NextIndex

(* A packet that is stored is appended to the queue. *)
LEMMA StoreAppends ==
  ASSUME IInv, IInv', NEW t \in Producers, NEW item \in Items,
         PushStored(t, item)
  PROVE  Queue' = Append(Queue, item)
<1>1. TypeOK /\ RingShape /\ TypeOK'  BY DEF IInv
<1>2. /\ m_size \in 0 .. MaxSize - 1 /\ m_size' = m_size + 1
      /\ m_front' = m_front
      /\ m_array' = [m_array EXCEPT ![Place(m_size)] = item]
  BY <1>1, SizeAssumption DEF TypeOK, PushStored, IsFull, RingShape
<1>3. /\ Queue \in Seq(Contents) /\ Len(Queue) = m_size
      /\ Queue' \in Seq(Contents) /\ Len(Queue') = m_size + 1
  <2>1. TypeOK' => QueueShape'  BY QueueType, PTL
  <2> QED  BY <1>1, <1>2, <2>1, QueueType DEF QueueShape, Contents
<1>4. item \in Contents  BY DEF Contents
<1>5. \A k \in 1 .. m_size + 1 :
         Queue'[k] = m_array'[Place(k - 1)]
  BY <1>2 DEF Queue, Place, NextIndex
<1>6. ASSUME NEW k \in 1 .. m_size + 1
      PROVE  Queue'[k] = Append(Queue, item)[k]
  <2>1. k - 1 \in 0 .. MaxSize - 1 /\ m_size \in 0 .. MaxSize - 1
    BY <1>2, SizeAssumption
  <2>2. Place(k - 1) \in Slots /\ Place(m_size) \in Slots
    BY <1>1, <2>1, PlaceType, SizeAssumption
  <2>3. CASE k = m_size + 1
    <3>1. k - 1 = m_size  BY <1>2, <2>3, SizeAssumption
    <3>2. Queue'[k] = item  BY <1>1, <1>2, <1>5, <2>2, <3>1 DEF TypeOK
    <3> QED  BY <1>3, <1>4, <2>3, <3>2, AppendProperties
  <2>4. CASE k \in 1 .. m_size
    <3>1. k - 1 # m_size  BY <1>2, <2>4, SizeAssumption
    <3>2. Place(k - 1) # Place(m_size)  BY <1>1, <2>1, <3>1, PlaceType
    <3>3. Queue'[k] = m_array[Place(k - 1)]
      BY <1>1, <1>2, <1>5, <2>2, <3>2 DEF TypeOK
    <3>4. Queue'[k] = Queue[k]
      BY <1>1, <2>4, <3>3, QueueType DEF QueueShape
    <3> QED  BY <1>3, <1>4, <2>4, <3>4, AppendProperties
  <2>5. k = m_size + 1 \/ k \in 1 .. m_size  BY <1>2, SizeAssumption
  <2> QED  BY <2>3, <2>4, <2>5
<1> HIDE DEF Queue
<1>7. /\ Append(Queue, item) \in Seq(Contents)
      /\ Len(Append(Queue, item)) = m_size + 1
  BY <1>3, <1>4, AppendProperties
<1> QED  BY <1>3, <1>6, <1>7, SeqEqual

(* The packet a pop copies out is the head of the queue, which it removes. *)
LEMMA TakeRemoves ==
  ASSUME IInv, IInv', NEW t \in Threads, m_size > 0, TakeFront(t)
  PROVE  /\ Queue # << >>
         /\ ac' = [ac EXCEPT ![t] = Head(Queue)]
         /\ Queue' = Tail(Queue)
<1>1. TypeOK /\ TypeOK'  BY DEF IInv
<1>2. /\ m_size \in 1 .. MaxSize /\ m_size' = m_size - 1
      /\ m_front' = Place(0) /\ m_front' \in Slots
      /\ m_array' = [m_array EXCEPT ![Place(0)] = NoItem]
      /\ ac' = [ac EXCEPT ![t] = m_array[Place(0)]]
  <2>1. m_size \in 1 .. MaxSize /\ m_size' = m_size - 1
    BY <1>1, SizeAssumption DEF TypeOK, TakeFront
  <2>2. m_front' = NextIndex(m_front) /\ m_front' \in Slots
    BY <1>1, NextIndexType DEF TypeOK, TakeFront
  <2>3. Place(0) = m_front'
    BY <2>2, SizeAssumption DEF Place, Slots
  <2> QED  BY <2>1, <2>2, <2>3 DEF TakeFront
<1>3. /\ Queue \in Seq(Contents) /\ Len(Queue) = m_size
      /\ Queue' \in Seq(Contents) /\ Len(Queue') = m_size - 1
  <2>1. TypeOK' => QueueShape'  BY QueueType, PTL
  <2> QED  BY <1>1, <1>2, <2>1, QueueType DEF QueueShape, Contents
<1>4. Queue # << >>
  BY <1>2, <1>3, EmptySeq
<1>5. Head(Queue) = m_array[Place(0)]
  <2>1. Head(Queue) = Queue[1]  BY <1>3, <1>4
  <2>2. Queue[1] = m_array[Place(1 - 1)]
    BY <1>1, <1>2, QueueType DEF QueueShape
  <2> QED  BY <2>1, <2>2
<1>6. /\ Tail(Queue) \in Seq(Contents) /\ Len(Tail(Queue)) = m_size - 1
      /\ \A k \in 1 .. m_size - 1 : Tail(Queue)[k] = Queue[k + 1]
  BY <1>3, <1>4, HeadTailProperties
<1>7. \A k \in 0 .. MaxSize - 1 : Place(k)' = Place(k + 1)
  <2>1. NextIndex(m_front') = IF m_front' = MaxSize - 1 THEN 0 ELSE m_front' + 1
    BY <1>2, NextIndexValue
  <2>2. NextIndex(m_front) = m_front'  BY DEF TakeFront
  <2> QED  BY <1>2, <2>1, <2>2, SizeAssumption DEF Place, Slots
<1>8. ASSUME NEW k \in 1 .. m_size - 1
      PROVE  Queue'[k] = Tail(Queue)[k]
  <2>1. /\ k \in 1 .. MaxSize - 1 /\ k - 1 \in 0 .. MaxSize - 1
        /\ k + 1 \in 1 .. m_size /\ k - 1 + 1 = k /\ k + 1 - 1 = k
    BY <1>2, SizeAssumption
  <2>2. Queue'[k] = m_array'[Place(k - 1)']
    BY <1>2 DEF Queue
  <2>3. Place(k - 1)' = Place(k)  BY <1>7, <2>1
  <2>4. Place(k) # Place(0) /\ Place(k) \in Slots /\ Place(0) \in Slots
    BY <1>1, <2>1, PlaceType, SizeAssumption
  <2>5. Queue'[k] = m_array[Place(k)]
    BY <1>1, <1>2, <2>2, <2>3, <2>4 DEF TypeOK
  <2>6. Queue[k + 1] = m_array[Place(k)]
    BY <1>1, <2>1, QueueType DEF QueueShape
  <2> QED  BY <1>6, <2>5, <2>6
<1>9. Queue' = Tail(Queue)
  BY <1>3, <1>6, <1>8, SeqEqual
<1> QED  BY <1>2, <1>4, <1>5, <1>9

(* The steps that leave the queue and the results alone are stutters. *)
LEMMA Stutter ==
  UNCHANGED <<m_array, m_size, m_front, ac, ret>> => UNCHANGED Lossy!vars
  BY QueueSame DEF Lossy!vars

(* Every step of the ring is one of the lossy queue, or a stutter. *)
LEMMA StepImplements ==
  IInv /\ IInv' /\ [Next]_vars => [Lossy!Next]_(Lossy!vars)
<1> SUFFICES ASSUME IInv, IInv', [Next]_vars
             PROVE  Lossy!Next \/ UNCHANGED Lossy!vars
  OBVIOUS
<1>1. Len(Queue) = m_size /\ m_size \in 0 .. MaxSize
  BY QueueType DEF IInv, TypeOK, QueueShape
<1>2. ASSUME NEW t \in Producers, NEW item \in Items, Push(t, item)
      PROVE  Lossy!Put(t, item)
  <2>1. CASE PushRefused(t)
    <3>1. Queue' = Queue  BY <2>1, QueueSame DEF PushRefused
    <3>2. ~(Len(Queue) < MaxSize)
      BY <1>1, <2>1, SizeAssumption DEF PushRefused, IsFull
    <3>3. (Len(Queue) < MaxSize) = FALSE  BY <3>2
    <3> QED  BY <2>1, <3>1, <3>3, Zenon DEF PushRefused, Return, Lossy!Put
  <2>2. CASE PushStored(t, item)
    <3>1. Queue' = Append(Queue, item)  BY <2>2, StoreAppends
    <3>2. Len(Queue) < MaxSize
      BY <1>1, <2>2, SizeAssumption DEF PushStored, IsFull
    <3> QED  BY <2>2, <3>1, <3>2 DEF PushStored, Return, Lossy!Put
  <2> QED  BY <1>2, <2>1, <2>2 DEF Push
<1>3. ASSUME NEW t \in Threads, NEW answer \in BOOLEAN, m_size > 0,
             TakeFront(t), Return(t, answer)
      PROVE  Lossy!Take(t, answer)
  BY <1>3, TakeRemoves DEF Return, Lossy!Take
<1>4. ASSUME NEW t \in Consumers, Pop(t)
      PROVE  Lossy!Next \/ UNCHANGED Lossy!vars
  <2>1. CASE PopWaits(t)  BY <2>1, Stutter DEF PopWaits, Wait
  <2>2. CASE PopTakes(t)
    <3>1. Lossy!Take(t, TRUE)  BY <1>3, <2>2 DEF PopTakes, Threads
    <3> QED  BY <3>1 DEF Lossy!Next, Threads
  <2>3. CASE PopFails(t)
    <3>1. Lossy!GiveUp(t)
      BY <2>3, QueueSame DEF PopFails, GivesUp, Return, Lossy!GiveUp
    <3> QED  BY <3>1 DEF Lossy!Next, Threads
  <2> QED  BY <1>4, <2>1, <2>2, <2>3 DEF Pop
<1>5. ASSUME NEW t \in Consumers, TimedPop(t)
      PROVE  Lossy!Next \/ UNCHANGED Lossy!vars
  <2>1. CASE TimedPopWaits(t)  BY <2>1, Stutter DEF TimedPopWaits, Wait
  <2>2. CASE TimedPopTakes(t)
    <3>1. PICK answer \in BOOLEAN : Return(t, answer)
      BY <2>2 DEF TimedPopTakes
    <3>2. Lossy!Take(t, answer)
      BY <1>3, <2>2, <3>1 DEF TimedPopTakes, Threads
    <3> QED  BY <3>2 DEF Lossy!Next, Threads
  <2>3. CASE TimedPopGivesUp(t)
    <3>1. Lossy!GiveUp(t)
      BY <2>3, QueueSame DEF TimedPopGivesUp, GivesUp, Return, Lossy!GiveUp
    <3> QED  BY <3>1 DEF Lossy!Next, Threads
  <2>4. CASE TimedPopTimesOut(t)  BY <2>4, Stutter DEF TimedPopTimesOut, Wait
  <2>5. CASE TimedPopRunsOn(t)
    <3>1. ret \in [Threads -> BOOLEAN] /\ t \in Threads
      BY DEF IInv, TypeOK, Threads
    <3>2. Return(t, ret[t]) /\ ret[t] \in BOOLEAN
      BY <2>5, <3>1 DEF TimedPopRunsOn, Return
    <3>3. Lossy!Take(t, ret[t])
      BY <1>3, <2>5, <3>1, <3>2 DEF TimedPopRunsOn
    <3> QED  BY <3>1, <3>2, <3>3 DEF Lossy!Next
  <2> QED  BY <1>5, <2>1, <2>2, <2>3, <2>4, <2>5 DEF TimedPop
<1>6. ASSUME NEW t \in Consumers, SpuriousWake(t) PROVE UNCHANGED Lossy!vars
  BY <1>6, Stutter DEF SpuriousWake
<1>7. ASSUME NEW t \in Threads, Clear(t) PROVE Lossy!Clear
  <2>1. Queue' \in Seq(Contents) /\ Len(Queue') = 0
    <3>1. TypeOK' => QueueShape'  BY QueueType, PTL
    <3> QED  BY <1>7, <3>1 DEF IInv, QueueShape, Clear, Contents
  <2>2. Queue' = << >>  BY <2>1, EmptySeq
  <2> QED  BY <1>7, <2>2 DEF Clear, Lossy!Clear
<1>8. CASE UNCHANGED vars  BY <1>8, Stutter DEF vars
<1>9. CASE \E t \in Producers, item \in Items : Push(t, item)
  BY <1>2, <1>9 DEF Lossy!Next, Threads
<1> QED
  BY <1>4, <1>5, <1>6, <1>7, <1>8, <1>9 DEF Next, Calls, Lossy!Next

(* CACQueue is the lossy FIFO queue its users see: through every wrap of the
   indexes, every Clear, every wait and every wake-up, no packet it accepted
   is lost, duplicated or overtaken, and it refuses one only when full. *)
THEOREM ImplementsLossyFifo == Spec => LossySpec
<1>1. Init => Lossy!Init
  <2> SUFFICES ASSUME Init PROVE Lossy!Init
    OBVIOUS
  <2>1. TypeOK /\ m_size = 0  BY IInvInit DEF IInv, Init
  <2>2. Queue = << >>  BY <2>1, QueueType, EmptySeq DEF QueueShape
  <2> QED  BY <2>2 DEF Init, Lossy!Init
<1> QED
  BY <1>1, StepImplements, Inductive, PTL DEF Spec, LossySpec, Lossy!Spec
=============================================================================
