------------------------------ MODULE ACQueue ------------------------------
(***************************************************************************)
(* CACQueue (source/ACQueue.cpp): the ring of analysed packets between the *)
(* protocol workers and the output thread.  One mutex guards everything,   *)
(* so a step is one critical section: from the lock, or from the return of *)
(* pthread_cond_wait, to the unlock or to the next wait.                   *)
(***************************************************************************)
EXTENDS Naturals, FiniteSets, Sequences

CONSTANTS
    Producers,   \* the threads that call Push
    Consumers,   \* the threads that call Pop
    Items,       \* the contents of packets
    MaxSize,     \* m_max_size (100 in the code)
    WordMod,     \* 2^32: the indexes are DWORDs
    NoItem       \* an AnalContent after acInit: no buffer, no content

ASSUME SizeAssumption == MaxSize \in Nat \ {0}
ASSUME WordAssumption == WordMod \in Nat /\ MaxSize < WordMod

VARIABLES
    m_array,     \* the slots
    m_size,      \* how many of them hold a packet
    m_front,     \* the index of the slot popped last
    m_back,      \* the index of the slot pushed last
    pc,          \* pc[t]: whether thread t waits on m_cond inside a pop, and
                 \* how its wait has ended
    ac,          \* ac[t]: the packet the last pop of t handed out
    ret          \* ret[t]: what the last call of t returned

vars == <<m_array, m_size, m_front, m_back, pc, ac, ret>>

Threads == Producers \cup Consumers
Slots == 0 .. MaxSize - 1

(* The indexes start at -1, which a DWORD holds as 2^32 - 1. *)
MinusOne == WordMod - 1

Init ==
    /\ m_array = [s \in Slots |-> NoItem]
    /\ m_size = 0
    /\ m_front = MinusOne
    /\ m_back = MinusOne
    /\ pc = [t \in Threads |-> "idle"]
    /\ ac = [t \in Threads |-> NoItem]
    /\ ret = [t \in Threads |-> FALSE]

-----------------------------------------------------------------------------

(* (i + 1) % m_max_size, in unsigned arithmetic. *)
NextIndex(i) == ((i + 1) % WordMod) % MaxSize

(* Bug: one packet too many. *)
IsFullLate == m_size > MaxSize

IsFull == m_size >= MaxSize

(* Bug: pthread_cond_signal, which wakes one of the waiters. *)
Signal ==
    LET Waiting == {t \in Threads : pc[t] \in {"waiting", "timedWaiting"}}
        Wake(t) == IF pc[t] = "waiting" THEN "woken" ELSE "timedWoken"
    IN  IF Waiting = {} THEN pc' = pc
        ELSE \E t \in Waiting : pc' = [pc EXCEPT ![t] = Wake(t)]

(* pthread_cond_broadcast: whoever waits will compete for the mutex; a wait
   that has timed out already is over, and keeps its answer. *)
Broadcast ==
    pc' = [t \in Threads |-> CASE pc[t] = "waiting" -> "woken"
                               [] pc[t] = "timedWaiting" -> "timedWoken"
                               [] OTHER -> pc[t]]

Return(t, answer) == ret' = [ret EXCEPT ![t] = answer]

(* Push: a full queue refuses the packet, and wakes the pops all the same. *)
PushRefused(t) ==
    /\ pc[t] = "idle"
    /\ IsFull
    /\ Broadcast
    /\ Return(t, FALSE)
    /\ UNCHANGED <<m_array, m_size, m_front, m_back, ac>>

PushStored(t, item) ==
    /\ pc[t] = "idle"
    /\ ~IsFull
    /\ m_back' = NextIndex(m_back)
    /\ m_array' = [m_array EXCEPT ![m_back'] = item]
    /\ m_size' = m_size + 1
    /\ Broadcast
    /\ Return(t, TRUE)
    /\ UNCHANGED <<m_front, ac>>

Push(t, item) == PushRefused(t) \/ PushStored(t, item)

(* Bug: it takes the newest packet. *)
TakeBack(t) ==
    /\ m_front' = NextIndex(m_front)
    /\ ac' = [ac EXCEPT ![t] = m_array[m_back]]
    /\ m_array' = [m_array EXCEPT ![m_front'] = NoItem]
    /\ m_size' = m_size - 1
    /\ UNCHANGED m_back

(* What every pop does once it finds a packet: copy it out, and release the
   buffers of the slot (acInit). *)
TakeFront(t) ==
    /\ m_front' = NextIndex(m_front)
    /\ ac' = [ac EXCEPT ![t] = m_array[m_front']]
    /\ m_array' = [m_array EXCEPT ![m_front'] = NoItem]
    /\ m_size' = m_size - 1
    /\ UNCHANGED m_back

Wait(t, how) ==
    /\ pc' = [pc EXCEPT ![t] = how]
    /\ UNCHANGED <<m_array, m_size, m_front, m_back, ac, ret>>

(* Pop(ac): the while loop, entered by the call or by a wake-up. *)
PopWaits(t) ==
    /\ pc[t] \in {"idle", "woken"}
    /\ m_size = 0
    /\ Wait(t, "waiting")

PopTakes(t) ==
    /\ pc[t] \in {"idle", "woken"}
    /\ m_size > 0
    /\ TakeFront(t)
    /\ pc' = [pc EXCEPT ![t] = "idle"]
    /\ Return(t, TRUE)

GivesUp(t) ==
    /\ pc' = [pc EXCEPT ![t] = "idle"]
    /\ Return(t, FALSE)
    /\ UNCHANGED <<m_array, m_size, m_front, m_back, ac>>

(* pthread_cond_wait answers an error. *)
PopFails(t) ==
    /\ pc[t] \in {"waiting", "woken"}
    /\ GivesUp(t)

Pop(t) == PopWaits(t) \/ PopTakes(t) \/ PopFails(t)

(* Pop(ac, ms_timeout): it waits at most once. *)
TimedPopWaits(t) ==
    /\ pc[t] = "idle"
    /\ m_size = 0
    /\ Wait(t, "timedWaiting")

(* The timeout, or an error; the thread has yet to get the mutex back, and a
   push may come first. *)
TimedPopTimesOut(t) ==
    /\ pc[t] = "timedWaiting"
    /\ Wait(t, "timedOut")

(* The success path ends without a return statement (line 170): the caller
   gets whatever is in the register, *)
TimedPopTakes(t) ==
    /\ pc[t] \in {"idle", "timedWoken"}
    /\ m_size > 0
    /\ TakeFront(t)
    /\ pc' = [pc EXCEPT ![t] = "idle"]
    /\ \E answer \in BOOLEAN : Return(t, answer)

(* or the thread runs on into the code that lies behind, and the process
   ends, with the packet taken. *)
TimedPopRunsOn(t) ==
    /\ pc[t] \in {"idle", "timedWoken"}
    /\ m_size > 0
    /\ TakeFront(t)
    /\ pc' = [pc EXCEPT ![t] = "crashed"]
    /\ UNCHANGED ret

(* It gives up after a timeout, whatever the queue holds by now, and when it
   is woken and the queue is empty. *)
TimedPopGivesUp(t) ==
    /\ pc[t] = "timedOut" \/ (pc[t] = "timedWoken" /\ m_size = 0)
    /\ GivesUp(t)

TimedPop(t) ==
    \/ TimedPopWaits(t) \/ TimedPopTimesOut(t)
    \/ TimedPopTakes(t) \/ TimedPopRunsOn(t) \/ TimedPopGivesUp(t)

(* A condition variable may wake a waiter for no reason. *)
SpuriousWake(t) ==
    /\ \/ pc[t] = "waiting" /\ pc' = [pc EXCEPT ![t] = "woken"]
       \/ pc[t] = "timedWaiting" /\ pc' = [pc EXCEPT ![t] = "timedWoken"]
    /\ UNCHANGED <<m_array, m_size, m_front, m_back, ac, ret>>

(* Bug: it forgets to reset m_back. *)
ClearFront(t) ==
    /\ pc[t] = "idle"
    /\ m_size' = 0
    /\ m_front' = MinusOne
    /\ UNCHANGED <<m_array, m_back, pc, ac, ret>>

(* Clear: it forgets the packets and leaves them in their slots. *)
Clear(t) ==
    /\ pc[t] = "idle"
    /\ m_size' = 0
    /\ m_front' = MinusOne
    /\ m_back' = MinusOne
    /\ UNCHANGED <<m_array, pc, ac, ret>>

Running == \A t \in Threads : pc[t] # "crashed"

Calls ==
    \/ \E t \in Producers, item \in Items : Push(t, item)
    \/ \E t \in Consumers : Pop(t)
    \/ \E t \in Consumers : TimedPop(t)
    \/ \E t \in Consumers : SpuriousWake(t)
    \/ \E t \in Threads : Clear(t)

Next == Running /\ Calls

Spec == Init /\ [][Next]_vars

-----------------------------------------------------------------------------

(* The indexes are DWORDs, and point into the array once they are used. *)
TypeOK ==
    /\ m_array \in [Slots -> Items \cup {NoItem}]
    /\ m_size \in 0 .. MaxSize
    /\ m_front \in Slots \cup {MinusOne}
    /\ m_back \in Slots \cup {MinusOne}
    /\ pc \in [Threads ->
                 {"idle", "waiting", "timedWaiting", "woken", "timedWoken",
                  "timedOut", "crashed"}]
    /\ ac \in [Threads -> Items \cup {NoItem}]
    /\ ret \in [Threads -> BOOLEAN]

(* The slot k places after the oldest packet. *)
Place(k) == LET s == NextIndex(m_front) + k
            IN  IF s < MaxSize THEN s ELSE s - MaxSize

(* The three numbers agree: the newest packet is m_size - 1 places after the
   oldest, through every wrap and after every Clear. *)
RingShape == NextIndex(m_back) = Place(m_size)

(* No wake-up is lost: nobody is asleep on m_cond while there is a packet to
   take (a thread whose wait has timed out is not asleep any more). *)
NoLostWakeup ==
    \A t \in Threads : pc[t] \in {"waiting", "timedWaiting"} => m_size = 0

(* Refinement: the ring is a lossy FIFO queue. *)
Queue == [k \in 1 .. m_size |-> m_array[Place(k - 1)]]

Lossy == INSTANCE LossyFifo WITH Capacity <- MaxSize, queue <- Queue

(* No packet that was accepted is lost, duplicated or overtaken: not by a
   timed pop either that gives up while a push has just stored one; a packet is
   refused only by a full queue; a wait changes nothing. *)
LossySpec == Lossy!Spec
=============================================================================
