---------------------------- MODULE BoundedFifo ----------------------------
(***************************************************************************)
(* What CTaskQueue promises to the capture thread and to the workers: a    *)
(* bounded first-in first-out queue.  Push blocks while the queue is full, *)
(* Pop while it is empty, and each takes effect in one step between its    *)
(* call and its return.                                                    *)
(***************************************************************************)
EXTENDS Naturals, Sequences

CONSTANTS
    Producers,   \* the threads that push
    Consumers,   \* the threads that pop
    Items,       \* what is pushed
    Capacity,    \* how many items the queue holds
    NoItem       \* the value of a variable that holds no item

VARIABLES
    queue,       \* the items in the queue, oldest first
    phase,       \* phase[t]: how far the call of thread t has got
    ac           \* ac[t]: the argument or the result of the call of t

vars == <<queue, phase, ac>>

Threads == Producers \cup Consumers

Init ==
    /\ queue = << >>
    /\ phase = [t \in Threads |-> "idle"]
    /\ ac = [t \in Threads |-> NoItem]

(* Thread t goes from one phase of its call to the next. *)
Enter(t, from, to) ==
    /\ phase[t] = from
    /\ phase' = [phase EXCEPT ![t] = to]

PutCall(t, item) ==
    /\ Enter(t, "idle", "put")
    /\ ac' = [ac EXCEPT ![t] = item]
    /\ UNCHANGED queue

Put(t) ==
    /\ Len(queue) < Capacity
    /\ Enter(t, "put", "putDone")
    /\ queue' = Append(queue, ac[t])
    /\ UNCHANGED ac

PutReturn(t) ==
    /\ Enter(t, "putDone", "idle")
    /\ ac' = [ac EXCEPT ![t] = NoItem]
    /\ UNCHANGED queue

TakeCall(t) ==
    /\ Enter(t, "idle", "take")
    /\ ac' = [ac EXCEPT ![t] = NoItem]
    /\ UNCHANGED queue

Take(t) ==
    /\ queue # << >>
    /\ Enter(t, "take", "takeDone")
    /\ ac' = [ac EXCEPT ![t] = Head(queue)]
    /\ queue' = Tail(queue)

TakeReturn(t) ==
    /\ Enter(t, "takeDone", "idle")
    /\ UNCHANGED <<queue, ac>>

Next ==
    \/ \E t \in Producers :
          \/ \E item \in Items : PutCall(t, item)
          \/ Put(t)
          \/ PutReturn(t)
    \/ \E t \in Consumers : TakeCall(t) \/ Take(t) \/ TakeReturn(t)

Spec == Init /\ [][Next]_vars
=============================================================================
