----------------------------- MODULE LossyFifo -----------------------------
(***************************************************************************)
(* What CACQueue promises to the workers and to the output thread: a       *)
(* bounded first-in first-out queue whose Put never blocks.  It refuses    *)
(* the item, and says so, exactly when the queue is full.                  *)
(***************************************************************************)
EXTENDS Naturals, Sequences

CONSTANTS Threads, Items, Capacity, NoItem

VARIABLES
    queue,   \* the items in the queue, oldest first
    ac,      \* ac[t]: the item the last pop of t returned
    ret      \* ret[t]: what the last call of t returned

vars == <<queue, ac, ret>>

Init ==
    /\ queue = << >>
    /\ ac = [t \in Threads |-> NoItem]
    /\ ret = [t \in Threads |-> FALSE]

Put(t, item) ==
    /\ ret' = [ret EXCEPT ![t] = Len(queue) < Capacity]
    /\ queue' = IF Len(queue) < Capacity THEN Append(queue, item) ELSE queue
    /\ UNCHANGED ac

(* A pop of the oldest item.  The timed one may answer anything, and may not
   return at all (see ACQueue). *)
Take(t, answer) ==
    /\ queue # << >>
    /\ ac' = [ac EXCEPT ![t] = Head(queue)]
    /\ queue' = Tail(queue)
    /\ ret' = [ret EXCEPT ![t] = answer]

(* A pop that gives up, on a timeout or an error, leaves the queue as it is,
   whether or not it holds an item by now. *)
GiveUp(t) ==
    /\ ret' = [ret EXCEPT ![t] = FALSE]
    /\ UNCHANGED <<queue, ac>>

Clear ==
    /\ queue' = << >>
    /\ UNCHANGED <<ac, ret>>

Next ==
    \/ \E t \in Threads, item \in Items : Put(t, item)
    \/ \E t \in Threads, answer \in BOOLEAN : Take(t, answer)
    \/ \E t \in Threads : GiveUp(t)
    \/ Clear

Spec == Init /\ [][Next]_vars
=============================================================================
