----------------------------- MODULE BlockQueue -----------------------------
(***************************************************************************)
(* wlog/include/BlockQueue.h: a ring with int indexes that begin at -1, so *)
(* that m_front is one place before the first element.  Every function     *)
(* holds the mutex throughout, but for the wait of pop; the operators here *)
(* say what each does to the ring q, and the caller's module takes the     *)
(* steps and keeps the thread that waits.                                  *)
(***************************************************************************)
EXTENDS Integers, Sequences

CONSTANT NoItem

BlockQueue(max_size) ==
    [m_max_size |-> max_size, m_array |-> [i \in 0 .. max_size - 1 |-> NoItem],
     m_size |-> 0, m_front |-> -1, m_back |-> -1]

(* The rings of n places for some items. *)
Ring(n, Items) ==
    [m_max_size : {n}, m_array : [0 .. n - 1 -> Items \cup {NoItem}],
     m_size : 0 .. n, m_front : -1 .. n - 1, m_back : -1 .. n - 1]

full(q) == q.m_size >= q.m_max_size
empty(q) == q.m_size = 0

NextIndex(q, i) == (i + 1) % q.m_max_size

(* push, unless it is refused: a full queue stays as it is. *)
push(q, item) ==
    LET back == NextIndex(q, q.m_back)
    IN  IF full(q) THEN q
        ELSE [m_max_size |-> q.m_max_size,
              m_array |-> [q.m_array EXCEPT ![back] = item],
              m_size |-> q.m_size + 1, m_front |-> q.m_front, m_back |-> back]

(* Bug: the element the index points to, not the one behind it. *)
OldestAt(q) == q.m_array[IF q.m_front = -1 THEN 0 ELSE q.m_front]

(* pop and pop(.., ms_timeout), of a queue that is not empty. *)
Oldest(q) == q.m_array[NextIndex(q, q.m_front)]
pop(q) ==
    [m_max_size |-> q.m_max_size, m_array |-> q.m_array, m_size |-> q.m_size - 1,
     m_front |-> NextIndex(q, q.m_front), m_back |-> q.m_back]

(* The elements in the ring, the oldest one first. *)
Elements(q) ==
    [i \in 1 .. q.m_size |-> q.m_array[(q.m_front + i) % q.m_max_size]]
=============================================================================
