------------------------------- MODULE MCLog -------------------------------
(* Log and AsyncLog for TLC. *)
EXTENDS AsyncLog

CONSTANTS t1, t2

MCLimit(d, n, r, c, f, q) ==
    [days |-> d, lines |-> n, restarts |-> r, calls |-> c, failing |-> f,
     max_queue_size |-> q]

(* Without a queue: the files; a restart, a control function and an fopen that
   fails; the control functions.  With a queue: a full one, a change of file and
   an fopen that fails; a restart and the control functions. *)
MCLimits ==
    {MCLimit(5, 4, 0, 0, FALSE, 0), MCLimit(5, 3, 1, 1, TRUE, 0),
     MCLimit(5, 3, 0, 2, TRUE, 0), MCLimit(4, 3, 0, 1, TRUE, 1),
     MCLimit(3, 3, 1, 2, FALSE, 2)}

Symmetry == Permutations(Threads)
=============================================================================
