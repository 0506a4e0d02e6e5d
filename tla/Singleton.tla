----------------------------- MODULE Singleton -----------------------------
(***************************************************************************)
(* CTaskQueue::Instance (source/TaskQueue.cpp): the queue is created by    *)
(* the first call, with no lock around the test and the creation.  Every   *)
(* call of Push and Pop goes through it, from the first packet on, by      *)
(* threads that start at the same time.  CACQueue, CProtocolAnalysis and   *)
(* CAnalIni have the same Instance function.                               *)
(***************************************************************************)
EXTENDS Naturals, FiniteSets, TLAPS

CONSTANTS
    Capture,     \* the thread that pushes
    Workers,     \* the threads that pop
    Objects,     \* where a CTaskQueue can be allocated
    MaxFrames,   \* bound: how many packets are captured
    NULL

(* A call creates at most once, and only a thread that saw NULL creates. *)
ASSUME ObjectsAssumption ==
    /\ NULL \notin Objects /\ NULL \notin Workers /\ NULL # Capture
    /\ Capture \notin Workers
    /\ MaxFrames \in Nat

VARIABLES
    m_taskQueue,   \* the static pointer
    creator,       \* creator[o]: the thread that created o, NULL before
    length,        \* length[o]: the packets in queue o
    captured,      \* how many packets were pushed
    pc,            \* where each thread is
    seen           \* seen[t]: the value of the pointer thread t knows

vars == <<m_taskQueue, creator, length, captured, pc, seen>>

Threads == Workers \cup {Capture}

Init ==
    /\ m_taskQueue = NULL
    /\ creator = [o \in Objects |-> NULL]
    /\ length = [o \in Objects |-> 0]
    /\ captured = 0
    /\ pc = [t \in Threads |-> "call"]
    /\ seen = [t \in Threads |-> NULL]

Move(t, from, to) ==
    /\ pc[t] = from
    /\ pc' = [pc EXCEPT ![t] = to]

(* Bug: the test is left out. *)
TestNothing(t) ==
    /\ Move(t, "call", "create")
    /\ t = Capture => captured < MaxFrames
    /\ UNCHANGED <<m_taskQueue, creator, length, captured, seen>>

(* if (m_taskQueue == 0) *)
Test(t) ==
    /\ Move(t, "call", IF m_taskQueue = NULL THEN "create" ELSE "return")
    /\ t = Capture => captured < MaxFrames
    /\ seen' = [seen EXCEPT ![t] = m_taskQueue]
    /\ UNCHANGED <<m_taskQueue, creator, length, captured>>

(* operator new yields memory that is not in use. *)
NewObject(t, o) ==
    /\ creator[o] = NULL
    /\ creator' = [creator EXCEPT ![o] = t]
    /\ m_taskQueue' = o

(* Bug: the new pointer is not returned. *)
CreateForgets(t) ==
    /\ Move(t, "create", "return")
    /\ \E o \in Objects : NewObject(t, o)
    /\ UNCHANGED <<length, captured, seen>>

(* Bug: the pointer that was there before is returned. *)
CreateReturnsOld(t) ==
    /\ Move(t, "create", "return")
    /\ \E o \in Objects :
          /\ NewObject(t, o)
          /\ seen' = [seen EXCEPT ![t] = IF m_taskQueue = NULL THEN o
                                                              ELSE m_taskQueue]
    /\ UNCHANGED <<length, captured>>

(* m_taskQueue = new CTaskQueue() *)
Create(t) ==
    /\ Move(t, "create", "return")
    /\ \E o \in Objects :
          /\ NewObject(t, o)
          /\ seen' = [seen EXCEPT ![t] = o]
    /\ UNCHANGED <<length, captured>>

(* return m_taskQueue: the pointer is not atomic, so the compiler may load it
   again or use the value it has loaded or stored before. *)
Return(t) ==
    /\ Move(t, "return", "use")
    /\ \/ seen' = [seen EXCEPT ![t] = m_taskQueue]
       \/ UNCHANGED seen
    /\ UNCHANGED <<m_taskQueue, creator, length, captured>>

(* The call of Push or Pop on the object that was returned. *)
Push ==
    /\ Move(Capture, "use", "call")
    /\ length' = [length EXCEPT ![seen[Capture]] = @ + 1]
    /\ captured' = captured + 1
    /\ UNCHANGED <<m_taskQueue, creator, seen>>

Pop(w) ==
    /\ Move(w, "use", "call")
    /\ length[seen[w]] > 0
    /\ length' = [length EXCEPT ![seen[w]] = @ - 1]
    /\ UNCHANGED <<m_taskQueue, creator, captured, seen>>

Call(t) == Test(t) \/ Create(t) \/ Return(t)

Next ==
    \/ \E t \in Threads : Call(t)
    \/ Push
    \/ \E w \in Workers : Pop(w)

Fairness ==
    /\ WF_vars(Call(Capture) \/ Push)
    /\ \A w \in Workers : WF_vars(Call(w) \/ Pop(w))

Spec == Init /\ [][Next]_vars /\ Fairness

-----------------------------------------------------------------------------

(* Types; whoever uses a queue uses one that was created, never NULL. *)
TypeOK ==
    /\ m_taskQueue \in Objects \cup {NULL}
    /\ creator \in [Objects -> Threads \cup {NULL}]
    /\ length \in [Objects -> 0 .. MaxFrames]
    /\ captured \in 0 .. MaxFrames
    /\ pc \in [Threads -> {"call", "create", "return", "use"}]
    /\ seen \in [Threads -> Objects \cup {NULL}]
    /\ \A t \in Threads : pc[t] = "use" => /\ seen[t] # NULL
                                           /\ creator[seen[t]] # NULL

(* The race is confined to the start: nobody is about to create. *)
Settled == m_taskQueue # NULL /\ \A t \in Threads : pc[t] # "create"

(* Once it has settled nobody creates again, the pointer never changes, and
   every later call returns the object it points to. *)
StaysSettled ==
    [][Settled => /\ Settled'
                  /\ m_taskQueue' = m_taskQueue
                  /\ \A t \in Threads :
                        pc[t] = "call" /\ pc'[t] = "return"
                          => seen'[t] = m_taskQueue]_vars

(* If the surviving queue is a worker's, the packets pushed into it are
   popped, even if other workers wait for ever on a queue that lost the race:
   its creator pops from it. *)
SurvivorServed ==
    \A o \in Objects :
        (Settled /\ m_taskQueue = o /\ creator[o] \in Workers /\ length[o] > 0)
          ~> length[o] = 0

(* There is one queue ("单粒队列", README.md line 21): all who push and pop do
   so on the same object. *)
SingleQueue ==
    \A t, u \in Threads :
        pc[t] = "use" /\ pc[u] = "use" => seen[t] = seen[u]

-----------------------------------------------------------------------------
(* Proofs, for any number of workers, queues and packets *)

(* The fairness of the specification is not needed for what is proved here. *)
LEMMA NextSteps == Spec => Init /\ [][Next]_vars
  BY PTL DEF Spec

Types ==
    /\ m_taskQueue \in Objects \cup {NULL}
    /\ creator \in [Objects -> Threads \cup {NULL}]
    /\ length \in [Objects -> Nat]
    /\ captured \in 0 .. MaxFrames
    /\ pc \in [Threads -> {"call", "create", "return", "use"}]
    /\ seen \in [Threads -> Objects \cup {NULL}]

(* The pointer is to a queue that was created, and so is what a thread knows
   from the test on; no queue is longer than there are packets, and the capture
   thread calls only with a packet left. *)
SingletonInv ==
    /\ Types
    /\ m_taskQueue # NULL => creator[m_taskQueue] # NULL
    /\ \A t \in Threads : pc[t] \in {"return", "use"} =>
          /\ m_taskQueue # NULL
          /\ seen[t] # NULL /\ creator[seen[t]] # NULL
    /\ \A o \in Objects : length[o] <= captured
    /\ pc[Capture] # "call" => captured < MaxFrames

(* Nobody has called yet. *)
LEMMA InitInv == Init => SingletonInv
  BY ObjectsAssumption DEF Init, SingletonInv, Types, Threads

(* Every step keeps the invariant. *)
LEMMA StepInv == SingletonInv /\ [Next]_vars => SingletonInv'
<1> SUFFICES ASSUME SingletonInv, [Next]_vars PROVE SingletonInv'
  OBVIOUS
<1> USE ObjectsAssumption DEF SingletonInv, Types, Threads, Move
<1>1. ASSUME NEW t \in Threads, Test(t) PROVE SingletonInv'
  BY <1>1 DEF Test
<1>2. ASSUME NEW t \in Threads, Create(t) PROVE SingletonInv'
  <2>1. PICK o \in Objects : NewObject(t, o) /\ seen' = [seen EXCEPT ![t] = o]
    BY <1>2 DEF Create
  <2> QED  BY <1>2, <2>1 DEF Create, NewObject
<1>3. ASSUME NEW t \in Threads, Return(t) PROVE SingletonInv'
  BY <1>3 DEF Return
<1>4. CASE Push
  <2>1. /\ seen[Capture] \in Objects /\ captured < MaxFrames
        /\ captured' = captured + 1
        /\ length' = [length EXCEPT ![seen[Capture]] = @ + 1]
    BY <1>4 DEF Push
  <2>2. length' \in [Objects -> Nat] /\ \A o \in Objects : length'[o] <= captured'
    BY <2>1
  <2>3. pc'[Capture] = "call" /\ captured' \in 0 .. MaxFrames  BY <1>4, <2>1 DEF Push
  <2> QED  BY <1>4, <2>2, <2>3 DEF Push
<1>5. ASSUME NEW w \in Workers, Pop(w) PROVE SingletonInv'
  <2>1. /\ seen[w] \in Objects /\ length[seen[w]] > 0
        /\ length' = [length EXCEPT ![seen[w]] = @ - 1]
    BY <1>5 DEF Pop
  <2>2. length' \in [Objects -> Nat] /\ \A o \in Objects : length'[o] <= captured
    BY <2>1
  <2> QED  BY <1>5, <2>2 DEF Pop
<1>6. CASE UNCHANGED vars  BY <1>6 DEF vars
<1> QED  BY <1>1, <1>2, <1>3, <1>4, <1>5, <1>6 DEF Next, Call

(* The invariant holds on every run. *)
LEMMA Invariant == Spec => []SingletonInv
<1> QED  BY NextSteps, InitInv, StepInv, PTL

(* Whoever pushes or pops does so on a queue that was created, in spite of the
   race, and no counter leaves its range. *)
THEOREM UsesCreatedQueue == Spec => []TypeOK
<1>1. SingletonInv => TypeOK
  <2> SUFFICES ASSUME SingletonInv PROVE TypeOK
    OBVIOUS
  <2>1. length \in [Objects -> 0 .. MaxFrames]
    BY ObjectsAssumption DEF SingletonInv, Types
  <2> QED  BY <2>1 DEF SingletonInv, Types, TypeOK
<1> QED  BY <1>1, Invariant, PTL

(* What a step from a settled state may do. *)
SettledStep ==
    Settled => /\ Settled'
               /\ m_taskQueue' = m_taskQueue
               /\ \A t \in Threads :
                     pc[t] = "call" /\ pc'[t] = "return" => seen'[t] = m_taskQueue

(* It does no more, whoever takes it. *)
LEMMA StepSettled == Types /\ [Next]_vars => SettledStep
<1> SUFFICES ASSUME Types, [Next]_vars, Settled
             PROVE  /\ Settled' /\ m_taskQueue' = m_taskQueue
                    /\ \A t \in Threads :
                          pc[t] = "call" /\ pc'[t] = "return"
                            => seen'[t] = m_taskQueue
  BY DEF SettledStep
<1> USE DEF Settled, Types, Move, Threads
<1>1. ASSUME NEW t \in Threads, Test(t)
      PROVE  /\ Settled' /\ m_taskQueue' = m_taskQueue
             /\ \A u \in Threads : pc[u] = "call" /\ pc'[u] = "return"
                                     => seen'[u] = m_taskQueue
  BY <1>1 DEF Test
<1>2. ASSUME NEW t \in Threads, Create(t) PROVE FALSE  BY <1>2 DEF Create
<1>3. ASSUME NEW t \in Threads, Return(t)
      PROVE  /\ Settled' /\ m_taskQueue' = m_taskQueue
             /\ \A u \in Threads : pc[u] = "call" => pc'[u] = "call"
  BY <1>3 DEF Return
<1>4. CASE Push  BY <1>4 DEF Push
<1>5. ASSUME NEW w \in Workers, Pop(w)
      PROVE  /\ Settled' /\ m_taskQueue' = m_taskQueue
             /\ \A u \in Threads : pc[u] = "call" => pc'[u] = "call"
  BY <1>5 DEF Pop
<1>6. CASE UNCHANGED vars  BY <1>6 DEF vars
<1> QED  BY <1>1, <1>2, <1>3, <1>4, <1>5, <1>6 DEF Next, Call

(* The race ends with the first creations: from then on nobody creates, and
   every call returns the queue that the pointer is to. *)
THEOREM RaceEnds == Spec => StaysSettled
<1>1. SingletonInv /\ [Next]_vars => [SettledStep]_vars
  BY StepSettled DEF SingletonInv
<1>2. StaysSettled <=> [][SettledStep]_vars
  BY DEF StaysSettled, SettledStep
<1> QED  BY <1>1, <1>2, NextSteps, Invariant, PTL
=============================================================================
