-------------------------- MODULE Pipeline_proofs --------------------------
(***************************************************************************)
(* Proofs about Pipeline, for any number of workers, any capacity of the   *)
(* two queues, any addresses and any number of frames: every packet has    *)
(* one owner, every frame is in one place, and only workers reorder.  What *)
(* the queues do is taken from TaskQueue_proofs and ACQueue_proofs.        *)
(***************************************************************************)
EXTENDS Pipeline, FiniteSetTheorems, SequenceTheorems, TLAPS

TQP == INSTANCE TaskQueue_proofs
         WITH Producers <- {Capture}, Consumers <- Workers,
              Items <- Address, NoItem <- NULL

AQP == INSTANCE ACQueue_proofs
         WITH Producers <- Workers, Consumers <- {Output},
              Items <- Frames, NoItem <- NoFrame, pc <- waiter, ac <- outAc

-----------------------------------------------------------------------------
(* How often a sequence has an element *)

Count(s, l) == Cardinality({i \in DOMAIN s : s[i] = l})
One(P) == IF P THEN 1 ELSE 0

(* A count is a natural number, and 0 for what the sequence does not have. *)
LEMMA CountType ==
  ASSUME NEW I, NEW s \in Seq(I), NEW l
  PROVE  /\ IsFiniteSet({i \in DOMAIN s : s[i] = l}) /\ Count(s, l) \in Nat
         /\ Count(s, l) = 0 <=> l \notin ToSet(s)
<1> DEFINE S == {i \in DOMAIN s : s[i] = l}
<1>1. IsFiniteSet(S)
  <2>1. DOMAIN s = 1 .. Len(s) /\ Len(s) \in Nat  OBVIOUS
  <2>2. IsFiniteSet(1 .. Len(s))  BY <2>1, FS_Interval
  <2>3. S \in SUBSET (1 .. Len(s))  BY <2>1
  <2> QED  BY <2>2, <2>3, FS_Subset
<1>2. Cardinality(S) \in Nat /\ (Cardinality(S) = 0 <=> S = {})
  BY <1>1, FS_CardinalityType, FS_EmptySet
<1>3. S = {} <=> l \notin ToSet(s)  BY DEF ToSet
<1> QED  BY <1>1, <1>2, <1>3 DEF Count

(* The empty sequence has no element, *)
LEMMA CountEmpty == ASSUME NEW l PROVE Count(<< >>, l) = 0
<1>1. {i \in DOMAIN << >> : << >>[i] = l} = {}  OBVIOUS
<1> QED  BY <1>1, FS_EmptySet DEF Count

(* an element appended adds one to its own count, *)
LEMMA CountAppend ==
  ASSUME NEW I, NEW s \in Seq(I), NEW x \in I, NEW l
  PROVE  Count(Append(s, x), l) = Count(s, l) + One(x = l)
<1> DEFINE S == {i \in DOMAIN s : s[i] = l}
           T == {i \in DOMAIN Append(s, x) : Append(s, x)[i] = l}
<1>1. PICK k \in Nat : k = Len(s) /\ DOMAIN s = 1 .. k  OBVIOUS
<1>2. /\ DOMAIN Append(s, x) = 1 .. k + 1 /\ Append(s, x)[k + 1] = x
      /\ \A i \in 1 .. k : Append(s, x)[i] = s[i]
  BY <1>1
<1>3. IsFiniteSet(S) /\ Cardinality(S) \in Nat /\ k + 1 \notin S
  <2>1. IsFiniteSet(S) /\ Cardinality(S) \in Nat  BY CountType DEF Count
  <2>2. k + 1 \notin S  BY <1>1
  <2> QED  BY <2>1, <2>2
<1>4. CASE x = l
  <2>1. T = S \cup {k + 1}
    <3>1. \A i : i \in T <=> i \in 1 .. k + 1 /\ Append(s, x)[i] = l  BY <1>2
    <3>2. \A i : i \in S <=> i \in 1 .. k /\ s[i] = l  BY <1>1
    <3>3. \A i : i \in 1 .. k + 1 <=> i \in 1 .. k \/ i = k + 1  BY <1>1
    <3> HIDE DEF S, T
    <3> QED  BY <3>1, <3>2, <3>3, <1>2, <1>4
  <2> QED  BY <2>1, <1>3, <1>4, FS_AddElement DEF Count, One
<1>5. CASE x # l
  <2>1. T = S
    <3>1. \A i : i \in T <=> i \in 1 .. k + 1 /\ Append(s, x)[i] = l  BY <1>2
    <3>2. \A i : i \in S <=> i \in 1 .. k /\ s[i] = l  BY <1>1
    <3>3. \A i : i \in 1 .. k + 1 <=> i \in 1 .. k \/ i = k + 1  BY <1>1
    <3> HIDE DEF S, T
    <3> QED  BY <3>1, <3>2, <3>3, <1>2, <1>5
  <2>2. Count(Append(s, x), l) = Count(s, l)  BY <2>1 DEF Count
  <2>3. Count(s, l) \in Nat  BY <1>3 DEF Count
  <2> QED  BY <2>2, <2>3, <1>5 DEF One
<1> QED  BY <1>4, <1>5

(* and the head removed takes one from its own. *)
LEMMA CountTail ==
  ASSUME NEW I, NEW s \in Seq(I), s # << >>, NEW l
  PROVE  Count(s, l) = Count(Tail(s), l) + One(Head(s) = l)
<1> DEFINE S == {i \in DOMAIN s : s[i] = l}
           T == {i \in DOMAIN Tail(s) : Tail(s)[i] = l}
           f == [i \in T |-> i + 1]
<1>1. PICK k \in Nat \ {0} : k = Len(s) /\ DOMAIN s = 1 .. k /\ Head(s) = s[1]
  OBVIOUS
<1>2. /\ DOMAIN Tail(s) = 1 .. k - 1 /\ Tail(s) \in Seq(I)
      /\ \A i \in 1 .. k - 1 : Tail(s)[i] = s[i + 1]
  BY <1>1
<1>3. IsFiniteSet(S) /\ Cardinality(S) \in Nat
  BY CountType DEF Count
<1>4. IsFiniteSet(T)  BY <1>2, CountType DEF Count
<1>5. /\ \A i : i \in T <=> i \in 1 .. k - 1 /\ s[i + 1] = l
      /\ \A i : i \in S <=> i \in 1 .. k /\ s[i] = l
  BY <1>1, <1>2
<1> HIDE DEF S, T
<1>6. f \in Bijection(T, S \ {1})
  <2>1. f \in [T -> S \ {1}]  BY <1>5
  <2>2. \A a, b \in T : f[a] = f[b] => a = b  BY <1>5
  <2>3. \A b \in S \ {1} : \E a \in T : f[a] = b
    <3>1. ASSUME NEW b \in S \ {1} PROVE b - 1 \in T /\ f[b - 1] = b
      BY <1>5
    <3> QED  BY <3>1
  <2> QED  BY <2>1, <2>2, <2>3 DEF Bijection, Injection, Surjection, IsInjective
<1>7. Cardinality(S \ {1}) = Cardinality(T)
  BY <1>4, <1>6, FS_Bijection DEF ExistsBijection
<1>8. 1 \in S <=> Head(s) = l  BY <1>1, <1>5
<1>9. Cardinality(S \ {1}) = IF 1 \in S THEN Cardinality(S) - 1 ELSE Cardinality(S)
  BY <1>3, FS_RemoveElement
<1>10. Cardinality(S) = Cardinality(T) + One(Head(s) = l)
  BY <1>3, <1>7, <1>8, <1>9 DEF One
<1> QED  BY <1>10 DEF Count, S, T

(* A first element adds one to its own count. *)
LEMMA CountCons ==
  ASSUME NEW I, NEW s \in Seq(I), NEW x \in I, NEW l
  PROVE  Count(<<x>> \o s, l) = One(x = l) + Count(s, l)
<1>1. PICK r : r = <<x>> \o s  OBVIOUS
<1>2. r \in Seq(I) /\ r # << >> /\ Head(r) = x /\ Tail(r) = s
  <2>1. r \in Seq(I) /\ Len(r) = Len(s) + 1 /\ r[1] = x
        /\ \A k \in 1 .. Len(s) : r[k + 1] = s[k]
    BY <1>1
  <2>2. r # << >> /\ Head(r) = x  BY <2>1
  <2>3. Tail(r) = s
    <3>1. Tail(r) \in Seq(I) /\ Len(Tail(r)) = Len(s)
          /\ \A k \in 1 .. Len(s) : Tail(r)[k] = r[k + 1]
      BY <2>1, <2>2
    <3> QED  BY <2>1, <3>1, SeqEqual
  <2> QED  BY <2>1, <2>2, <2>3
<1>3. Count(r, l) = Count(s, l) + One(x = l)  BY <1>2, CountTail
<1>4. Count(s, l) \in Nat /\ One(x = l) \in Nat  BY CountType DEF One
<1> QED  BY <1>1, <1>3, <1>4

(* There is one member of {x} \cap S if x is in S, and none otherwise. *)
LEMMA CountMember == ASSUME NEW x, NEW S PROVE Cardinality({x} \cap S) = One(x \in S)
<1>1. CASE x \in S
  <2>1. {x} \cap S = {x}  BY <1>1
  <2> QED  BY <1>1, <2>1, FS_Singleton DEF One
<1>2. CASE x \notin S
  <2>1. {x} \cap S = {}  BY <1>2
  <2> QED  BY <1>2, <2>1, FS_EmptySet DEF One
<1> QED  BY <1>1, <1>2

-----------------------------------------------------------------------------
(* The two queues *)

(* What the proofs about the queues assume is so here. *)
LEMMA TasksAssumed ==
  /\ /\ TQP!IsFiniteSet({Capture}) /\ TQP!IsFiniteSet(Workers)
     /\ {Capture} \cap Workers = {}
     /\ Nobody \notin {Capture} \cup Workers
  /\ TASK_QUEUE_LEN \in Nat \ {0}
<1>1. \A S : TQP!IsFiniteSet(S) <=> IsFiniteSet(S)
  BY DEF TQP!IsFiniteSet, IsFiniteSet
<1>2. IsFiniteSet({Capture})  BY FS_Singleton
<1> QED  BY <1>1, <1>2, ThreadsAssumption, QueuesAssumption

(* The same for the queue of packets to be put out. *)
LEMMA OutputsAssumed ==
  MaxSize \in Nat \ {0} /\ WordMod \in Nat /\ MaxSize < WordMod
BY QueuesAssumption

(* The queues of the proofs are those of the pipeline. *)
LEMMA SameTasks ==
  /\ TQ!Queue = TQP!Queue /\ TQ!Queue' = TQP!Queue'
  /\ TQ!Phase = TQP!Phase /\ TQ!Phase' = TQP!Phase'
  /\ TQ!Init = TQP!Init
<1>1. \A S : TQ!Cardinality(S) = TQP!Cardinality(S)
  BY DEF TQ!Cardinality, TQP!Cardinality
<1>2. TQ!Queue = TQP!Queue /\ TQ!Queue' = TQP!Queue'
  BY <1>1
  DEF TQ!Queue, TQ!Held, TQ!Count, TQ!At, TQ!Slot, TQ!First, TQ!Advance,
      TQ!PushStored, TQ!PopClaimed, TQ!Threads,
      TQP!Queue, TQP!Held, TQP!Count, TQP!At, TQP!Slot, TQP!First, TQP!Advance,
      TQP!PushStored, TQP!PopClaimed, TQP!Threads
<1>3. TQ!Phase = TQP!Phase /\ TQ!Phase' = TQP!Phase'
  BY DEF TQ!Phase, TQ!Threads, TQ!PushClaimed, TQ!PushStored, TQ!PopClaimed,
         TQP!Phase, TQP!Threads, TQP!PushClaimed, TQP!PushStored, TQP!PopClaimed
<1>4. TQ!Init = TQP!Init
  BY DEF TQ!Init, TQ!Slots, TQ!Threads, TQP!Init, TQP!Slots, TQP!Threads
<1> QED  BY <1>2, <1>3, <1>4

(* What the capture thread does to its queue is a step of the proofs' queue, *)
LEMMA SameCapture ==
  /\ \A a : TQ!PushCall(Capture, a) => TQP!PushCall(Capture, a)
  /\ TQ!PushStep(Capture) => TQP!PushStep(Capture)
BY DEF TQ!PushCall, TQ!PushStep, TQ!PushWait, TQ!PushLock, TQ!PushStore,
       TQ!PushAdvance, TQ!PushUnlock, TQ!PushPost, TQ!Move, TQ!Advance,
       TQ!sems, TQ!locks, TQ!ring,
       TQP!PushCall, TQP!PushStep, TQP!PushWait, TQP!PushLock, TQP!PushStore,
       TQP!PushAdvance, TQP!PushUnlock, TQP!PushPost, TQP!Move, TQP!Advance,
       TQP!sems, TQP!locks, TQP!ring

(* and so is what a worker does. *)
LEMMA SameWorker ==
  ASSUME NEW w
  PROVE  /\ TQ!PopCall(w) => TQP!PopCall(w)
         /\ TQ!PopStep(w) => TQP!PopStep(w)
BY DEF TQ!PopCall, TQ!PopStep, TQ!PopWait, TQ!PopLock, TQ!PopLoad,
       TQ!PopAdvance, TQ!PopUnlock, TQ!PopPost, TQ!Move, TQ!Advance,
       TQ!sems, TQ!locks, TQ!ring,
       TQP!PopCall, TQP!PopStep, TQP!PopWait, TQP!PopLock, TQP!PopLoad,
       TQP!PopAdvance, TQP!PopUnlock, TQP!PopPost, TQP!Move, TQP!Advance,
       TQP!sems, TQP!locks, TQP!ring

(* The capture thread and the workers use CTaskQueue as its proofs say. *)
LEMMA TasksSpec == Spec => TQP!Spec
<1>1. Init => TQP!Init  BY SameTasks DEF Init
<1>2. [Next]_vars => [TQP!Next]_(TQP!vars)
  <2> SUFFICES ASSUME [Next]_vars
               PROVE  TQP!Next \/ UNCHANGED TQP!vars
    OBVIOUS
  <2>1. ASSUME NEW k \in Traffic, NEW a \in Address, CallBack(k, a)
        PROVE  TQP!Next
    BY <2>1, SameCapture DEF CallBack, TQP!Next
  <2>2. CASE CaptureStep  BY <2>2, SameCapture DEF CaptureStep, TQP!Next
  <2>3. ASSUME NEW w \in Workers, WorkerStep(w)
        PROVE  TQP!Next \/ UNCHANGED tq
    <3>1. CASE TQ!PopCall(w) \/ TQ!PopStep(w)
      BY <3>1, SameWorker DEF TQP!Next
    <3>2. CASE UNCHANGED tq  BY <3>2
    <3> QED
      BY <2>3, <3>1, <3>2
      DEF WorkerStep, Start, WorkerPop, Analyse, Ignore, PushAccepted,
          PushRefused, Delete
  <2>4. CASE OutStep \/ OutSpuriousWake \/ UNCHANGED vars
    <3>1. UNCHANGED tq
      BY <2>4 DEF OutStep, OutWaits, OutTakes, Deal, OutSpuriousWake, vars
    <3> QED  BY <3>1 DEF tq, TQP!vars, TQP!sems, TQP!locks, TQP!ring
  <2>5. UNCHANGED tq => UNCHANGED TQP!vars
    BY DEF tq, TQP!vars, TQP!sems, TQP!locks, TQP!ring
  <2> QED  BY <2>1, <2>2, <2>3, <2>4, <2>5 DEF Next
<1> QED  BY <1>1, <1>2, PTL DEF Spec, TQP!Spec

TasksInv == TQP!IInv /\ TQP!Stored

(* The invariants of CTaskQueue's proofs hold in the pipeline. *)
LEMMA TasksInvariant == Spec => []TasksInv
<1>1. TQP!Spec => []TQP!IInv  BY TasksAssumed, TQP!Inductive
<1>2. TQP!Spec => []TQP!Stored  BY TasksAssumed, TQP!AlwaysStored
<1> QED  BY <1>1, <1>2, TasksSpec, PTL DEF TasksInv

(* What the users of CTaskQueue see of it. *)
Tasks == TQ!Queue
Phase == TQ!Phase
Enter(t, from, to) ==
    /\ Phase[t] = from
    /\ Phase' = [Phase EXCEPT ![t] = to]

(* Types, and that only a thread inside push or pop is not idle. *)
LEMMA TasksType ==
  ASSUME TasksInv
  PROVE  /\ ac \in [{Capture} \cup Workers -> Address \cup {NULL}]
         /\ Phase \in [{Capture} \cup Workers ->
                        {"idle", "put", "putDone", "take", "takeDone"}]
         /\ \A t \in {Capture} \cup Workers : Phase[t] = "idle" <=> pc[t] = "idle"
         /\ Phase[Capture] = "put" => ac[Capture] \in Address
<1>1. /\ pc \in [{Capture} \cup Workers -> TQP!Sites]
      /\ ac \in [{Capture} \cup Workers -> Address \cup {NULL}]
      /\ \A t \in {Capture} \cup Workers : pc[t] \in TQP!PushSites => ac[t] \in Address
  BY DEF TasksInv, TQP!IInv, TQP!Typing, TQP!Threads
<1>2. Phase = [t \in {Capture} \cup Workers |-> TQP!PhaseOf(pc[t])]
  BY SameTasks DEF Phase, TQP!Phase, TQP!PhaseOf, TQP!Threads
<1>3. ASSUME NEW site \in TQP!Sites
      PROVE  /\ TQP!PhaseOf(site) \in {"idle", "put", "putDone", "take", "takeDone"}
             /\ TQP!PhaseOf(site) = "idle" <=> site = "idle"
             /\ TQP!PhaseOf(site) = "put" => site \in TQP!PushSites
  <2>1. site \in {"idle", "pushWait", "pushLock", "pushStore", "pushAdvance",
                  "pushUnlock", "pushPost", "popWait", "popLock", "popLoad",
                  "popAdvance", "popUnlock", "popPost"}
    BY DEF TQP!Sites, TQP!PushSites, TQP!PopSites
  <2> QED  BY <2>1, TasksAssumed, TQP!PhaseValues DEF TQP!PushSites
<1> HIDE DEF Phase
<1> QED  BY <1>1, <1>2, <1>3

(* The steps of the abstract queue: a call of push, *)
LEMMA CallPush ==
  ASSUME TasksInv, NEW a \in Address, TQ!PushCall(Capture, a)
  PROVE  /\ Enter(Capture, "idle", "put")
         /\ ac' = [ac EXCEPT ![Capture] = a] /\ Tasks' = Tasks
<1>1. TQP!Fifo!PutCall(Capture, a)
  BY SameCapture, TasksAssumed, TQP!PushCallImplements DEF TasksInv
<1> QED
  BY <1>1, SameTasks DEF TQP!Fifo!PutCall, TQP!Fifo!Enter, Enter, Phase, Tasks

(* the steps of push, one of which appends the packet, *)
LEMMA InPush ==
  ASSUME TasksInv, TasksInv', TQ!PushStep(Capture)
  PROVE  \/ /\ Enter(Capture, "put", "putDone")
            /\ Tasks' = Append(Tasks, ac[Capture]) /\ ac' = ac
         \/ /\ Enter(Capture, "putDone", "idle")
            /\ Tasks' = Tasks /\ ac' = [ac EXCEPT ![Capture] = NULL]
         \/ UNCHANGED <<Phase, Tasks, ac>>
<1>1. \/ TQP!Fifo!Put(Capture) \/ TQP!Fifo!PutReturn(Capture)
      \/ UNCHANGED TQP!Fifo!vars
  BY SameCapture, TasksAssumed, TQP!PushImplements DEF TasksInv
<1> QED
  BY <1>1, SameTasks
  DEF TQP!Fifo!Put, TQP!Fifo!PutReturn, TQP!Fifo!Enter, TQP!Fifo!vars,
      Enter, Phase, Tasks

(* a call of pop, *)
LEMMA CallPop ==
  ASSUME TasksInv, NEW w \in Workers, TQ!PopCall(w)
  PROVE  /\ Enter(w, "idle", "take")
         /\ ac' = [ac EXCEPT ![w] = NULL] /\ Tasks' = Tasks
<1>1. TQP!Fifo!TakeCall(w)
  BY SameWorker, TasksAssumed, TQP!PopCallImplements DEF TasksInv
<1> QED
  BY <1>1, SameTasks DEF TQP!Fifo!TakeCall, TQP!Fifo!Enter, Enter, Phase, Tasks

(* the steps of pop, one of which takes the first packet, *)
LEMMA InPop ==
  ASSUME TasksInv, TasksInv', NEW w \in Workers, TQ!PopStep(w)
  PROVE  \/ /\ Enter(w, "take", "takeDone") /\ Tasks # << >>
            /\ Tasks' = Tail(Tasks) /\ ac' = [ac EXCEPT ![w] = Head(Tasks)]
         \/ Enter(w, "takeDone", "idle") /\ Tasks' = Tasks /\ ac' = ac
         \/ UNCHANGED <<Phase, Tasks, ac>>
<1>1. \/ TQP!Fifo!Take(w) \/ TQP!Fifo!TakeReturn(w) \/ UNCHANGED TQP!Fifo!vars
  BY SameWorker, TasksAssumed, TQP!PopImplements DEF TasksInv
<1> QED
  BY <1>1, SameTasks
  DEF TQP!Fifo!Take, TQP!Fifo!TakeReturn, TQP!Fifo!Enter, TQP!Fifo!vars,
      Enter, Phase, Tasks

(* and whoever does not touch the queue. *)
LEMMA NoTasks == UNCHANGED tq => UNCHANGED <<Phase, Tasks, ac, pc>>
<1> SUFFICES ASSUME UNCHANGED tq PROVE UNCHANGED <<Phase, Tasks, ac, pc>>
  OBVIOUS
<1>1. UNCHANGED <<semConsumer, cache, cacheConsumer, pc, ac>>  BY DEF tq
<1>2. TQ!Queue' = TQ!Queue
  BY <1>1
  DEF TQ!Queue, TQ!Held, TQ!Count, TQ!At, TQ!Slot, TQ!First, TQ!Advance
<1>3. TQ!Phase' = TQ!Phase  BY <1>1 DEF TQ!Phase
<1> QED  BY <1>1, <1>2, <1>3 DEF Phase, Tasks

-----------------------------------------------------------------------------
(* Who owns which packet *)

(* The owners in O and the places in q hold each address of A once. *)
Owned(O, at, q, A) ==
    /\ \A t \in O : at[t] \in A
    /\ q \in Seq(A)
    /\ \A t, u \in O : at[t] = at[u] => t = u
    /\ \A j, k \in 1 .. Len(q) : q[j] = q[k] => j = k
    /\ \A t \in O, k \in 1 .. Len(q) : at[t] # q[k]
    /\ \A a \in A : (\E t \in O : at[t] = a) \/ (\E k \in 1 .. Len(q) : q[k] = a)

Agree(O, at, bt) == \A t \in O : at[t] = bt[t]

(* An owner gets a new packet, *)
LEMMA OwnedNew ==
  ASSUME NEW O, NEW at, NEW q, NEW A, Owned(O, at, q, A),
         NEW t, t \notin O, NEW bt, Agree(O, at, bt), bt[t] \notin A
  PROVE  Owned(O \cup {t}, bt, q, A \cup {bt[t]})
<1>1. PICK a : a = bt[t] /\ a \notin A  OBVIOUS
<1>2. q \in Seq(A \cup {a}) /\ \A k \in 1 .. Len(q) : q[k] \in A
  BY DEF Owned
<1>3. \A u \in O : bt[u] = at[u] /\ at[u] \in A  BY DEF Owned, Agree
<1> QED  BY <1>1, <1>2, <1>3 DEF Owned

(* puts it into the queue, *)
LEMMA OwnedPut ==
  ASSUME NEW O, NEW at, NEW q, NEW A, Owned(O, at, q, A), NEW t \in O
  PROVE  Owned(O \ {t}, at, Append(q, at[t]), A)
<1>1. PICK a \in A, n \in Nat : a = at[t] /\ n = Len(q) /\ q \in Seq(A)
  BY DEF Owned
<1>2. PICK r : r = Append(q, a)  OBVIOUS
<1>3. /\ r \in Seq(A) /\ Len(r) = n + 1 /\ r[n + 1] = a
      /\ \A k \in 1 .. n : r[k] = q[k]
  BY <1>1, <1>2
<1>4. \A k \in 1 .. n + 1 : k \in 1 .. n \/ k = n + 1  BY <1>1
<1>5. \A k \in 1 .. n : q[k] # a /\ k \in 1 .. n + 1  BY <1>1 DEF Owned
<1>6. n + 1 \in 1 .. n + 1  BY <1>1
<1>7. \A j, k \in 1 .. n + 1 : r[j] = r[k] => j = k
  BY <1>1, <1>3, <1>4, <1>5 DEF Owned
<1>8. \A u \in O \ {t}, k \in 1 .. n + 1 : at[u] # r[k]
  BY <1>1, <1>3, <1>4 DEF Owned
<1>9. \A b \in A : (\E u \in O \ {t} : at[u] = b) \/ (\E k \in 1 .. n + 1 : r[k] = b)
  BY <1>1, <1>3, <1>5, <1>6 DEF Owned
<1>10. Owned(O \ {t}, at, r, A)
  BY <1>1, <1>3, <1>7, <1>8, <1>9 DEF Owned
<1> QED  BY <1>1, <1>2, <1>10

(* takes it out, *)
LEMMA OwnedTake ==
  ASSUME NEW O, NEW at, NEW q, NEW A, Owned(O, at, q, A), q # << >>,
         NEW t, t \notin O, NEW bt, Agree(O, at, bt), bt[t] = Head(q)
  PROVE  Owned(O \cup {t}, bt, Tail(q), A)
<1>1. PICK n \in Nat : n = Len(q) - 1 /\ Len(q) = n + 1 /\ q \in Seq(A)
  BY DEF Owned
<1>2. PICK r : r = Tail(q)  OBVIOUS
<1>3. /\ r \in Seq(A) /\ Len(r) = n /\ bt[t] = q[1] /\ q[1] \in A
      /\ \A k \in 1 .. n : r[k] = q[k + 1] /\ k + 1 \in 1 .. n + 1 /\ k + 1 # 1
  BY <1>1, <1>2
<1>4. \A k \in 1 .. n + 1 : k = 1 \/ (k - 1 \in 1 .. n /\ k = k - 1 + 1)
  BY <1>1
<1>5. 1 \in 1 .. n + 1  BY <1>1
<1>6. \A u \in O : bt[u] = at[u]  BY DEF Agree
<1>7. \A j, k \in 1 .. n : r[j] = r[k] => j = k
  <2> SUFFICES ASSUME NEW j \in 1 .. n, NEW k \in 1 .. n, r[j] = r[k]
               PROVE  j = k
    OBVIOUS
  <2>1. j + 1 = k + 1  BY <1>1, <1>3 DEF Owned
  <2> QED  BY <2>1
<1>8. \A k \in 1 .. n : r[k] # q[1]  BY <1>1, <1>3, <1>5 DEF Owned
<1>9. \A u \in O : bt[u] # q[1] /\ bt[u] \in A  BY <1>1, <1>5, <1>6 DEF Owned
<1>10. \A u \in O, k \in 1 .. n : bt[u] # r[k]
  BY <1>1, <1>3, <1>6 DEF Owned
<1>11. ASSUME NEW b \in A
       PROVE  (\E u \in O \cup {t} : bt[u] = b) \/ (\E k \in 1 .. n : r[k] = b)
  <2>1. CASE \E u \in O : at[u] = b  BY <2>1, <1>6
  <2>2. ASSUME NEW k \in 1 .. n + 1, q[k] = b
        PROVE  (\E u \in O \cup {t} : bt[u] = b) \/ (\E j \in 1 .. n : r[j] = b)
    <3>1. CASE k = 1  BY <2>2, <3>1, <1>3
    <3>2. CASE k # 1  BY <2>2, <3>2, <1>3, <1>4
    <3> QED  BY <3>1, <3>2
  <2> QED  BY <2>1, <2>2, <1>1 DEF Owned
<1>12. \A u, v \in O \cup {t} : bt[u] = bt[v] => u = v
  BY <1>3, <1>6, <1>9 DEF Owned
<1>13. Owned(O \cup {t}, bt, r, A)
  BY <1>3, <1>7, <1>8, <1>9, <1>10, <1>11, <1>12 DEF Owned
<1> QED  BY <1>2, <1>13

(* deletes it, *)
LEMMA OwnedFree ==
  ASSUME NEW O, NEW at, NEW q, NEW A, Owned(O, at, q, A), NEW t \in O,
         NEW bt, Agree(O \ {t}, at, bt)
  PROVE  Owned(O \ {t}, bt, q, A \ {at[t]})
<1>1. PICK a : a = at[t]  OBVIOUS
<1>2. q \in Seq(A) /\ \A k \in 1 .. Len(q) : q[k] \in A \ {a}
  BY <1>1 DEF Owned
<1>3. q \in Seq(A \ {a})
  <2>1. Len(q) \in Nat /\ q = [k \in 1 .. Len(q) |-> q[k]]  BY <1>2
  <2>2. q \in [1 .. Len(q) -> A \ {a}]  BY <1>2, <2>1
  <2> QED  BY <2>1, <2>2, SeqDef
<1>4. \A u \in O \ {t} : bt[u] = at[u] /\ at[u] \in A \ {a}
  BY <1>1 DEF Owned, Agree
<1> QED  BY <1>1, <1>2, <1>3, <1>4 DEF Owned

(* or does nothing to it. *)
LEMMA OwnedSame ==
  ASSUME NEW O, NEW at, NEW q, NEW A, Owned(O, at, q, A), NEW bt, Agree(O, at, bt)
  PROVE  Owned(O, bt, q, A)
BY DEF Owned, Agree

-----------------------------------------------------------------------------
(* The invariant of the packets *)

(* The frames in memory are among those captured, and no two are the same; a
   worker that is not in Pop is between its calls. *)
Typing ==
    /\ kind \in Seq(Traffic) /\ Len(kind) \in 0 .. MaxFrames
    /\ heap \in [Address -> Frames \cup {NoFrame}]
    /\ \A a \in Address : heap[a] # NoFrame => heap[a] \in 1 .. Len(kind)
    /\ \A a, b \in Address : heap[a] = heap[b] /\ heap[a] # NoFrame => a = b
    /\ stage \in [Workers -> {"start", "pop", "push", "delete"}]
    /\ \A w \in Workers : stage[w] # "pop" => Phase[w] = "idle"
    /\ outStage \in {"pop", "deal"}

Allocated == {a \in Address : heap[a] # NoFrame}
Owning == {w \in Workers : WorkerOwns(w)} \cup {t \in {Capture} : Phase[t] = "put"}
Ownership == Owned(Owning, ac, Tasks, Allocated)

(* How many frames have left CTaskQueue.  Those in the queue and with the
   capture thread are the later ones, in the order of their capture. *)
Taken == Len(kind) - Len(Tasks) - (IF Phase[Capture] = "put" THEN 1 ELSE 0)
InOrder ==
    /\ Taken \in Nat
    /\ \A k \in 1 .. Len(Tasks) : heap[Tasks[k]] = Taken + k
    /\ Phase[Capture] = "put" => heap[ac[Capture]] = Len(kind)

PacketInv == Typing /\ Ownership /\ InOrder

(* At first there is no packet. *)
LEMMA PacketInit == Init /\ TasksInv => PacketInv
<1> SUFFICES ASSUME Init, TasksInv PROVE PacketInv
  OBVIOUS
<1>1. /\ kind = << >> /\ heap = [a \in Address |-> NoFrame]
      /\ stage = [w \in Workers |-> "start"] /\ outStage = "pop"
  BY DEF Init
<1>2. \A t \in {Capture} \cup Workers : Phase[t] = "idle"
  BY TasksType DEF Init, TQ!Init, TQ!Threads
<1>3. Tasks = << >>
  <2>1. TQP!Fifo!Init
    BY SameTasks, TasksAssumed, TQP!InitImplements DEF Init
  <2> QED  BY <2>1, SameTasks DEF TQP!Fifo!Init, Tasks
<1>4. Typing  BY <1>1, <1>2, FramesAssumption DEF Typing
<1>5. Owning = {} /\ Allocated = {}
  BY <1>1, <1>2 DEF Owning, WorkerOwns, Allocated
<1>6. Ownership  BY <1>3, <1>5 DEF Ownership, Owned
<1>7. InOrder  BY <1>1, <1>2, <1>3 DEF InOrder, Taken
<1> QED  BY <1>4, <1>6, <1>7 DEF PacketInv

(* Only an owned address can be read or deleted. *)
LEMMA OwnerFacts ==
  ASSUME TasksInv, PacketInv
  PROVE  /\ \A t \in Owning : ac[t] \in Address /\ heap[ac[t]] \in 1 .. Len(kind)
         /\ Tasks \in Seq(Address) /\ Len(Tasks) \in Nat
         /\ \A k \in 1 .. Len(Tasks) : Tasks[k] \in Allocated
         /\ \A t \in Owning, k \in 1 .. Len(Tasks) : ac[t] # Tasks[k]
         /\ \A t, u \in Owning : ac[t] = ac[u] => t = u
<1>1. \A a \in Allocated : a \in Address /\ heap[a] \in 1 .. Len(kind)
  BY DEF PacketInv, Typing, Allocated
<1>2. Tasks \in Seq(Allocated) /\ Allocated \subseteq Address
  BY DEF PacketInv, Ownership, Owned, Allocated
<1>3. Tasks \in Seq(Address)  BY <1>2
<1> QED  BY <1>1, <1>2, <1>3 DEF PacketInv, Ownership, Owned

(* The capture thread copies a frame and calls Push. *)
LEMMA CallBackKeeps ==
  ASSUME TasksInv, PacketInv, NEW k \in Traffic, NEW a \in Address, CallBack(k, a)
  PROVE  PacketInv'
<1>1. /\ Enter(Capture, "idle", "put") /\ ac' = [ac EXCEPT ![Capture] = a]
      /\ Tasks' = Tasks
  BY CallPush DEF CallBack
<1>2. /\ Len(kind) < MaxFrames /\ heap[a] = NoFrame
      /\ kind' = Append(kind, k) /\ heap' = [heap EXCEPT ![a] = Len(kind')]
      /\ stage' = stage /\ outStage' = outStage
  BY DEF CallBack
<1>3. PICK n \in 0 .. MaxFrames : n = Len(kind) /\ n + 1 \in 1 .. MaxFrames
  BY <1>2, FramesAssumption DEF PacketInv, Typing
<1>4. kind' \in Seq(Traffic) /\ Len(kind') = n + 1 /\ n + 1 \in Frames
  BY <1>2, <1>3 DEF PacketInv, Typing, Frames
<1>5. n + 1 # NoFrame  BY <1>3, FramesAssumption
<1>6. \A b \in Address : heap'[b] = IF b = a THEN n + 1 ELSE heap[b]
  BY <1>2, <1>4 DEF PacketInv, Typing
<1>7. /\ Phase' \in [{Capture} \cup Workers ->
                      {"idle", "put", "putDone", "take", "takeDone"}]
      /\ Phase[Capture] = "idle" /\ Phase'[Capture] = "put"
      /\ \A w \in Workers : Phase'[w] = Phase[w]
  BY <1>1, TasksType, ThreadsAssumption DEF Enter
<1>8. Typing'
  <2>1. heap' \in [Address -> Frames \cup {NoFrame}]
    BY <1>2, <1>4 DEF PacketInv, Typing
  <2>2. \A b \in Address : heap'[b] # NoFrame => heap'[b] \in 1 .. n + 1
    BY <1>3, <1>6 DEF PacketInv, Typing
  <2>3. \A b \in Address : heap[b] # n + 1
    BY <1>3, <1>5 DEF PacketInv, Typing
  <2>4. \A b, c \in Address : heap'[b] = heap'[c] /\ heap'[b] # NoFrame => b = c
    BY <2>3, <1>6 DEF PacketInv, Typing
  <2>5. kind' \in Seq(Traffic) /\ Len(kind') \in 0 .. MaxFrames
    BY <1>3, <1>4
  <2>6. \A b \in Address : heap'[b] # NoFrame => heap'[b] \in 1 .. Len(kind')
    BY <2>2, <1>4
  <2>7. /\ stage' \in [Workers -> {"start", "pop", "push", "delete"}]
        /\ \A w \in Workers : stage'[w] # "pop" => Phase'[w] = "idle"
        /\ outStage' \in {"pop", "deal"}
    BY <1>2, <1>7 DEF PacketInv, Typing
  <2> QED  BY <2>1, <2>4, <2>5, <2>6, <2>7 DEF Typing
<1>9. Owning' = Owning \cup {Capture} /\ Capture \notin Owning
  BY <1>2, <1>7, ThreadsAssumption DEF Owning, WorkerOwns, Phase
<1>10. Allocated' = Allocated \cup {a} /\ a \notin Allocated
  BY <1>2, <1>5, <1>6 DEF Allocated
<1>11. Agree(Owning, ac, ac') /\ ac'[Capture] = a
  BY <1>1, <1>9, TasksType DEF Agree
<1>12. Ownership'
  <2>1. Owned(Owning, ac, Tasks, Allocated)  BY DEF PacketInv, Ownership
  <2>2. Owned(Owning \cup {Capture}, ac', Tasks, Allocated \cup {a})
    BY <2>1, <1>9, <1>10, <1>11, OwnedNew
  <2> QED  BY <2>2, <1>1, <1>9, <1>10 DEF Ownership
<1>13. InOrder'
  <2>1. Taken' = Taken  BY <1>1, <1>3, <1>4, <1>7, OwnerFacts DEF Taken
  <2>2. ASSUME NEW j \in 1 .. Len(Tasks) PROVE heap'[Tasks[j]] = Taken + j
    <3>1. Tasks[j] \in Address /\ Tasks[j] # a
      BY <1>10, OwnerFacts DEF Allocated
    <3> QED  BY <3>1, <1>6 DEF PacketInv, InOrder
  <2>3. heap'[ac'[Capture]] = Len(kind')  BY <1>4, <1>6, <1>11
  <2> QED  BY <2>1, <2>2, <2>3, <1>1 DEF PacketInv, InOrder
<1> QED  BY <1>8, <1>12, <1>13 DEF PacketInv

(* A step that leaves the queue, the phases and the memory alone. *)
LEMMA StageKeeps ==
  ASSUME TasksInv, PacketInv, UNCHANGED <<Phase, Tasks, ac, kind, heap>>,
         stage' \in [Workers -> {"start", "pop", "push", "delete"}],
         outStage' \in {"pop", "deal"},
         \A w \in Workers : stage'[w] # stage[w]
            => Phase[w] = "idle" /\ stage[w] # "start" /\ stage'[w] # "start"
  PROVE  PacketInv'
<1>1. Typing'  BY DEF PacketInv, Typing
<1>2. Owning' = Owning
  <2>1. \A w \in Workers : WorkerOwns(w)' <=> WorkerOwns(w)
    BY DEF WorkerOwns, Phase
  <2> QED  BY <2>1 DEF Owning
<1>3. Allocated' = Allocated  BY DEF Allocated
<1>4. Ownership'  BY <1>2, <1>3 DEF PacketInv, Ownership
<1>5. InOrder'  BY DEF PacketInv, InOrder, Taken
<1> QED  BY <1>1, <1>4, <1>5 DEF PacketInv

(* Inside Push, the packet goes from the capture thread into the queue. *)
LEMMA CaptureKeeps ==
  ASSUME TasksInv, TasksInv', PacketInv, CaptureStep
  PROVE  PacketInv'
<1>1. UNCHANGED <<kind, heap, stage, outStage>>  BY DEF CaptureStep
<1>2. CASE /\ Enter(Capture, "put", "putDone")
           /\ Tasks' = Append(Tasks, ac[Capture]) /\ ac' = ac
  <2>1. /\ Phase[Capture] = "put" /\ Phase'[Capture] = "putDone"
        /\ \A w \in Workers : Phase'[w] = Phase[w]
    BY <1>2, TasksType, ThreadsAssumption DEF Enter
  <2>2. Typing'  BY <1>1, <2>1 DEF PacketInv, Typing
  <2>3. Owning' = Owning \ {Capture} /\ Capture \in Owning
    BY <1>1, <2>1, ThreadsAssumption DEF Owning, WorkerOwns, Phase
  <2>4. Allocated' = Allocated  BY <1>1 DEF Allocated
  <2>5. Ownership'
    <3>1. Owned(Owning, ac, Tasks, Allocated)  BY DEF PacketInv, Ownership
    <3>2. Owned(Owning \ {Capture}, ac, Append(Tasks, ac[Capture]), Allocated)
      BY <3>1, <2>3, OwnedPut
    <3> QED  BY <3>2, <2>3, <2>4, <1>2 DEF Ownership
  <2>6. PICK a \in Address, n \in Nat :
          /\ a = ac[Capture] /\ n = Len(Tasks) /\ Tasks \in Seq(Address)
    BY <2>3, OwnerFacts
  <2>7. /\ Len(Tasks') = n + 1 /\ Tasks'[n + 1] = a
        /\ \A j \in 1 .. n : Tasks'[j] = Tasks[j]
        /\ \A j \in 1 .. n + 1 : j \in 1 .. n \/ j = n + 1
    BY <2>6, <1>2
  <2>8. Len(kind) \in Nat  BY DEF PacketInv, Typing
  <2>9. Taken' = Taken /\ Taken + (n + 1) = Len(kind)
    BY <2>1, <2>6, <2>7, <2>8, <1>1 DEF Taken
  <2>10. InOrder'
    BY <2>1, <2>6, <2>7, <2>9, <1>1 DEF PacketInv, InOrder
  <2> QED  BY <2>2, <2>5, <2>10 DEF PacketInv
<1>3. CASE /\ Enter(Capture, "putDone", "idle")
           /\ Tasks' = Tasks /\ ac' = [ac EXCEPT ![Capture] = NULL]
  <2>1. /\ Phase[Capture] = "putDone" /\ Phase'[Capture] = "idle"
        /\ \A w \in Workers : Phase'[w] = Phase[w]
    BY <1>3, TasksType, ThreadsAssumption DEF Enter
  <2>2. Typing'  BY <1>1, <2>1 DEF PacketInv, Typing
  <2>3. Owning' = Owning /\ Capture \notin Owning
    BY <1>1, <2>1, ThreadsAssumption DEF Owning, WorkerOwns, Phase
  <2>4. Allocated' = Allocated  BY <1>1 DEF Allocated
  <2>5. Agree(Owning, ac, ac')
    <3>1. Owning \subseteq {Capture} \cup Workers  BY DEF Owning
    <3> QED  BY <3>1, <2>3, <1>3, TasksType DEF Agree
  <2>6. Ownership'
    <3>1. Owned(Owning, ac, Tasks, Allocated)  BY DEF PacketInv, Ownership
    <3>2. Owned(Owning, ac', Tasks, Allocated)  BY <3>1, <2>5, OwnedSame
    <3> QED  BY <3>2, <2>3, <2>4, <1>3 DEF Ownership
  <2>7. InOrder'  BY <2>1, <1>1, <1>3 DEF PacketInv, InOrder, Taken
  <2> QED  BY <2>2, <2>6, <2>7 DEF PacketInv
<1>4. CASE UNCHANGED <<Phase, Tasks, ac>>
  BY <1>4, <1>1, StageKeeps DEF PacketInv, Typing
<1> QED  BY <1>2, <1>3, <1>4, InPush DEF CaptureStep

(* A worker calls Pop for the first time, *)
LEMMA StartKeeps ==
  ASSUME TasksInv, PacketInv, NEW w \in Workers, Start(w)
  PROVE  PacketInv'
<1>1. /\ Enter(w, "idle", "take") /\ ac' = [ac EXCEPT ![w] = NULL]
      /\ Tasks' = Tasks
  BY CallPop DEF Start
<1>2. /\ UNCHANGED <<kind, heap, outStage>>
      /\ stage[w] = "start" /\ stage' = [stage EXCEPT ![w] = "pop"]
  BY DEF Start, At
<1>3. /\ stage'[w] = "pop"
      /\ stage' \in [Workers -> {"start", "pop", "push", "delete"}]
      /\ \A v \in Workers \ {w} : stage'[v] = stage[v]
  BY <1>2 DEF PacketInv, Typing
<1>4. /\ Phase'[w] = "take"
      /\ \A v \in {Capture} \cup Workers : v # w => Phase'[v] = Phase[v]
      /\ w # Capture
  BY <1>1, TasksType, ThreadsAssumption DEF Enter
<1>5. Typing'  BY <1>2, <1>3, <1>4 DEF PacketInv, Typing
<1>6. Owning' = Owning /\ w \notin Owning
  BY <1>2, <1>3, <1>4, ThreadsAssumption DEF Owning, WorkerOwns, Phase
<1>7. Allocated' = Allocated  BY <1>2 DEF Allocated
<1>8. Agree(Owning, ac, ac')
  <2>1. Owning \subseteq {Capture} \cup Workers  BY DEF Owning
  <2> QED  BY <2>1, <1>1, <1>6, TasksType DEF Agree
<1>9. Ownership'
  <2>1. Owned(Owning, ac, Tasks, Allocated)  BY DEF PacketInv, Ownership
  <2>2. Owned(Owning, ac', Tasks, Allocated)  BY <2>1, <1>8, OwnedSame
  <2> QED  BY <2>2, <1>1, <1>6, <1>7 DEF Ownership
<1>10. InOrder'
  <2>1. ac'[Capture] = ac[Capture]  BY <1>1, <1>4, TasksType
  <2> QED  BY <2>1, <1>1, <1>2, <1>4 DEF PacketInv, InOrder, Taken
<1> QED  BY <1>5, <1>9, <1>10 DEF PacketInv

(* and takes a packet in it. *)
LEMMA WorkerPopKeeps ==
  ASSUME TasksInv, TasksInv', PacketInv, NEW w \in Workers, WorkerPop(w)
  PROVE  PacketInv'
<1>1. UNCHANGED <<kind, heap, stage, outStage>> /\ stage[w] = "pop"
  BY DEF WorkerPop
<1>2. CASE /\ Enter(w, "take", "takeDone") /\ Tasks # << >>
           /\ Tasks' = Tail(Tasks) /\ ac' = [ac EXCEPT ![w] = Head(Tasks)]
  <2>1. /\ Phase[w] = "take" /\ Phase'[w] = "takeDone" /\ w # Capture
        /\ \A v \in {Capture} \cup Workers : v # w => Phase'[v] = Phase[v]
    BY <1>2, TasksType, ThreadsAssumption DEF Enter
  <2>2. Typing'  BY <1>1, <2>1 DEF PacketInv, Typing
  <2>3. Owning' = Owning \cup {w} /\ w \notin Owning
    BY <1>1, <2>1, ThreadsAssumption DEF Owning, WorkerOwns, Phase
  <2>4. Allocated' = Allocated  BY <1>1 DEF Allocated
  <2>5. Agree(Owning, ac, ac') /\ ac'[w] = Head(Tasks) /\ ac'[Capture] = ac[Capture]
    <3>1. Owning \subseteq {Capture} \cup Workers  BY DEF Owning
    <3> QED  BY <3>1, <2>1, <2>3, <1>2, TasksType DEF Agree
  <2>6. Ownership'
    <3>1. Owned(Owning, ac, Tasks, Allocated)  BY DEF PacketInv, Ownership
    <3>2. Owned(Owning \cup {w}, ac', Tail(Tasks), Allocated)
      BY <3>1, <2>3, <2>5, <1>2, OwnedTake
    <3> QED  BY <3>2, <2>3, <2>4, <1>2 DEF Ownership
  <2>7. PICK n \in Nat : Len(Tasks) = n + 1 /\ Tasks \in Seq(Address)
    <3>1. Tasks \in Seq(Address) /\ Len(Tasks) # 0 /\ Len(Tasks) \in Nat
      BY <1>2, OwnerFacts
    <3>2. PICK n \in Nat : Len(Tasks) = n + 1  BY <3>1
    <3> QED  BY <3>1, <3>2
  <2>8. /\ Len(Tasks') = n
        /\ \A j \in 1 .. n : Tasks'[j] = Tasks[j + 1] /\ j + 1 \in 1 .. n + 1
    BY <2>7, <1>2
  <2>9. Len(kind) \in Nat  BY DEF PacketInv, Typing
  <2>10. Taken' = Taken + 1 /\ Taken \in Nat
    BY <2>1, <2>7, <2>8, <2>9, <1>1 DEF PacketInv, InOrder, Taken
  <2>11. ASSUME NEW j \in 1 .. n PROVE heap[Tasks'[j]] = Taken' + j
    <3>1. heap[Tasks[j + 1]] = Taken + (j + 1)
      BY <2>7, <2>8 DEF PacketInv, InOrder
    <3> QED  BY <3>1, <2>8, <2>10
  <2>12. InOrder'
    BY <2>1, <2>5, <2>8, <2>10, <2>11, <1>1 DEF PacketInv, InOrder
  <2> QED  BY <2>2, <2>6, <2>12 DEF PacketInv
<1>3. CASE Enter(w, "takeDone", "idle") /\ Tasks' = Tasks /\ ac' = ac
  <2>1. /\ Phase[w] = "takeDone" /\ Phase'[w] = "idle" /\ w # Capture
        /\ \A v \in {Capture} \cup Workers : v # w => Phase'[v] = Phase[v]
    BY <1>3, TasksType, ThreadsAssumption DEF Enter
  <2>2. Typing'  BY <1>1, <2>1 DEF PacketInv, Typing
  <2>3. Owning' = Owning
    BY <1>1, <2>1, ThreadsAssumption DEF Owning, WorkerOwns, Phase
  <2>4. Allocated' = Allocated  BY <1>1 DEF Allocated
  <2>5. Ownership'  BY <2>3, <2>4, <1>3 DEF PacketInv, Ownership
  <2>6. InOrder'  BY <2>1, <1>1, <1>3 DEF PacketInv, InOrder, Taken
  <2> QED  BY <2>2, <2>5, <2>6 DEF PacketInv
<1>4. CASE UNCHANGED <<Phase, Tasks, ac>>
  BY <1>4, <1>1, StageKeeps DEF PacketInv, Typing
<1> QED  BY <1>2, <1>3, <1>4, InPop DEF WorkerPop

(* The worker deletes its packet and calls Pop again. *)
LEMMA DeleteKeeps ==
  ASSUME TasksInv, PacketInv, NEW w \in Workers, Delete(w)
  PROVE  PacketInv'
<1>1. /\ Enter(w, "idle", "take") /\ ac' = [ac EXCEPT ![w] = NULL]
      /\ Tasks' = Tasks
  BY CallPop DEF Delete
<1>2. /\ UNCHANGED <<kind, outStage>>
      /\ stage[w] = "delete" /\ stage' = [stage EXCEPT ![w] = "pop"]
      /\ heap' = [heap EXCEPT ![ac[w]] = NoFrame]
  BY DEF Delete, At
<1>3. /\ stage'[w] = "pop"
      /\ stage' \in [Workers -> {"start", "pop", "push", "delete"}]
      /\ \A v \in Workers \ {w} : stage'[v] = stage[v]
  BY <1>2 DEF PacketInv, Typing
<1>4. /\ Phase[w] = "idle" /\ Phase'[w] = "take"
      /\ \A v \in {Capture} \cup Workers : v # w => Phase'[v] = Phase[v]
      /\ w # Capture
  BY <1>1, TasksType, ThreadsAssumption DEF Enter
<1>5. Owning' = Owning \ {w} /\ w \in Owning
  BY <1>2, <1>3, <1>4, ThreadsAssumption DEF Owning, WorkerOwns, Phase
<1>6. PICK a \in Address : a = ac[w] /\ heap[a] # NoFrame
  <2>1. ac[w] \in Allocated  BY <1>5 DEF PacketInv, Ownership, Owned
  <2> QED  BY <2>1 DEF Allocated
<1>7. \A b \in Address : heap'[b] = IF b = a THEN NoFrame ELSE heap[b]
  BY <1>2, <1>6 DEF PacketInv, Typing
<1>8. Typing'
  <2>1. heap' \in [Address -> Frames \cup {NoFrame}]
    BY <1>2 DEF PacketInv, Typing
  <2> QED  BY <2>1, <1>2, <1>3, <1>4, <1>7 DEF PacketInv, Typing
<1>9. Allocated' = Allocated \ {a}  BY <1>7 DEF Allocated
<1>10. Agree(Owning \ {w}, ac, ac')
  <2>1. Owning \subseteq {Capture} \cup Workers  BY DEF Owning
  <2> QED  BY <2>1, <1>1, TasksType DEF Agree
<1>11. Ownership'
  <2>1. Owned(Owning, ac, Tasks, Allocated)  BY DEF PacketInv, Ownership
  <2>2. Owned(Owning \ {w}, ac', Tasks, Allocated \ {ac[w]})
    BY <2>1, <1>5, <1>10, OwnedFree
  <2> QED  BY <2>2, <1>1, <1>5, <1>6, <1>9 DEF Ownership
<1>12. InOrder'
  <2>1. ac'[Capture] = ac[Capture]  BY <1>1, <1>4, TasksType
  <2>2. Taken' = Taken  BY <1>1, <1>2, <1>4 DEF Taken
  <2>3. ASSUME NEW k \in 1 .. Len(Tasks) PROVE heap'[Tasks[k]] = heap[Tasks[k]]
    <3>1. Tasks[k] # a /\ Tasks[k] \in Address
      BY <1>5, <1>6, OwnerFacts DEF Allocated
    <3> QED  BY <3>1, <1>7
  <2>4. ASSUME Phase[Capture] = "put"
        PROVE  heap'[ac[Capture]] = heap[ac[Capture]]
    <3>1. Capture \in Owning  BY <2>4 DEF Owning
    <3>2. ac[Capture] # a /\ ac[Capture] \in Address
      BY <3>1, <1>4, <1>5, <1>6, OwnerFacts
    <3> QED  BY <3>2, <1>7
  <2>5. Phase'[Capture] = Phase[Capture]  BY <1>4
  <2> QED  BY <2>1, <2>2, <2>3, <2>4, <2>5, <1>1, <1>2 DEF PacketInv, InOrder
<1> QED  BY <1>8, <1>11, <1>12 DEF PacketInv

(* What else happens between two calls of a worker. *)
LEMMA BetweenCalls ==
  ASSUME TasksInv, PacketInv, NEW w \in Workers,
         Analyse(w) \/ Ignore(w) \/ PushAccepted(w) \/ PushRefused(w)
  PROVE  /\ UNCHANGED <<Phase, Tasks, ac, kind, heap, outStage>>
         /\ w \in Owning /\ stage[w] \in {"pop", "push"}
         /\ stage' = [stage EXCEPT ![w] = IF Analyse(w) THEN "push" ELSE "delete"]
<1>1. UNCHANGED <<tq, kind, heap, outStage>>
  BY DEF Analyse, Ignore, PushAccepted, PushRefused
<1>2. UNCHANGED <<Phase, Tasks, ac, pc>>  BY <1>1, NoTasks
<1>3. /\ stage[w] \in {"pop", "push"}
      /\ stage' = [stage EXCEPT ![w] = IF Analyse(w) THEN "push" ELSE "delete"]
  <2>1. CASE Analyse(w)  BY <2>1 DEF Analyse, At
  <2>2. CASE ~Analyse(w)
    BY <2>2 DEF Ignore, PushAccepted, PushRefused, At
  <2> QED  BY <2>1, <2>2
<1>4. Phase[w] = "idle"
  <2>1. CASE Analyse(w) \/ Ignore(w)
    BY <2>1, TasksType DEF Analyse, Ignore
  <2>2. CASE PushAccepted(w) \/ PushRefused(w)
    BY <2>2 DEF PushAccepted, PushRefused, At, PacketInv, Typing
  <2> QED  BY <2>1, <2>2
<1>5. w \in Owning  BY <1>3, <1>4 DEF Owning, WorkerOwns, Phase
<1> QED  BY <1>1, <1>2, <1>3, <1>5

(* Every step of the pipeline keeps PacketInv. *)
LEMMA PacketStep == TasksInv /\ TasksInv' /\ PacketInv /\ [Next]_vars => PacketInv'
<1> SUFFICES ASSUME TasksInv, TasksInv', PacketInv, [Next]_vars PROVE PacketInv'
  OBVIOUS
<1>1. ASSUME NEW w \in Workers,
             Analyse(w) \/ Ignore(w) \/ PushAccepted(w) \/ PushRefused(w)
      PROVE  PacketInv'
  <2>1. UNCHANGED <<Phase, Tasks, ac, kind, heap, outStage>>
    BY <1>1, BetweenCalls
  <2>2. /\ stage' = [stage EXCEPT ![w] = IF Analyse(w) THEN "push" ELSE "delete"]
        /\ w \in Owning /\ stage[w] \in {"pop", "push"}
    BY <1>1, BetweenCalls
  <2>3. Phase[w] = "idle"
    <3>1. CASE Analyse(w) \/ Ignore(w)
      BY <3>1, TasksType DEF Analyse, Ignore
    <3>2. CASE PushAccepted(w) \/ PushRefused(w)
      BY <3>2 DEF PushAccepted, PushRefused, At, PacketInv, Typing
    <3> QED  BY <1>1, <3>1, <3>2
  <2>4. PICK x \in {"push", "delete"} : stage' = [stage EXCEPT ![w] = x]
    BY <2>2
  <2>5. stage' \in [Workers -> {"start", "pop", "push", "delete"}]
        /\ \A v \in Workers : stage'[v] # stage[v] => v = w /\ stage'[v] = x
    BY <2>4 DEF PacketInv, Typing
  <2> QED  BY <2>1, <2>2, <2>3, <2>5, StageKeeps DEF PacketInv, Typing
<1>2. ASSUME NEW w \in Workers, WorkerStep(w) PROVE PacketInv'
  BY <1>1, <1>2, StartKeeps, WorkerPopKeeps, DeleteKeeps DEF WorkerStep
<1>3. CASE OutStep \/ OutSpuriousWake \/ UNCHANGED vars
  <2>1. UNCHANGED <<tq, kind, heap, stage>> /\ outStage' \in {"pop", "deal"}
    BY <1>3
    DEF OutStep, OutWaits, OutTakes, Deal, OutSpuriousWake, vars, PacketInv, Typing
  <2>2. UNCHANGED <<Phase, Tasks, ac>>  BY <2>1, NoTasks
  <2> QED  BY <2>1, <2>2, StageKeeps DEF PacketInv, Typing
<1> QED  BY <1>2, <1>3, CallBackKeeps, CaptureKeeps DEF Next

(* So PacketInv holds in every state. *)
LEMMA PacketInvariant == Spec => [](TasksInv /\ PacketInv)
<1>1. Spec => []TasksInv  BY TasksInvariant
<1> QED  BY <1>1, PacketInit, PacketStep, PTL DEF Spec

(* In every state that satisfies the invariant, a packet in memory has one
   owner, and free memory none. *)
LEMMA OwnedOnce == TasksInv /\ PacketInv => OneOwner
<1> SUFFICES ASSUME TasksInv, PacketInv, NEW a \in Address
             PROVE  Cardinality(Owners(a)) + Cardinality(QueuedAt(a))
                      = IF heap[a] = NoFrame THEN 0 ELSE 1
  BY DEF OneOwner
<1>1. Owners(a) = {t \in Owning : ac[t] = a}  BY DEF Owners, Owning, Phase
<1>2. Tasks \in Seq(Address) /\ DOMAIN Tasks = 1 .. Len(Tasks)
  BY OwnerFacts
<1>3. QueuedAt(a) = {k \in 1 .. Len(Tasks) : Tasks[k] = a}
  BY <1>2 DEF QueuedAt, Tasks
<1>4. Owned(Owning, ac, Tasks, Allocated)  BY DEF PacketInv, Ownership
<1>5. a \in Allocated <=> heap[a] # NoFrame  BY DEF Allocated
<1> HIDE DEF Owners, QueuedAt, Owning, Tasks, Allocated
<1>6. Cardinality({}) = 0  BY FS_EmptySet
<1>7. CASE a \notin Allocated
  <2>1. Owners(a) = {} /\ QueuedAt(a) = {}
    BY <1>1, <1>2, <1>3, <1>4, <1>7, OwnerFacts DEF Owned
  <2> QED  BY <2>1, <1>5, <1>6, <1>7
<1>8. ASSUME a \in Allocated, NEW t \in Owning, ac[t] = a
      PROVE  Owners(a) = {t} /\ QueuedAt(a) = {}
  BY <1>1, <1>3, <1>4, <1>8 DEF Owned
<1>9. ASSUME a \in Allocated, NEW k \in 1 .. Len(Tasks), Tasks[k] = a
      PROVE  Owners(a) = {} /\ QueuedAt(a) = {k}
  BY <1>1, <1>3, <1>4, <1>9 DEF Owned
<1>10. CASE a \in Allocated
  <2>1. \/ \E t : Owners(a) = {t} /\ QueuedAt(a) = {}
        \/ \E k : Owners(a) = {} /\ QueuedAt(a) = {k}
    BY <1>4, <1>8, <1>9, <1>10 DEF Owned
  <2>2. ASSUME NEW x PROVE Cardinality({x}) = 1  BY FS_Singleton
  <2>3. CASE \E t : Owners(a) = {t} /\ QueuedAt(a) = {}
    <3>1. Cardinality(Owners(a)) = 1 /\ Cardinality(QueuedAt(a)) = 0
      BY <2>2, <2>3, <1>6
    <3> QED  BY <3>1, <1>5, <1>10
  <2>4. CASE \E k : Owners(a) = {} /\ QueuedAt(a) = {k}
    <3>1. Cardinality(Owners(a)) = 0 /\ Cardinality(QueuedAt(a)) = 1
      BY <2>2, <2>4, <1>6
    <3> QED  BY <3>1, <1>5, <1>10
  <2> QED  BY <2>1, <2>3, <2>4
<1> QED  BY <1>7, <1>10

(* No packet is read after its delete, deleted twice or leaked: between new
   AnalContent and delete, one thread or one place in CTaskQueue has it. *)
THEOREM PacketsOwned == Spec => []OneOwner
BY PacketInvariant, OwnedOnce, PTL

-----------------------------------------------------------------------------
(* The queue to the output *)

(* The ring of the proofs is that of the pipeline. *)
LEMMA SameOutputs ==
  /\ AQ!Init = AQP!Init
  /\ AQ!Queue = AQP!Queue /\ AQ!Queue' = AQP!Queue'
  /\ \A w, n : AQ!PushStored(w, n) => AQP!PushStored(w, n)
  /\ \A w : AQ!PushRefused(w) => AQP!PushRefused(w)
  /\ AQ!PopWaits(Output) => AQP!PopWaits(Output)
  /\ AQ!PopTakes(Output) => AQP!PopTakes(Output)
  /\ AQ!SpuriousWake(Output) => AQP!SpuriousWake(Output)
<1>1. AQ!Init = AQP!Init
  BY DEF AQ!Init, AQ!Slots, AQ!Threads, AQ!MinusOne,
         AQP!Init, AQP!Slots, AQP!Threads, AQP!MinusOne
<1>2. AQ!Queue = AQP!Queue /\ AQ!Queue' = AQP!Queue'
  BY DEF AQ!Queue, AQ!Place, AQ!NextIndex, AQP!Queue, AQP!Place, AQP!NextIndex
<1>3. /\ \A w, n : AQ!PushStored(w, n) => AQP!PushStored(w, n)
      /\ \A w : AQ!PushRefused(w) => AQP!PushRefused(w)
  BY DEF AQ!PushStored, AQ!PushRefused, AQ!IsFull, AQ!NextIndex, AQ!Broadcast,
         AQ!Return, AQ!Threads,
         AQP!PushStored, AQP!PushRefused, AQP!IsFull, AQP!NextIndex,
         AQP!Broadcast, AQP!Return, AQP!Threads
<1>4. /\ AQ!PopWaits(Output) => AQP!PopWaits(Output)
      /\ AQ!PopTakes(Output) => AQP!PopTakes(Output)
      /\ AQ!SpuriousWake(Output) => AQP!SpuriousWake(Output)
  BY DEF AQ!PopWaits, AQ!PopTakes, AQ!SpuriousWake, AQ!Wait, AQ!TakeFront,
         AQ!NextIndex, AQ!Return,
         AQP!PopWaits, AQP!PopTakes, AQP!SpuriousWake, AQP!Wait,
         AQP!TakeFront, AQP!NextIndex, AQP!Return
<1> QED  BY <1>1, <1>2, <1>3, <1>4

(* A worker pushes a frame. *)
LEMMA PushesFrame ==
  ASSUME TasksInv, PacketInv, NEW w \in Workers,
         Ignore(w) \/ PushAccepted(w) \/ PushRefused(w)
  PROVE  Frame(w) \in Frames /\ Frame(w) \in 1 .. Len(kind)
<1>1. w \in Owning  BY BetweenCalls
<1>2. Frame(w) \in 1 .. Len(kind)  BY <1>1, OwnerFacts DEF Frame
<1>3. Len(kind) \in 0 .. MaxFrames  BY DEF PacketInv, Typing
<1> QED  BY <1>2, <1>3, FramesAssumption DEF Frames

(* No thread of the pipeline calls the timed pop, which alone can crash. *)
Alive ==
    /\ waiter \in [AQP!Threads -> AQP!Marks]
    /\ \A t \in AQP!Threads : waiter[t] # "crashed"

LEMMA StaysAlive == Spec => []Alive
<1>1. Init => Alive
  BY SameOutputs DEF Init, AQP!Init, AQP!Threads, AQP!Marks, Alive
<1>2. Alive /\ [Next]_vars => Alive'
  <2> SUFFICES ASSUME Alive, [Next]_vars PROVE Alive'
    OBVIOUS
  <2>1. ASSUME NEW w \in Workers, PushAccepted(w) \/ PushRefused(w) PROVE Alive'
    <3>1. PICK n : AQP!PushStored(w, n) \/ AQP!PushRefused(w)
      BY <2>1, SameOutputs DEF PushAccepted, PushRefused
    <3>2. AQP!Broadcast  BY <3>1 DEF AQP!PushStored, AQP!PushRefused
    <3> QED  BY <3>2 DEF AQP!Broadcast, Alive, AQP!Marks
  <2>2. CASE OutWaits \/ OutTakes \/ OutSpuriousWake
    <3>1. AQP!PopWaits(Output) \/ AQP!PopTakes(Output) \/ AQP!SpuriousWake(Output)
      BY <2>2, SameOutputs DEF OutWaits, OutTakes, OutSpuriousWake
    <3>2. PICK mark \in {"idle", "waiting", "woken", "timedWoken"} :
            waiter' = [waiter EXCEPT ![Output] = mark]
      BY <3>1 DEF AQP!PopWaits, AQP!PopTakes, AQP!SpuriousWake, AQP!Wait
    <3> QED  BY <3>2 DEF Alive, AQP!Marks
  <2>3. CASE UNCHANGED aq  BY <2>3 DEF aq, Alive
  <2>4. ASSUME NEW w \in Workers, WorkerStep(w), ~PushAccepted(w), ~PushRefused(w)
        PROVE  UNCHANGED aq
    BY <2>4 DEF WorkerStep, Start, WorkerPop, Analyse, Ignore, Delete
  <2>5. CASE CaptureStep \/ Deal \/ UNCHANGED vars \/ \E k \in Traffic, a \in Address : CallBack(k, a)
    BY <2>3, <2>5 DEF CaptureStep, CallBack, Deal, vars
  <2> QED  BY <2>1, <2>2, <2>3, <2>4, <2>5 DEF Next, OutStep
<1> QED  BY <1>1, <1>2, PTL DEF Spec

(* The workers and the output thread use CACQueue as its proofs say. *)
LEMMA OutputsSpec == Spec => AQP!Spec
<1>1. Init => AQP!Init  BY SameOutputs DEF Init
<1>2. TasksInv /\ PacketInv /\ Alive /\ [Next]_vars => [AQP!Next]_(AQP!vars)
  <2> SUFFICES ASSUME TasksInv, PacketInv, Alive, [Next]_vars
               PROVE  AQP!Next \/ UNCHANGED AQP!vars
    OBVIOUS
  <2>0. AQP!Calls => AQP!Next  BY DEF Alive, AQP!Next, AQP!Running
  <2>1. UNCHANGED aq => UNCHANGED AQP!vars  BY DEF aq, AQP!vars
  <2>2. CASE CaptureStep \/ UNCHANGED vars \/ \E k \in Traffic, a \in Address : CallBack(k, a)
    BY <2>1, <2>2 DEF CaptureStep, CallBack, vars
  <2>3. ASSUME NEW w \in Workers, WorkerStep(w)
        PROVE  AQP!Next \/ UNCHANGED aq
    <3>1. CASE PushAccepted(w)
      <4>1. PICK n \in Frames : AQP!PushStored(w, n)
        BY <3>1, PushesFrame, SameOutputs DEF PushAccepted
      <4> QED  BY <2>0, <4>1 DEF AQP!Calls, AQP!Push
    <3>2. CASE PushRefused(w)
      <4>1. AQP!PushRefused(w) /\ Frame(w) \in Frames
        BY <3>2, PushesFrame, SameOutputs DEF PushRefused
      <4> QED  BY <2>0, <4>1 DEF AQP!Calls, AQP!Push
    <3>3. CASE ~(PushAccepted(w) \/ PushRefused(w))
      BY <2>3, <3>3
      DEF WorkerStep, Start, WorkerPop, Analyse, Ignore, Delete
    <3> QED  BY <3>1, <3>2, <3>3
  <2>4. CASE OutStep \/ OutSpuriousWake
    <3>1. \/ AQP!PopWaits(Output) \/ AQP!PopTakes(Output)
          \/ AQP!SpuriousWake(Output) \/ UNCHANGED aq
      BY <2>4, SameOutputs
      DEF OutStep, OutWaits, OutTakes, Deal, OutSpuriousWake
    <3> QED  BY <2>0, <2>1, <3>1 DEF AQP!Calls, AQP!Pop
  <2> QED  BY <2>1, <2>2, <2>3, <2>4 DEF Next
<1> QED  BY <1>1, <1>2, PacketInvariant, StaysAlive, PTL DEF Spec, AQP!Spec

(* The invariant of CACQueue's proofs holds in the pipeline. *)
LEMMA OutputsInvariant == Spec => []AQP!IInv
<1>1. AQP!Spec => []AQP!IInv  BY OutputsAssumed, AQP!Inductive
<1> QED  BY <1>1, OutputsSpec, PTL

(* What the users of CACQueue see of it. *)
Outputs == AQ!Queue

(* Whoever does not touch the queue leaves its packets; *)
LEMMA NoOutputs == UNCHANGED aq => UNCHANGED <<Outputs, outAc>>
<1> SUFFICES ASSUME UNCHANGED aq PROVE UNCHANGED <<Outputs, outAc>>
  OBVIOUS
<1>1. UNCHANGED <<m_array, m_size, m_front, outAc>>  BY DEF aq
<1> QED  BY <1>1 DEF Outputs, AQ!Queue, AQ!Place, AQ!NextIndex

(* push appends one, *)
LEMMA OutPush ==
  ASSUME AQP!IInv, AQP!IInv', NEW w \in Workers, NEW n \in Frames,
         AQ!PushStored(w, n)
  PROVE  Outputs' = Append(Outputs, n) /\ outAc' = outAc
<1>1. AQP!PushStored(w, n)  BY SameOutputs
<1>2. AQP!Queue' = Append(AQP!Queue, n)
  BY <1>1, OutputsAssumed, AQP!StoreAppends
<1> QED  BY <1>1, <1>2, SameOutputs DEF AQP!PushStored, Outputs

(* a push that is refused does not, *)
LEMMA OutRefuse ==
  ASSUME NEW w \in Workers, AQ!PushRefused(w)
  PROVE  Outputs' = Outputs /\ outAc' = outAc
BY DEF AQ!PushRefused, Outputs, AQ!Queue, AQ!Place, AQ!NextIndex

(* pop takes the first, *)
LEMMA OutPop ==
  ASSUME AQP!IInv, AQP!IInv', AQ!PopTakes(Output)
  PROVE  /\ Outputs # << >> /\ Outputs' = Tail(Outputs)
         /\ outAc' = [outAc EXCEPT ![Output] = Head(Outputs)]
<1>1. AQP!PopTakes(Output)  BY SameOutputs
<1>2. Output \in AQP!Threads /\ m_size > 0 /\ AQP!TakeFront(Output)
  BY <1>1 DEF AQP!PopTakes, AQP!Threads
<1>3. /\ AQP!Queue # << >> /\ AQP!Queue' = Tail(AQP!Queue)
      /\ outAc' = [outAc EXCEPT ![Output] = Head(AQP!Queue)]
  BY <1>2, OutputsAssumed, AQP!TakeRemoves
<1> QED  BY <1>3, SameOutputs DEF Outputs

(* and waiting takes none. *)
LEMMA OutIdle ==
  AQ!PopWaits(Output) \/ AQ!SpuriousWake(Output) => UNCHANGED <<Outputs, outAc>>
BY DEF AQ!PopWaits, AQ!SpuriousWake, AQ!Wait, Outputs, AQ!Queue, AQ!Place,
       AQ!NextIndex

(* What is in the queue are frames. *)
LEMMA OutType == AQP!IInv => Outputs \in Seq(Frames \cup {NoFrame})
                              /\ outAc \in [Workers \cup {Output} -> Frames \cup {NoFrame}]
BY OutputsAssumed, AQP!QueueType, SameOutputs
DEF AQP!IInv, AQP!TypeOK, AQP!QueueShape, AQP!Contents, AQP!Threads, Outputs

-----------------------------------------------------------------------------
(* Where a frame is *)

(* A packet that is only there to be deleted. *)
Deleting(a) == \E w \in Workers : stage[w] = "delete" /\ ac[w] = a
Awaits(n) == \E a \in Address : heap[a] = n /\ ~Deleting(a)
Dealing(n) == outStage = "deal" /\ outAc[Output] = n

(* In how many places frame n is. *)
Total(n) == One(Awaits(n)) + One(n \in ignored) + One(n \in dropped)
              + One(Dealing(n)) + Count(Outputs, n) + Count(delivered, n)

FateTypes ==
    /\ Outputs \in Seq(Frames) /\ delivered \in Seq(Frames)
    /\ outStage = "deal" => outAc[Output] \in Frames
    /\ ignored \subseteq Frames /\ dropped \subseteq Frames

(* Every frame captured is in one place, and no other frame is anywhere yet. *)
FateInv == FateTypes /\ \A n \in Frames : Total(n) = One(n <= Len(kind))

(* The packet of a worker awaits its outcome until the worker deletes it. *)
LEMMA WorkerAwaits ==
  ASSUME TasksInv, PacketInv, NEW w \in Workers, w \in Owning
  PROVE  Awaits(Frame(w)) <=> stage[w] # "delete"
<1>1. ac[w] \in Address /\ heap[ac[w]] \in 1 .. Len(kind)  BY OwnerFacts
<1>2. heap[ac[w]] # NoFrame
  BY <1>1, FramesAssumption DEF PacketInv, Typing
<1>3. \A a \in Address : heap[a] = Frame(w) <=> a = ac[w]
  BY <1>1, <1>2 DEF PacketInv, Typing, Frame
<1>4. \A v \in Workers : stage[v] = "delete" => v \in Owning
  BY DEF PacketInv, Typing, Owning, WorkerOwns, Phase
<1>5. Deleting(ac[w]) <=> stage[w] = "delete"
  BY <1>4, OwnerFacts DEF Deleting
<1> QED  BY <1>1, <1>3, <1>5 DEF Awaits, Frame

(* Nothing changes for the frames when a worker calls Pop or takes a packet, *)
LEMMA AwaitsSame ==
  ASSUME UNCHANGED <<heap, stage>>,
         \A w \in Workers : stage[w] = "delete" => ac'[w] = ac[w]
  PROVE  \A n : Awaits(n)' <=> Awaits(n)
<1>1. \A a : Deleting(a)' <=> Deleting(a)  BY DEF Deleting
<1> QED  BY <1>1 DEF Awaits

(* A worker that is not in delete moves on: to delete, or elsewhere. *)
LEMMA AwaitsUntilDelete ==
  ASSUME TasksInv, PacketInv, NEW w \in Workers, w \in Owning,
         UNCHANGED <<heap, ac>>, stage[w] # "delete",
         stage' = [stage EXCEPT ![w] = "delete"]
  PROVE  \A n \in Frames : Awaits(n)' <=> Awaits(n) /\ n # Frame(w)
<1>1. ac[w] \in Address /\ heap[ac[w]] \in 1 .. Len(kind)  BY OwnerFacts
<1>2. heap[ac[w]] # NoFrame
  BY <1>1, FramesAssumption DEF PacketInv, Typing
<1>3. \A a \in Address : heap[a] = Frame(w) <=> a = ac[w]
  BY <1>1, <1>2 DEF PacketInv, Typing, Frame
<1>4. \A v \in Workers : stage'[v] = IF v = w THEN "delete" ELSE stage[v]
  BY DEF PacketInv, Typing
<1>5. \A a \in Address : Deleting(a)' <=> Deleting(a) \/ a = ac[w]
  BY <1>4 DEF Deleting
<1>6. \A n \in Frames : Awaits(n)' <=> \E a \in Address : heap[a] = n /\ ~Deleting(a)'
  BY DEF Awaits
<1> QED  BY <1>3, <1>5, <1>6 DEF Awaits

(* The numbers that Total adds up. *)
LEMMA PartTypes ==
  ASSUME FateTypes, NEW n
  PROVE  /\ One(Awaits(n)) \in {0, 1} /\ One(Dealing(n)) \in {0, 1}
         /\ One(n \in ignored) \in {0, 1} /\ One(n \in dropped) \in {0, 1}
         /\ Count(Outputs, n) \in Nat /\ Count(delivered, n) \in Nat
BY CountType DEF One, FateTypes

(* At the start there are no frames. *)
LEMMA FateInit == Init /\ TasksInv /\ AQP!IInv => FateInv
<1> SUFFICES ASSUME Init, AQP!IInv PROVE FateInv
  OBVIOUS
<1>1. /\ kind = << >> /\ heap = [a \in Address |-> NoFrame] /\ outStage = "pop"
      /\ ignored = {} /\ dropped = {} /\ delivered = << >> /\ m_size = 0
  BY DEF Init, AQ!Init
<1>2. Outputs = << >>
  <2>1. Len(Outputs) = 0 /\ Outputs \in Seq(Frames \cup {NoFrame})
    BY <1>1, OutType, OutputsAssumed, AQP!QueueType, SameOutputs
    DEF AQP!IInv, AQP!QueueShape, Outputs
  <2> QED  BY <2>1
<1>3. FateTypes  BY <1>1, <1>2 DEF FateTypes
<1>4. ASSUME NEW n \in Frames PROVE Total(n) = One(n <= Len(kind))
  <2>1. n \in 1 .. MaxFrames /\ n # NoFrame  BY FramesAssumption DEF Frames
  <2>2. ~Awaits(n) /\ ~Dealing(n) /\ ~(n <= Len(kind))
    BY <1>1, <2>1, FramesAssumption DEF Awaits, Dealing
  <2>3. Count(Outputs, n) = 0 /\ Count(delivered, n) = 0
    BY <1>1, <1>2, CountEmpty
  <2> QED  BY <1>1, <2>2, <2>3 DEF Total, One
<1> QED  BY <1>3, <1>4 DEF FateInv

(* A step after which every frame is where it was. *)
LEMMA FateSame ==
  ASSUME FateInv, \A n \in Frames : Awaits(n)' <=> Awaits(n),
         UNCHANGED <<kind, outStage, ignored, dropped, delivered, Outputs, outAc>>
  PROVE  FateInv'
<1>1. FateTypes'  BY DEF FateInv, FateTypes
<1>2. ASSUME NEW n \in Frames PROVE Total(n)' = Total(n)
  <2>1. One(Awaits(n))' = One(Awaits(n))  BY DEF One
  <2>2. One(Dealing(n))' = One(Dealing(n))  BY DEF One, Dealing
  <2>3. Count(Outputs, n)' = Count(Outputs, n) /\ Count(delivered, n)' = Count(delivered, n)
    BY DEF Count
  <2> QED  BY <2>1, <2>2, <2>3 DEF Total, One
<1> QED  BY <1>1, <1>2 DEF FateInv, One

(* pcap hands over a frame, which then awaits its analysis. *)
LEMMA CallBackFate ==
  ASSUME TasksInv, PacketInv, FateInv, NEW k \in Traffic, NEW a \in Address,
         CallBack(k, a)
  PROVE  FateInv'
<1>1. /\ Len(kind) < MaxFrames /\ heap[a] = NoFrame
      /\ kind' = Append(kind, k) /\ heap' = [heap EXCEPT ![a] = Len(kind')]
      /\ ac' = [ac EXCEPT ![Capture] = a]
      /\ UNCHANGED <<aq, stage, outStage, ignored, dropped, delivered>>
  BY CallPush DEF CallBack, fates
<1>2. PICK m \in 0 .. MaxFrames : m = Len(kind) /\ m + 1 \in 1 .. MaxFrames
  BY <1>1, FramesAssumption DEF PacketInv, Typing
<1>3. Len(kind') = m + 1 /\ m + 1 \in Frames /\ m + 1 # NoFrame
  BY <1>1, <1>2, FramesAssumption DEF PacketInv, Typing, Frames
<1>4. \A b \in Address : heap'[b] = IF b = a THEN m + 1 ELSE heap[b]
  BY <1>1, <1>3 DEF PacketInv, Typing
<1>5. \A b : Deleting(b)' <=> Deleting(b)
  BY <1>1, TasksType, ThreadsAssumption DEF Deleting
<1>6. ~Deleting(a)
  <2>1. \A w \in Workers : stage[w] = "delete" => w \in Owning
    BY DEF PacketInv, Typing, Owning, WorkerOwns, Phase
  <2>2. \A w \in Owning : heap[ac[w]] # NoFrame
    BY OwnerFacts, FramesAssumption DEF PacketInv, Typing
  <2> QED  BY <1>1, <2>1, <2>2 DEF Deleting
<1>7. \A n \in Frames : n # NoFrame  BY FramesAssumption DEF Frames
<1>8. \A n \in Frames : Awaits(n)' <=> Awaits(n) \/ n = m + 1
  <2>1. \A n : Awaits(n)' <=> \E b \in Address : heap'[b] = n /\ ~Deleting(b)
    BY <1>5 DEF Awaits
  <2>2. \A b \in Address : heap[b] # m + 1
    BY <1>2, <1>3 DEF PacketInv, Typing
  <2> QED  BY <2>1, <2>2, <1>1, <1>4, <1>6, <1>7 DEF Awaits
<1>9. ~Awaits(m + 1)
  BY <1>2, <1>3 DEF PacketInv, Typing, Awaits
<1>10. UNCHANGED <<outStage, ignored, dropped, delivered, Outputs, outAc>>
  BY <1>1, NoOutputs
<1>11. FateTypes'  BY <1>10 DEF FateInv, FateTypes
<1>12. ASSUME NEW n \in Frames PROVE Total(n)' = One(n <= Len(kind))'
  <2>1. One(Dealing(n))' = One(Dealing(n))  BY <1>10 DEF One, Dealing
  <2>2. Count(Outputs, n)' = Count(Outputs, n) /\ Count(delivered, n)' = Count(delivered, n)
    BY <1>10 DEF Count
  <2>3. /\ One(n \in ignored)' = One(n \in ignored)
        /\ One(n \in dropped)' = One(n \in dropped)
    BY <1>10 DEF One
  <2>4. Total(n) = One(n <= Len(kind)) /\ n \in 1 .. MaxFrames
    BY DEF FateInv, Frames
  <2>5. CASE n = m + 1
    <3>1. One(Awaits(n))' = 1 /\ One(Awaits(n)) = 0
      BY <1>8, <1>9, <2>5 DEF One
    <3>2. One(n <= Len(kind))' = 1 /\ One(n <= Len(kind)) = 0
      BY <1>2, <1>3, <2>5 DEF One
    <3> QED
      BY <2>1, <2>2, <2>3, <2>4, <3>1, <3>2, PartTypes DEF Total, FateInv
  <2>6. CASE n # m + 1
    <3>1. One(Awaits(n))' = One(Awaits(n))  BY <1>8, <2>6 DEF One
    <3>2. One(n <= Len(kind))' = One(n <= Len(kind))
      BY <1>2, <1>3, <2>4, <2>6, FramesAssumption DEF One
    <3> QED  BY <2>1, <2>2, <2>3, <2>4, <3>1, <3>2 DEF Total
  <2> QED  BY <2>5, <2>6
<1> QED  BY <1>11, <1>12 DEF FateInv

(* A worker deletes a packet that has had its outcome. *)
LEMMA DeleteFate ==
  ASSUME TasksInv, PacketInv, FateInv, NEW w \in Workers, Delete(w)
  PROVE  FateInv'
<1>1. Enter(w, "idle", "take") /\ ac' = [ac EXCEPT ![w] = NULL]
  BY CallPop DEF Delete
<1>2. /\ UNCHANGED <<aq, kind, outStage, ignored, dropped, delivered>>
      /\ stage[w] = "delete" /\ stage' = [stage EXCEPT ![w] = "pop"]
      /\ heap' = [heap EXCEPT ![ac[w]] = NoFrame]
  BY DEF Delete, At, fates
<1>3. w \in Owning  BY <1>1, <1>2 DEF Enter, Owning, WorkerOwns, Phase
<1>4. PICK a \in Address : a = ac[w]  BY <1>3, OwnerFacts
<1>5. \A b \in Address : heap'[b] = IF b = a THEN NoFrame ELSE heap[b]
  BY <1>2, <1>4 DEF PacketInv, Typing
<1>6. \A v \in Workers : /\ stage'[v] = IF v = w THEN "pop" ELSE stage[v]
                         /\ ac'[v] = IF v = w THEN NULL ELSE ac[v]
  BY <1>1, <1>2, TasksType DEF PacketInv, Typing
<1>7. Deleting(a) /\ \A b : b # a => (Deleting(b)' <=> Deleting(b))
  BY <1>2, <1>4, <1>6 DEF Deleting
<1>8. \A n \in Frames : n # NoFrame  BY FramesAssumption DEF Frames
<1>9. \A n \in Frames : Awaits(n)' <=> Awaits(n)
  <2>1. \A n : Awaits(n)' <=> \E b \in Address : heap'[b] = n /\ ~Deleting(b)'
    BY DEF Awaits
  <2> QED  BY <2>1, <1>5, <1>7, <1>8 DEF Awaits
<1> QED  BY <1>2, <1>9, NoOutputs, FateSame

(* The outcome of an analysis or a push: frame n leaves its worker, and one
   of the other numbers grows by one. *)
LEMMA OutcomeFate ==
  ASSUME TasksInv, PacketInv, FateInv, NEW w \in Workers, w \in Owning,
         UNCHANGED <<kind, heap, ac, outStage, outAc, delivered>>,
         stage[w] # "delete", stage' = [stage EXCEPT ![w] = "delete"],
         NEW n \in Frames, n = Frame(w), FateTypes',
         \A m \in Frames :
            One(m \in ignored)' + One(m \in dropped)' + Count(Outputs, m)'
              = One(m \in ignored) + One(m \in dropped) + Count(Outputs, m)
                  + One(m = n)
  PROVE  FateInv'
<1>1. Awaits(n)  BY WorkerAwaits
<1>2. \A m \in Frames : Awaits(m)' <=> Awaits(m) /\ m # n
  BY AwaitsUntilDelete
<1>3. ASSUME NEW m \in Frames PROVE Total(m)' = One(m <= Len(kind))'
  <2>1. One(Dealing(m))' = One(Dealing(m))  BY DEF One, Dealing
  <2>2. Count(delivered, m)' = Count(delivered, m)  BY DEF Count
  <2>3. One(m <= Len(kind))' = One(m <= Len(kind))  BY DEF One
  <2>4. One(Awaits(m))' = One(Awaits(m)) - One(m = n)
    BY <1>1, <1>2 DEF One
  <2>5. FateTypes /\ Total(m) = One(m <= Len(kind))  BY DEF FateInv
  <2>6. One(m \in ignored)' \in Nat /\ One(m \in dropped)' \in Nat
    BY DEF One
  <2>7. Count(Outputs, m)' \in Nat
    <3>1. Count(Outputs, m)' = Count(Outputs', m)  BY DEF Count
    <3>2. Outputs' \in Seq(Frames)  BY DEF FateTypes
    <3> QED  BY <3>1, <3>2, CountType
  <2>8. One(m = n) \in {0, 1}  BY DEF One
  <2>9. Total(m)' = One(Awaits(m))' + One(m \in ignored)' + One(m \in dropped)'
                      + One(Dealing(m))' + Count(Outputs, m)' + Count(delivered, m)'
    BY DEF Total
  <2>10. PICK a, d, i, r, o, v \in Nat :
           /\ a = One(Awaits(m)) /\ d = One(Dealing(m)) /\ i = One(m \in ignored)
           /\ r = One(m \in dropped) /\ o = Count(Outputs, m)
           /\ v = Count(delivered, m)
    <3>1. /\ One(Awaits(m)) \in Nat /\ One(Dealing(m)) \in Nat
          /\ One(m \in ignored) \in Nat /\ One(m \in dropped) \in Nat
          /\ Count(Outputs, m) \in Nat /\ Count(delivered, m) \in Nat
      BY <2>5, PartTypes DEF One
    <3> QED  BY <3>1
  <2>11. Total(m) = a + i + r + d + o + v  BY <2>10 DEF Total
  <2>12. PICK j, s, p \in Nat :
           /\ j = One(m \in ignored)' /\ s = One(m \in dropped)'
           /\ p = Count(Outputs, m)'
    BY <2>6, <2>7
  <2>13. PICK x \in Nat : x = One(m = n)  BY <2>8
  <2>14. j + s + p = i + r + o + x  BY <2>10, <2>12, <2>13
  <2>15. Total(m)' = (a - x) + j + s + d + p + v
    BY <2>1, <2>2, <2>4, <2>9, <2>10, <2>12, <2>13
  <2>16. Total(m)' = Total(m)  BY <2>11, <2>14, <2>15
  <2> QED  BY <2>3, <2>5, <2>16
<1> QED  BY <1>3 DEF FateInv

(* A frame is ignored, *)
LEMMA IgnoreFate ==
  ASSUME TasksInv, PacketInv, FateInv, NEW w \in Workers, Ignore(w)
  PROVE  FateInv'
<1>1. /\ UNCHANGED <<Phase, Tasks, ac, kind, heap, outStage>> /\ w \in Owning
      /\ Frame(w) \in Frames
  BY BetweenCalls, PushesFrame
<1>2. /\ UNCHANGED <<aq, dropped, delivered>>
      /\ ignored' = ignored \cup {Frame(w)}
      /\ stage[w] = "pop" /\ stage' = [stage EXCEPT ![w] = "delete"]
  BY DEF Ignore, At
<1>3. UNCHANGED <<Outputs, outAc>>  BY <1>2, NoOutputs
<1>4. PICK n \in Frames : n = Frame(w)  BY <1>1
<1>5. n \notin ignored
  <2>1. Awaits(n)  BY <1>1, <1>2, <1>4, WorkerAwaits
  <2>2. FateTypes /\ Total(n) = One(n <= Len(kind))  BY DEF FateInv
  <2> QED  BY <2>1, <2>2, PartTypes DEF Total, One
<1>6. FateTypes'  BY <1>1, <1>2, <1>3 DEF FateInv, FateTypes
<1>7. ASSUME NEW m \in Frames
      PROVE  One(m \in ignored)' + One(m \in dropped)' + Count(Outputs, m)'
               = One(m \in ignored) + One(m \in dropped) + Count(Outputs, m)
                   + One(m = n)
  <2>1. One(m \in ignored)' = One(m \in ignored) + One(m = n)
    BY <1>2, <1>4, <1>5 DEF One
  <2>2. One(m \in dropped)' = One(m \in dropped)  BY <1>2 DEF One
  <2>3. Count(Outputs, m)' = Count(Outputs, m)  BY <1>3 DEF Count
  <2>4. One(m = n) \in Nat  BY DEF One
  <2>5. PICK i, r, o \in Nat :
          /\ i = One(m \in ignored) /\ r = One(m \in dropped)
          /\ o = Count(Outputs, m)
    BY PartTypes DEF FateInv
  <2> QED  BY <2>1, <2>2, <2>3, <2>4, <2>5
<1> QED  BY <1>1, <1>2, <1>3, <1>4, <1>6, <1>7, OutcomeFate

(* refused by a full queue, *)
LEMMA RefusedFate ==
  ASSUME TasksInv, PacketInv, FateInv, NEW w \in Workers, PushRefused(w)
  PROVE  FateInv'
<1>1. /\ UNCHANGED <<Phase, Tasks, ac, kind, heap, outStage>> /\ w \in Owning
      /\ Frame(w) \in Frames
  BY BetweenCalls, PushesFrame
<1>2. /\ UNCHANGED <<ignored, delivered>> /\ AQ!PushRefused(w)
      /\ dropped' = dropped \cup {Frame(w)}
      /\ stage[w] = "push" /\ stage' = [stage EXCEPT ![w] = "delete"]
  BY DEF PushRefused, At
<1>3. UNCHANGED <<Outputs, outAc>>  BY <1>2, OutRefuse
<1>4. PICK n \in Frames : n = Frame(w)  BY <1>1
<1>5. n \notin dropped
  <2>1. Awaits(n)  BY <1>1, <1>2, <1>4, WorkerAwaits
  <2>2. FateTypes /\ Total(n) = One(n <= Len(kind))  BY DEF FateInv
  <2> QED  BY <2>1, <2>2, PartTypes DEF Total, One
<1>6. FateTypes'  BY <1>1, <1>2, <1>3 DEF FateInv, FateTypes
<1>7. ASSUME NEW m \in Frames
      PROVE  One(m \in ignored)' + One(m \in dropped)' + Count(Outputs, m)'
               = One(m \in ignored) + One(m \in dropped) + Count(Outputs, m)
                   + One(m = n)
  <2>1. One(m \in dropped)' = One(m \in dropped) + One(m = n)
    BY <1>2, <1>4, <1>5 DEF One
  <2>2. One(m \in ignored)' = One(m \in ignored)  BY <1>2 DEF One
  <2>3. Count(Outputs, m)' = Count(Outputs, m)  BY <1>3 DEF Count
  <2>4. One(m = n) \in Nat  BY DEF One
  <2>5. PICK i, r, o \in Nat :
          /\ i = One(m \in ignored) /\ r = One(m \in dropped)
          /\ o = Count(Outputs, m)
    BY PartTypes DEF FateInv
  <2> QED  BY <2>1, <2>2, <2>3, <2>4, <2>5
<1> QED  BY <1>1, <1>2, <1>3, <1>4, <1>6, <1>7, OutcomeFate

(* or accepted by the queue. *)
LEMMA AcceptedFate ==
  ASSUME TasksInv, PacketInv, AQP!IInv, AQP!IInv', FateInv,
         NEW w \in Workers, PushAccepted(w)
  PROVE  FateInv'
<1>1. /\ UNCHANGED <<Phase, Tasks, ac, kind, heap, outStage>> /\ w \in Owning
      /\ Frame(w) \in Frames
  BY BetweenCalls, PushesFrame
<1>2. /\ UNCHANGED <<ignored, dropped, delivered>> /\ AQ!PushStored(w, Frame(w))
      /\ stage[w] = "push" /\ stage' = [stage EXCEPT ![w] = "delete"]
  BY DEF PushAccepted, At, fates
<1>3. PICK n \in Frames : n = Frame(w)  BY <1>1
<1>4. Outputs' = Append(Outputs, n) /\ outAc' = outAc
  BY <1>2, <1>3, OutPush
<1>5. Outputs \in Seq(Frames)  BY DEF FateInv, FateTypes
<1>6. FateTypes'  BY <1>1, <1>2, <1>4, <1>5 DEF FateInv, FateTypes
<1>7. ASSUME NEW m \in Frames
      PROVE  One(m \in ignored)' + One(m \in dropped)' + Count(Outputs, m)'
               = One(m \in ignored) + One(m \in dropped) + Count(Outputs, m)
                   + One(m = n)
  <2>1. Count(Outputs, m)' = Count(Outputs', m)  BY DEF Count
  <2>2. Count(Outputs', m) = Count(Outputs, m) + One(n = m)
    BY <1>4, <1>5, CountAppend
  <2>3. /\ One(m \in ignored)' = One(m \in ignored)
        /\ One(m \in dropped)' = One(m \in dropped)
    BY <1>2 DEF One
  <2>4. One(m = n) \in Nat /\ One(n = m) = One(m = n)  BY DEF One
  <2>5. PICK i, r, o \in Nat :
          /\ i = One(m \in ignored) /\ r = One(m \in dropped)
          /\ o = Count(Outputs, m)
    BY PartTypes DEF FateInv
  <2> QED  BY <2>1, <2>2, <2>3, <2>4, <2>5
<1> QED  BY <1>1, <1>2, <1>3, <1>4, <1>6, <1>7, OutcomeFate

(* The output thread takes a packet out of the queue, *)
LEMMA TakesFate ==
  ASSUME AQP!IInv, AQP!IInv', FateInv, OutTakes
  PROVE  FateInv'
<1>1. /\ UNCHANGED <<kind, heap, stage, ignored, dropped, delivered>>
      /\ UNCHANGED <<tq, fates>> /\ outStage = "pop" /\ outStage' = "deal"
      /\ AQ!PopTakes(Output)
  BY DEF OutTakes, fates
<1>2. /\ Outputs # << >> /\ Outputs' = Tail(Outputs)
      /\ outAc' = [outAc EXCEPT ![Output] = Head(Outputs)]
  BY <1>1, OutPop
<1>3. ac' = ac  BY <1>1 DEF tq
<1>4. \A n : Awaits(n)' <=> Awaits(n)  BY <1>1, <1>3, AwaitsSame
<1>5. Outputs \in Seq(Frames)  BY DEF FateInv, FateTypes
<1>6. PICK h \in Frames : h = Head(Outputs)  BY <1>2, <1>5
<1>7. outAc'[Output] = h  BY <1>2, <1>6, OutType
<1>8. FateTypes'
  BY <1>1, <1>2, <1>5, <1>7 DEF FateInv, FateTypes
<1>9. ASSUME NEW m \in Frames PROVE Total(m)' = One(m <= Len(kind))'
  <2>1. /\ One(Awaits(m))' = One(Awaits(m))
        /\ One(m \in ignored)' = One(m \in ignored)
        /\ One(m \in dropped)' = One(m \in dropped)
    BY <1>1, <1>4 DEF One
  <2>2. Count(delivered, m)' = Count(delivered, m)  BY <1>1 DEF Count
  <2>3. One(Dealing(m)) = 0 /\ One(Dealing(m))' = One(h = m)
    BY <1>1, <1>7 DEF Dealing, One
  <2>4. Count(Outputs, m) = Count(Outputs, m)' + One(h = m)
    <3>1. Count(Outputs, m)' = Count(Tail(Outputs), m)  BY <1>2 DEF Count
    <3>2. Count(Outputs, m) = Count(Tail(Outputs), m) + One(Head(Outputs) = m)
      BY <1>2, <1>5, CountTail
    <3> QED  BY <3>1, <3>2, <1>6
  <2>5. Total(m) = One(m <= Len(kind)) /\ One(m <= Len(kind))' = One(m <= Len(kind))
    BY <1>1 DEF FateInv, One
  <2>6. PICK x \in Nat : x = One(h = m)  BY DEF One
  <2>7. PICK q \in Nat : q = Count(Outputs, m)'
    <3>1. Count(Outputs, m)' = Count(Outputs', m)  BY DEF Count
    <3>2. Outputs' \in Seq(Frames)  BY <1>8 DEF FateTypes
    <3> QED  BY <3>1, <3>2, CountType
  <2>8. PICK a, i, r, v \in Nat :
          /\ a = One(Awaits(m)) /\ i = One(m \in ignored)
          /\ r = One(m \in dropped) /\ v = Count(delivered, m)
    <3>1. /\ One(Awaits(m)) \in Nat /\ Count(delivered, m) \in Nat
          /\ One(m \in ignored) \in Nat /\ One(m \in dropped) \in Nat
      BY PartTypes DEF One, FateInv
    <3> QED  BY <3>1
  <2>9. Total(m) = a + i + r + 0 + (q + x) + v
    BY <2>3, <2>4, <2>6, <2>7, <2>8 DEF Total
  <2>10. Total(m)' = a + i + r + x + q + v
    BY <2>1, <2>2, <2>3, <2>6, <2>7, <2>8 DEF Total
  <2> QED  BY <2>5, <2>9, <2>10
<1> QED  BY <1>8, <1>9 DEF FateInv

(* and shows it or writes it. *)
LEMMA DealFate ==
  ASSUME AQP!IInv, FateInv, Deal
  PROVE  FateInv'
<1>1. /\ UNCHANGED <<kind, heap, stage, ignored, dropped, tq, aq>>
      /\ outStage = "deal" /\ outStage' = "pop"
      /\ delivered' = Append(delivered, outAc[Output])
  BY DEF Deal
<1>2. UNCHANGED <<Outputs, outAc>>  BY <1>1, NoOutputs
<1>3. ac' = ac  BY <1>1 DEF tq
<1>4. \A n : Awaits(n)' <=> Awaits(n)  BY <1>1, <1>3, AwaitsSame
<1>5. PICK h \in Frames : h = outAc[Output]  BY <1>1 DEF FateInv, FateTypes
<1>6. delivered \in Seq(Frames)  BY DEF FateInv, FateTypes
<1>7. FateTypes'
  BY <1>1, <1>2, <1>5, <1>6 DEF FateInv, FateTypes
<1>8. ASSUME NEW m \in Frames PROVE Total(m)' = One(m <= Len(kind))'
  <2>1. /\ One(Awaits(m))' = One(Awaits(m))
        /\ One(m \in ignored)' = One(m \in ignored)
        /\ One(m \in dropped)' = One(m \in dropped)
    BY <1>1, <1>4 DEF One
  <2>2. Count(Outputs, m)' = Count(Outputs, m)  BY <1>2 DEF Count
  <2>3. One(Dealing(m)) = One(h = m) /\ One(Dealing(m))' = 0
    BY <1>1, <1>5 DEF Dealing, One
  <2>4. Count(delivered, m)' = Count(delivered, m) + One(h = m)
    <3>1. Count(delivered, m)' = Count(Append(delivered, h), m)
      BY <1>1, <1>5 DEF Count
    <3> QED  BY <3>1, <1>6, CountAppend
  <2>5. Total(m) = One(m <= Len(kind)) /\ One(m <= Len(kind))' = One(m <= Len(kind))
    BY <1>1 DEF FateInv, One
  <2>6. PICK x \in Nat : x = One(h = m)  BY DEF One
  <2>7. PICK a, i, r, q, v \in Nat :
          /\ a = One(Awaits(m)) /\ i = One(m \in ignored)
          /\ r = One(m \in dropped) /\ q = Count(Outputs, m)
          /\ v = Count(delivered, m)
    <3>1. /\ One(Awaits(m)) \in Nat /\ Count(delivered, m) \in Nat
          /\ One(m \in ignored) \in Nat /\ One(m \in dropped) \in Nat
          /\ Count(Outputs, m) \in Nat
      BY PartTypes DEF One, FateInv
    <3> QED  BY <3>1
  <2>8. Total(m) = a + i + r + x + q + v
    BY <2>3, <2>6, <2>7 DEF Total
  <2>9. Total(m)' = a + i + r + 0 + q + (v + x)
    BY <2>1, <2>2, <2>3, <2>4, <2>6, <2>7 DEF Total
  <2> QED  BY <2>5, <2>8, <2>9
<1> QED  BY <1>7, <1>8 DEF FateInv

(* Every step keeps every frame in one place. *)
LEMMA FateStep ==
  /\ TasksInv /\ TasksInv' /\ PacketInv /\ AQP!IInv /\ AQP!IInv' /\ FateInv
  /\ [Next]_vars
  => FateInv'
<1> SUFFICES ASSUME TasksInv, TasksInv', PacketInv, AQP!IInv, AQP!IInv', FateInv,
                    [Next]_vars
             PROVE  FateInv'
  OBVIOUS
<1>1. CASE CaptureStep
  <2>1. UNCHANGED <<aq, kind, heap, stage, outStage, ignored, dropped, delivered>>
    BY <1>1 DEF CaptureStep, fates
  <2>2. \A w \in Workers : ac'[w] = ac[w]
    BY <1>1, InPush, TasksType, ThreadsAssumption DEF CaptureStep
  <2>3. \A n : Awaits(n)' <=> Awaits(n)  BY <2>1, <2>2, AwaitsSame
  <2> QED  BY <2>1, <2>3, NoOutputs, FateSame
<1>2. ASSUME NEW w \in Workers, Start(w) PROVE FateInv'
  <2>1. UNCHANGED <<aq, kind, heap, outStage, ignored, dropped, delivered>>
        /\ stage[w] = "start" /\ stage' = [stage EXCEPT ![w] = "pop"]
    BY <1>2 DEF Start, At, fates
  <2>2. \A v \in Workers : /\ stage'[v] = IF v = w THEN "pop" ELSE stage[v]
                           /\ ac'[v] = IF v = w THEN NULL ELSE ac[v]
    BY <1>2, <2>1, CallPop, TasksType DEF Start, PacketInv, Typing
  <2>3. \A a : Deleting(a)' <=> Deleting(a)  BY <2>1, <2>2 DEF Deleting
  <2>4. \A n \in Frames : Awaits(n)' <=> Awaits(n)  BY <2>1, <2>3 DEF Awaits
  <2> QED  BY <2>1, <2>4, NoOutputs, FateSame
<1>3. ASSUME NEW w \in Workers, WorkerPop(w) PROVE FateInv'
  <2>1. UNCHANGED <<aq, kind, heap, stage, outStage, ignored, dropped, delivered>>
        /\ stage[w] = "pop"
    BY <1>3 DEF WorkerPop, fates
  <2>2. \A v \in Workers : v # w => ac'[v] = ac[v]
    BY <1>3, InPop, TasksType DEF WorkerPop
  <2>3. \A n : Awaits(n)' <=> Awaits(n)  BY <2>1, <2>2, AwaitsSame
  <2> QED  BY <2>1, <2>3, NoOutputs, FateSame
<1>4. ASSUME NEW w \in Workers, Analyse(w) PROVE FateInv'
  <2>1. UNCHANGED <<aq, kind, heap, ac, outStage, ignored, dropped, delivered>>
        /\ stage[w] = "pop" /\ stage' = [stage EXCEPT ![w] = "push"]
    BY <1>4, BetweenCalls DEF Analyse, At, fates
  <2>2. \A v \in Workers : stage'[v] = IF v = w THEN "push" ELSE stage[v]
    BY <2>1 DEF PacketInv, Typing
  <2>3. \A a : Deleting(a)' <=> Deleting(a)  BY <2>1, <2>2 DEF Deleting
  <2>4. \A n \in Frames : Awaits(n)' <=> Awaits(n)  BY <2>1, <2>3 DEF Awaits
  <2> QED  BY <2>1, <2>4, NoOutputs, FateSame
<1>5. CASE OutWaits \/ OutSpuriousWake
  <2>1. UNCHANGED <<tq, kind, heap, stage, outStage, ignored, dropped, delivered>>
        /\ (AQ!PopWaits(Output) \/ AQ!SpuriousWake(Output))
    BY <1>5 DEF OutWaits, OutSpuriousWake, fates
  <2>2. UNCHANGED <<Outputs, outAc>> /\ ac' = ac  BY <2>1, OutIdle DEF tq
  <2>3. \A n : Awaits(n)' <=> Awaits(n)  BY <2>1, <2>2, AwaitsSame
  <2> QED  BY <2>1, <2>2, <2>3, FateSame
<1>6. CASE UNCHANGED vars
  <2>1. UNCHANGED <<tq, aq, kind, heap, stage, outStage, ignored, dropped, delivered>>
    BY <1>6 DEF vars, fates
  <2>2. ac' = ac  BY <2>1 DEF tq
  <2>3. \A n : Awaits(n)' <=> Awaits(n)  BY <2>1, <2>2, AwaitsSame
  <2> QED  BY <2>1, <2>3, NoOutputs, FateSame
<1>7. ASSUME NEW w \in Workers, WorkerStep(w) PROVE FateInv'
  BY <1>2, <1>3, <1>4, <1>7, IgnoreFate, AcceptedFate, RefusedFate, DeleteFate
  DEF WorkerStep
<1> QED
  BY <1>1, <1>5, <1>6, <1>7, CallBackFate, TakesFate, DealFate DEF Next, OutStep

(* The inductive invariant of the pipeline. *)
PipelineInv == TasksInv /\ AQP!IInv /\ PacketInv /\ FateInv

(* Every behaviour of the pipeline satisfies it. *)
THEOREM PipelineInvariant == Spec => []PipelineInv
<1>1. Spec => [](TasksInv /\ PacketInv)  BY PacketInvariant
<1>2. Spec => []AQP!IInv  BY OutputsInvariant
<1> QED  BY <1>1, <1>2, FateInit, FateStep, PTL DEF Spec, PipelineInv

(* The invariant says where every frame is. *)
LEMMA OncePlaced == PipelineInv => EveryFrameOnce
<1> SUFFICES ASSUME PipelineInv, NEW n \in DOMAIN kind
             PROVE  Cardinality(InAnalysis(n)) + Member(n, ignored)
                      + Member(n, dropped) + Occurs(n, InOutput)
                      + Occurs(n, delivered) = 1
  BY DEF EveryFrameOnce
<1>1. n \in Frames /\ n <= Len(kind) /\ n # NoFrame
  <2>1. n \in 1 .. Len(kind) /\ Len(kind) \in 0 .. MaxFrames
    BY DEF PipelineInv, PacketInv, Typing
  <2> QED  BY <2>1, FramesAssumption DEF Frames
<1>2. FateTypes /\ Total(n) = 1  BY <1>1 DEF PipelineInv, FateInv, One
<1>3. Cardinality(InAnalysis(n)) = One(Awaits(n))
  <2>1. \A a, b \in InAnalysis(n) : a = b
    BY <1>1 DEF InAnalysis, PipelineInv, PacketInv, Typing
  <2>2. Awaits(n) <=> InAnalysis(n) # {}  BY DEF Awaits, Deleting, InAnalysis
  <2>3. CASE InAnalysis(n) = {}
    <3>1. Cardinality({}) = 0  BY FS_EmptySet
    <3> QED  BY <2>2, <2>3, <3>1 DEF One
  <2>4. CASE InAnalysis(n) # {}
    <3>1. PICK a : InAnalysis(n) = {a}  BY <2>1, <2>4
    <3>2. Cardinality({a}) = 1  BY FS_Singleton
    <3> QED  BY <2>2, <2>4, <3>1, <3>2 DEF One
  <2> QED  BY <2>3, <2>4
<1>4. /\ Member(n, ignored) = One(n \in ignored)
      /\ Member(n, dropped) = One(n \in dropped)
  BY CountMember DEF Member
<1>5. Occurs(n, delivered) = Count(delivered, n)  BY DEF Occurs, Count
<1>6. Occurs(n, InOutput) = One(Dealing(n)) + Count(Outputs, n)
  <2>1. Occurs(n, InOutput) = Count(InOutput, n)  BY DEF Occurs, Count
  <2>2. CASE outStage = "deal"
    <3>1. PICK h \in Frames : h = outAc[Output]  BY <1>2, <2>2 DEF FateTypes
    <3>2. InOutput = <<h>> \o Outputs  BY <2>2, <3>1 DEF InOutput, Outputs
    <3>3. Count(InOutput, n) = One(h = n) + Count(Outputs, n)
      BY <1>2, <3>2, CountCons DEF FateTypes
    <3> QED  BY <2>1, <2>2, <3>1, <3>3 DEF Dealing, One
  <2>3. CASE outStage # "deal"
    <3>1. InOutput = Outputs
      BY <1>2, <2>3 DEF InOutput, Outputs, FateTypes
    <3>2. One(Dealing(n)) = 0  BY <2>3 DEF Dealing, One
    <3>3. Count(Outputs, n) \in Nat  BY <1>2, PartTypes
    <3> QED  BY <2>1, <3>1, <3>2, <3>3
  <2> QED  BY <2>2, <2>3
<1>7. PICK a, d, i, r, o, v \in Nat :
        /\ a = One(Awaits(n)) /\ d = One(Dealing(n)) /\ i = One(n \in ignored)
        /\ r = One(n \in dropped) /\ o = Count(Outputs, n)
        /\ v = Count(delivered, n)
  <2>1. /\ One(Awaits(n)) \in Nat /\ One(Dealing(n)) \in Nat
        /\ One(n \in ignored) \in Nat /\ One(n \in dropped) \in Nat
        /\ Count(Outputs, n) \in Nat /\ Count(delivered, n) \in Nat
    BY <1>2, PartTypes DEF One
  <2> QED  BY <2>1
<1>8. a + i + r + d + o + v = 1  BY <1>2, <1>7 DEF Total
<1>9. a + i + r + (d + o) + v = 1  BY <1>8
<1> QED  BY <1>3, <1>4, <1>5, <1>6, <1>7, <1>9

(* Every frame captured is awaiting analysis, ignored, dropped, awaiting
   output or delivered: in one of these places, and there once. *)
THEOREM FramesAccounted == Spec => []EveryFrameOnce
BY PipelineInvariant, OncePlaced, PTL

(* What the output has is a sequence of frames, of its two parts. *)
LEMMA OutputShape ==
  ASSUME FateTypes
  PROVE  /\ InOutput \in Seq(Frames) /\ ToOutput \in Seq(Frames)
         /\ ToSet(ToOutput) = ToSet(delivered) \cup ToSet(InOutput)
<1>1. delivered \in Seq(Frames) /\ Outputs \in Seq(Frames)  BY DEF FateTypes
<1>2. InOutput \in Seq(Frames)
  <2>1. CASE outStage = "deal"
    <3>1. PICK h \in Frames : h = outAc[Output]  BY <2>1 DEF FateTypes
    <3> QED  BY <1>1, <2>1, <3>1 DEF InOutput, Outputs
  <2>2. CASE outStage # "deal"  BY <1>1, <2>2 DEF InOutput, Outputs
  <2> QED  BY <2>1, <2>2
<1>3. PICK d, o \in Seq(Frames) : d = delivered /\ o = InOutput  BY <1>1, <1>2
<1>4. ToSet(d \o o) = ToSet(d) \cup ToSet(o)
  <2>1. /\ DOMAIN d = 1 .. Len(d) /\ DOMAIN o = 1 .. Len(o)
        /\ DOMAIN (d \o o) = 1 .. Len(d) + Len(o)
        /\ Len(d) \in Nat /\ Len(o) \in Nat
    OBVIOUS
  <2>2. \A k \in 1 .. Len(d) : (d \o o)[k] = d[k] /\ k \in 1 .. Len(d) + Len(o)
    BY <2>1
  <2>3. \A k \in 1 .. Len(o) : /\ (d \o o)[k + Len(d)] = o[k]
                              /\ k + Len(d) \in 1 .. Len(d) + Len(o)
    BY <2>1
  <2>4. \A k \in 1 .. Len(d) + Len(o) :
           k \in 1 .. Len(d) \/ (k - Len(d) \in 1 .. Len(o) /\ k = (k - Len(d)) + Len(d))
    BY <2>1
  <2>5. PICK n, l \in Nat : n = Len(d) /\ l = Len(o)  BY <2>1
  <2>5a. PICK r : r = d \o o  OBVIOUS
  <2>6. ASSUME NEW x PROVE x \in ToSet(r) <=> x \in ToSet(d) \/ x \in ToSet(o)
    <3>1. x \in ToSet(d) <=> \E k \in 1 .. n : d[k] = x  BY <2>1, <2>5, <2>5a DEF ToSet
    <3>2. x \in ToSet(o) <=> \E k \in 1 .. l : o[k] = x  BY <2>1, <2>5, <2>5a DEF ToSet
    <3>3. x \in ToSet(r) <=> \E k \in 1 .. n + l : r[k] = x
      BY <2>1, <2>5, <2>5a DEF ToSet
    <3>4. \A k \in 1 .. n : r[k] = d[k] /\ k \in 1 .. n + l  BY <2>2, <2>5, <2>5a
    <3>5. \A k \in 1 .. l : r[k + n] = o[k] /\ k + n \in 1 .. n + l
      BY <2>3, <2>5, <2>5a
    <3>6. \A k \in 1 .. n + l : k \in 1 .. n \/ (k - n \in 1 .. l /\ k = (k - n) + n)
      BY <2>4, <2>5, <2>5a
    <3> QED  BY <3>1, <3>2, <3>3, <3>4, <3>5, <3>6
  <2> QED  BY <2>5, <2>5a, <2>6
<1> QED  BY <1>2, <1>3, <1>4 DEF ToOutput

(* A frame in the output, or through it, has left CTaskQueue. *)
LEMMA OutputTaken ==
  ASSUME PipelineInv, NEW m \in ToSet(delivered) \cup ToSet(InOutput)
  PROVE  m \in Frames /\ m <= Taken /\ ~Awaits(m)
<1>1. FateTypes  BY DEF PipelineInv, FateInv
<1>2. m \in Frames /\ (m \in ToSet(delivered) \/ m \in ToSet(Outputs) \/ Dealing(m))
  <2>1. CASE m \in ToSet(delivered)  BY <1>1, <2>1 DEF FateTypes, ToSet
  <2>2. CASE m \in ToSet(InOutput) /\ outStage = "deal"
    <3>1. PICK h \in Frames : h = outAc[Output]  BY <1>1, <2>2 DEF FateTypes
    <3>2. InOutput = <<h>> \o Outputs /\ Outputs \in Seq(Frames)
      BY <1>1, <2>2, <3>1 DEF InOutput, Outputs, FateTypes
    <3>3. \A k \in DOMAIN (<<h>> \o Outputs) :
             \/ (<<h>> \o Outputs)[k] = h
             \/ k - 1 \in DOMAIN Outputs /\ (<<h>> \o Outputs)[k] = Outputs[k - 1]
      BY <3>2
    <3>4. m = h \/ m \in ToSet(Outputs)  BY <2>2, <3>2, <3>3 DEF ToSet
    <3> QED  BY <2>2, <3>1, <3>2, <3>4 DEF Dealing, ToSet
  <2>3. CASE m \in ToSet(InOutput) /\ outStage # "deal"
    <3>1. InOutput = Outputs /\ Outputs \in Seq(Frames)
      BY <1>1, <2>3 DEF InOutput, Outputs, FateTypes
    <3> QED  BY <2>3, <3>1 DEF ToSet
  <2> QED  BY <2>1, <2>2, <2>3
<1>3. Total(m) = One(m <= Len(kind)) /\ Len(kind) \in Nat /\ m \in Nat
  BY <1>2 DEF PipelineInv, FateInv, PacketInv, Typing, Frames
<1>4. m <= Len(kind) /\ ~Awaits(m)
  <2>1. PICK a, d, i, r, o, v \in Nat :
          /\ a = One(Awaits(m)) /\ d = One(Dealing(m)) /\ i = One(m \in ignored)
          /\ r = One(m \in dropped) /\ o = Count(Outputs, m)
          /\ v = Count(delivered, m)
    <3>1. /\ One(Awaits(m)) \in Nat /\ One(Dealing(m)) \in Nat
          /\ One(m \in ignored) \in Nat /\ One(m \in dropped) \in Nat
          /\ Count(Outputs, m) \in Nat /\ Count(delivered, m) \in Nat
      BY <1>1, PartTypes DEF One
    <3> QED  BY <3>1
  <2>2. d + o + v >= 1
    <3>1. v = 0 => m \notin ToSet(delivered)
      BY <1>1, <2>1, CountType DEF FateTypes
    <3>2. o = 0 => m \notin ToSet(Outputs)
      BY <1>1, <2>1, CountType DEF FateTypes
    <3>3. d = 0 => ~Dealing(m)  BY <2>1 DEF One
    <3> QED  BY <1>2, <2>1, <3>1, <3>2, <3>3
  <2>3. a + i + r + d + o + v = One(m <= Len(kind))  BY <1>3, <2>1 DEF Total
  <2>4. a = 0 /\ One(m <= Len(kind)) = 1  BY <2>2, <2>3 DEF One
  <2> QED  BY <2>1, <2>4 DEF One
<1>5. m <= Taken
  <2> SUFFICES ASSUME ~(m <= Taken) PROVE FALSE
    OBVIOUS
  <2>1. PICK l, t \in Nat : l = Len(Tasks) /\ t = Taken
    BY OwnerFacts DEF PipelineInv, PacketInv, InOrder
  <2>2. \A w \in Workers : stage[w] = "delete" => w \in Owning
    BY DEF PipelineInv, PacketInv, Typing, Owning, WorkerOwns, Phase
  <2>3. ASSUME NEW k \in 1 .. l, m = t + k PROVE FALSE
    <3>1. heap[Tasks[k]] = m /\ Tasks[k] \in Address
      BY <2>1, <2>3, OwnerFacts
      DEF PipelineInv, PacketInv, InOrder, Allocated
    <3>2. ~Deleting(Tasks[k])
      BY <2>1, <2>2, OwnerFacts DEF PipelineInv, Deleting
    <3> QED  BY <1>4, <3>1, <3>2 DEF Awaits
  <2>4. CASE Phase[Capture] = "put" /\ m = Len(kind)
    <3>1. Capture \in Owning /\ heap[ac[Capture]] = m
      BY <2>4 DEF Owning, PipelineInv, PacketInv, InOrder
    <3>2. ac[Capture] \in Address /\ ~Deleting(ac[Capture])
      BY <3>1, <2>2, OwnerFacts, ThreadsAssumption DEF PipelineInv, Deleting
    <3> QED  BY <1>4, <3>1, <3>2 DEF Awaits
  <2>5. \/ \E k \in 1 .. l : m = t + k
        \/ Phase[Capture] = "put" /\ m = Len(kind)
    <3>1. t = Len(kind) - l - (IF Phase[Capture] = "put" THEN 1 ELSE 0)
      BY <2>1 DEF Taken
    <3>2. CASE m - t \in 1 .. l
      <4>1. m = t + (m - t)  BY <1>3, <2>1
      <4> QED  BY <3>2, <4>1
    <3>3. CASE m - t \notin 1 .. l
      BY <1>3, <1>4, <2>1, <3>1, <3>3
    <3> QED  BY <3>2, <3>3
  <2> QED  BY <2>3, <2>4, <2>5
<1> QED  BY <1>2, <1>4, <1>5

(* A frame that has left CTaskQueue is with a worker or has its outcome. *)
LEMMA TakenPlaced ==
  ASSUME PipelineInv, NEW j \in Frames, j <= Taken
  PROVE  j \in Passed \cup WithWorker
<1>0. Passed = ToSet(delivered) \cup ToSet(InOutput) \cup ignored \cup dropped
  BY OutputShape DEF Passed, PipelineInv, FateInv
<1>1. j <= Len(kind)
  <2>1. Len(kind) \in Nat /\ Len(Tasks) \in Nat /\ j \in Nat
    BY OwnerFacts DEF PipelineInv, PacketInv, Typing, Frames
  <2> QED  BY <2>1 DEF Taken
<1>2. FateTypes /\ Total(j) = 1  BY <1>1 DEF PipelineInv, FateInv, One
<1>3. CASE ~Awaits(j)
  <2>1. CASE j \in ignored \cup dropped  BY <1>0, <2>1
  <2>2. CASE Dealing(j)
    <3>1. j \in ToSet(InOutput)
      <4>1. InOutput = <<j>> \o Outputs /\ Outputs \in Seq(Frames)
        BY <1>2, <2>2 DEF InOutput, Outputs, Dealing, FateTypes
      <4>2. 1 \in DOMAIN (<<j>> \o Outputs) /\ (<<j>> \o Outputs)[1] = j
        BY <4>1
      <4> QED  BY <4>1, <4>2 DEF ToSet
    <3> QED  BY <1>0, <3>1
  <2>3. CASE Count(delivered, j) # 0
    <3>1. j \in ToSet(delivered)  BY <1>2, <2>3, CountType DEF FateTypes
    <3> QED  BY <1>0, <3>1
  <2>4. CASE Count(Outputs, j) # 0
    <3>1. j \in ToSet(Outputs) /\ Outputs \in Seq(Frames)
      BY <1>2, <2>4, CountType DEF FateTypes
    <3>2. PICK k \in 1 .. Len(Outputs) : Outputs[k] = j  BY <3>1 DEF ToSet
    <3>3. j \in ToSet(InOutput)
      <4>1. CASE outStage = "deal"
        <5>1. PICK h \in Frames : InOutput = <<h>> \o Outputs
          BY <1>2, <4>1 DEF FateTypes, InOutput, Outputs
        <5>2. k + 1 \in DOMAIN (<<h>> \o Outputs) /\ (<<h>> \o Outputs)[k + 1] = j
          BY <3>1, <3>2
        <5> QED  BY <5>1, <5>2 DEF ToSet
      <4>2. CASE outStage # "deal"
        <5>1. InOutput = Outputs  BY <3>1, <4>2 DEF InOutput, Outputs
        <5> QED  BY <3>1, <5>1
      <4> QED  BY <4>1, <4>2
    <3> QED  BY <1>0, <3>3
  <2>5. CASE /\ ~Dealing(j) /\ j \notin ignored \cup dropped
             /\ Count(delivered, j) = 0 /\ Count(Outputs, j) = 0
    BY <1>2, <1>3, <2>5 DEF Total, One
  <2> QED  BY <2>1, <2>2, <2>3, <2>4, <2>5
<1>4. CASE Awaits(j)
  <2>1. PICK a \in Address : heap[a] = j  BY <1>4 DEF Awaits
  <2>2. a \in Allocated
    BY <2>1, FramesAssumption DEF Allocated, Frames
  <2>3. CASE \E t \in Owning : ac[t] = a
    <3>1. PICK t \in Owning : ac[t] = a  BY <2>3
    <3>2. CASE t \in Workers /\ WorkerOwns(t)
      BY <2>1, <3>1, <3>2 DEF WithWorker, Frame
    <3>3. CASE t = Capture /\ Phase[Capture] = "put"
      <4>1. j = Len(kind)
        BY <2>1, <3>1, <3>3 DEF PipelineInv, PacketInv, InOrder
      <4>2. Taken < Len(kind)
        <5>1. Len(kind) \in Nat /\ Len(Tasks) \in Nat
          BY OwnerFacts DEF PipelineInv, PacketInv, Typing
        <5> QED  BY <3>3, <5>1 DEF Taken
      <4>3. Taken \in Nat /\ Len(kind) \in Nat
        BY DEF PipelineInv, PacketInv, Typing, InOrder
      <4> QED  BY <4>1, <4>2, <4>3
    <3> QED  BY <3>1, <3>2, <3>3 DEF Owning
  <2>4. CASE \E k \in 1 .. Len(Tasks) : Tasks[k] = a
    <3>1. PICK k \in 1 .. Len(Tasks) : Tasks[k] = a  BY <2>4
    <3>2. j = Taken + k /\ Taken \in Nat /\ k >= 1 /\ k \in Nat
      BY <2>1, <3>1, OwnerFacts DEF PipelineInv, PacketInv, InOrder
    <3> QED  BY <3>2
  <2> QED
    BY <2>2, <2>3, <2>4 DEF PipelineInv, PacketInv, Ownership, Owned
<1> QED  BY <1>3, <1>4

(* A frame that has come to the output has no older one behind it in
   CTaskQueue. *)
LEMMA OlderPlaced ==
  ASSUME PipelineInv, NEW m \in ToSet(ToOutput)
  PROVE  1 .. m \subseteq Passed \cup WithWorker
<1>1. m \in ToSet(delivered) \cup ToSet(InOutput)
  BY OutputShape DEF PipelineInv, FateInv
<1>2. m \in Frames /\ m <= Taken  BY <1>1, OutputTaken
<1>3. ASSUME NEW j \in 1 .. m PROVE j \in Passed \cup WithWorker
  <2>1. m \in 1 .. MaxFrames /\ Taken \in Nat
    BY <1>2 DEF Frames, PipelineInv, PacketInv, InOrder
  <2>2. j \in Frames /\ j <= Taken
    BY <1>2, <2>1, FramesAssumption DEF Frames
  <2> QED  BY <2>2, TakenPlaced
<1> QED  BY <1>3

(* A step that changes what the output has appends the frame of a worker. *)
LEMMA OutputGrows ==
  ASSUME PipelineInv, PipelineInv', [Next]_vars
  PROVE  ToOutput' = ToOutput \/ \E n \in WithWorker : ToOutput' = Append(ToOutput, n)
<1> USE DEF PipelineInv, FateInv
<1>1. Outputs \in Seq(Frames) /\ delivered \in Seq(Frames)  BY DEF FateTypes
<1>2. UNCHANGED <<Outputs, outAc, outStage, delivered>> => ToOutput' = ToOutput
  BY DEF ToOutput, InOutput, Outputs
<1>3. ASSUME NEW w \in Workers, PushAccepted(w)
      PROVE  \E n \in WithWorker : ToOutput' = Append(ToOutput, n)
  <2>0. Frame(w) \in WithWorker
    <3>1. w \in Owning  BY <1>3, BetweenCalls
    <3> QED  BY <3>1, ThreadsAssumption DEF Owning, WithWorker
  <2>1. PICK n \in Frames : n = Frame(w)  BY <1>3, PushesFrame
  <2>2. Outputs' = Append(Outputs, n) /\ UNCHANGED <<outAc, outStage, delivered>>
    BY <1>3, <2>1, OutPush DEF PushAccepted, fates
  <2>3. CASE outStage = "deal"
    <3>1. PICK h \in Frames : h = outAc[Output]  BY <2>3 DEF FateTypes
    <3>2. /\ ToOutput = delivered \o (<<h>> \o Outputs)
          /\ ToOutput' = delivered \o (<<h>> \o Append(Outputs, n))
      BY <2>2, <2>3, <3>1 DEF ToOutput, InOutput, Outputs
    <3>3. <<h>> \o Append(Outputs, n) = Append(<<h>> \o Outputs, n)  BY <1>1
    <3>4. <<h>> \o Outputs \in Seq(Frames)  BY <1>1
    <3>5. delivered \o Append(<<h>> \o Outputs, n)
            = Append(delivered \o (<<h>> \o Outputs), n)
      BY <1>1, <3>4
    <3> QED  BY <2>0, <2>1, <3>2, <3>3, <3>5
  <2>4. CASE outStage # "deal"
    <3>1. InOutput = << >> \o Outputs /\ InOutput' = << >> \o Outputs'
      BY <2>2, <2>4 DEF InOutput, Outputs
    <3>2. /\ ToOutput = delivered \o Outputs
          /\ ToOutput' = delivered \o Append(Outputs, n)
      <4>1. << >> \o Outputs = Outputs  BY <1>1
      <4>2. Outputs' \in Seq(Frames) /\ << >> \o Outputs' = Outputs'
        BY <1>1, <2>2
      <4> QED  BY <2>2, <3>1, <4>1, <4>2 DEF ToOutput
    <3>3. delivered \o Append(Outputs, n) = Append(delivered \o Outputs, n)
      BY <1>1
    <3> QED  BY <2>0, <2>1, <3>2, <3>3
  <2> QED  BY <2>3, <2>4
<1>4. CASE OutTakes
  <2>1. /\ outStage = "pop" /\ outStage' = "deal" /\ delivered' = delivered
        /\ AQ!PopTakes(Output)
    BY <1>4 DEF OutTakes, fates
  <2>2. /\ Outputs # << >> /\ Outputs' = Tail(Outputs)
        /\ outAc' = [outAc EXCEPT ![Output] = Head(Outputs)]
    BY <2>1, OutPop
  <2>3. outAc'[Output] = Head(Outputs)  BY <2>2, OutType
  <2>4. /\ ToOutput = delivered \o Outputs
        /\ ToOutput' = delivered \o (<<Head(Outputs)>> \o Tail(Outputs))
    BY <1>1, <2>1, <2>2, <2>3 DEF ToOutput, InOutput, Outputs
  <2>5. <<Head(Outputs)>> \o Tail(Outputs) = Outputs  BY <1>1, <2>2
  <2> QED  BY <2>4, <2>5
<1>5. CASE Deal
  <2>1. /\ outStage = "deal" /\ outStage' = "pop"
        /\ delivered' = Append(delivered, outAc[Output]) /\ UNCHANGED aq
    BY <1>5 DEF Deal
  <2>2. UNCHANGED <<Outputs, outAc>>  BY <2>1, NoOutputs
  <2>3. PICK h \in Frames : h = outAc[Output]  BY <2>1 DEF FateTypes
  <2>4. /\ ToOutput = delivered \o (<<h>> \o Outputs)
        /\ ToOutput' = Append(delivered, h) \o Outputs
    <3>1. ToOutput' = delivered' \o (<< >> \o Outputs')
      BY <2>1 DEF ToOutput, InOutput, Outputs
    <3>2. << >> \o Outputs = Outputs  BY <1>1
    <3> QED  BY <2>1, <2>2, <2>3, <3>1, <3>2 DEF ToOutput, InOutput, Outputs
  <2>5. delivered \o (<<h>> \o Outputs) = Append(delivered, h) \o Outputs
    BY <1>1
  <2> QED  BY <2>4, <2>5
<1>6. CASE OutWaits \/ OutSpuriousWake
  BY <1>2, <1>6, OutIdle DEF OutWaits, OutSpuriousWake, fates
<1>7. ASSUME NEW w \in Workers, PushRefused(w) PROVE ToOutput' = ToOutput
  BY <1>2, <1>7, OutRefuse DEF PushRefused
<1>8. CASE UNCHANGED <<aq, outStage, delivered>>
  BY <1>2, <1>8, NoOutputs
<1>9. ASSUME NEW w \in Workers, WorkerStep(w), ~PushAccepted(w), ~PushRefused(w)
      PROVE  UNCHANGED <<aq, outStage, delivered>>
  BY <1>9 DEF WorkerStep, Start, WorkerPop, Analyse, Ignore, Delete, fates
<1>10. CASE CaptureStep \/ UNCHANGED vars \/ \E k \in Traffic, a \in Address : CallBack(k, a)
  BY <1>8, <1>10 DEF CaptureStep, CallBack, vars, fates
<1> QED
  BY <1>3, <1>4, <1>5, <1>6, <1>7, <1>8, <1>9, <1>10 DEF Next, OutStep

(* Neither queue changes the order of frames, nor does the output thread: one
   overtakes another only while a worker has the other. *)
THEOREM WorkersOvertake == Spec => OvertakenByWorkersOnly
<1>1. PipelineInv => \A m \in ToSet(ToOutput) : 1 .. m \subseteq Passed \cup WithWorker
  BY OlderPlaced
<1>2. PipelineInv /\ PipelineInv' /\ [Next]_vars
        /\ (\A m \in ToSet(ToOutput) : 1 .. m \subseteq Passed \cup WithWorker)'
        => [ToOutput' # ToOutput =>
              \E n \in WithWorker :
                 /\ ToOutput' = Append(ToOutput, n)
                 /\ 1 .. n \subseteq (Passed \cup WithWorker)']_vars
  <2> SUFFICES ASSUME PipelineInv, PipelineInv', [Next]_vars,
                      (\A m \in ToSet(ToOutput) : 1 .. m \subseteq Passed \cup WithWorker)',
                      ToOutput' # ToOutput
               PROVE  \E n \in WithWorker :
                         /\ ToOutput' = Append(ToOutput, n)
                         /\ 1 .. n \subseteq (Passed \cup WithWorker)'
    OBVIOUS
  <2>1. PICK n \in WithWorker : ToOutput' = Append(ToOutput, n)
    BY OutputGrows
  <2>2. ToOutput \in Seq(Frames)
    BY OutputShape DEF PipelineInv, FateInv
  <2>3. /\ Len(ToOutput) + 1 \in DOMAIN Append(ToOutput, n)
        /\ Append(ToOutput, n)[Len(ToOutput) + 1] = n
    BY <2>2
  <2>4. n \in ToSet(ToOutput')  BY <2>1, <2>3 DEF ToSet
  <2>5. \A m \in ToSet(ToOutput') : 1 .. m \subseteq (Passed \cup WithWorker)'
    BY DEF ToSet
  <2> QED  BY <2>1, <2>4, <2>5
<1> QED
  BY <1>1, <1>2, PipelineInvariant, PTL DEF Spec, OvertakenByWorkersOnly

(* In the pipeline both queues keep their promises at the same time: the worker
   threads and the capture thread see CTaskQueue as a bounded FIFO queue that
   blocks, the workers and the output thread CACQueue as one that refuses. *)
THEOREM QueuesKeepPromises == Spec => TQP!FifoSpec /\ AQP!LossySpec
<1>1. TQP!Spec => TQP!FifoSpec  BY TasksAssumed, TQP!ImplementsBoundedFifo
<1>2. AQP!Spec => AQP!LossySpec  BY OutputsAssumed, AQP!ImplementsLossyFifo
<1> QED  BY <1>1, <1>2, TasksSpec, OutputsSpec, PTL
=============================================================================
