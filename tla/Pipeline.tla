------------------------------ MODULE Pipeline ------------------------------
(***************************************************************************)
(* The threads of mytcpdump and the two queues between them:               *)
(*                                                                         *)
(*   capture thread --CTaskQueue--> workers --CACQueue--> output thread    *)
(*   (CMyPcapDump)                (CDealProtPkg)          (COutProtPkg)    *)
(*                                                                         *)
(* A packet travels by pointer to the worker, which deletes it, and by a   *)
(* deep copy from there on.  The first queue blocks, the second one drops. *)
(***************************************************************************)
EXTENDS Naturals, FiniteSets, Sequences, SequencesExt

CONSTANTS
    Capture,         \* the thread in pcap_loop
    Workers,         \* the threads in CDealProtPkg::Run (three in main)
    Output,          \* the thread in COutProtPkg::Run
    Address,         \* where an AnalContent can be allocated
    MaxFrames,       \* bound: how many frames the network delivers
    Traffic,         \* bound: the kinds of frames it delivers
    TASK_QUEUE_LEN, MaxSize, WordMod,
    UseNullPkg,      \* config.ini useNullPkg: also record packets without content
    NULL, Nobody, NoFrame

(* What the analysis makes of a frame: not IP (dwRet = 0xff), IP without user
   content, IP with user content. *)
Kinds == {"notIp", "noContent", "content"}

ASSUME TrafficAssumption == Traffic \subseteq Kinds
ASSUME FlagAssumption == UseNullPkg \in BOOLEAN
ASSUME ThreadsAssumption ==
    /\ IsFiniteSet(Workers) /\ Capture \notin Workers
    /\ Nobody \notin Workers \cup {Capture}
ASSUME QueuesAssumption ==
    /\ TASK_QUEUE_LEN \in Nat \ {0}
    /\ MaxSize \in Nat \ {0} /\ WordMod \in Nat /\ MaxSize < WordMod
ASSUME FramesAssumption ==
    /\ MaxFrames \in Nat /\ NoFrame \notin 1 .. MaxFrames

VARIABLES
    semProducer, semConsumer, mutexProducer, mutexConsumer,
    cache, cacheProducer, cacheConsumer, pc, ac,            \* CTaskQueue
    m_array, m_size, m_front, m_back, waiter, outAc, ret,   \* CACQueue
    kind,        \* the frames captured so far, by number: their kinds
    heap,        \* heap[a]: the frame in the AnalContent at a
    stage,       \* stage[w]: where worker w is in its loop
    outStage,    \* where the output thread is in its loop
    ignored,     \* the frames the configuration or the analysis leaves out
    dropped,     \* the frames a full CACQueue refused
    delivered    \* the frames shown or written, in order

Frames == 1 .. MaxFrames

TQ == INSTANCE TaskQueue
        WITH Producers <- {Capture}, Consumers <- Workers,
             Items <- Address, NoItem <- NULL

AQ == INSTANCE ACQueue
        WITH Producers <- Workers, Consumers <- {Output},
             Items <- Frames, NoItem <- NoFrame, pc <- waiter, ac <- outAc

tq == <<semProducer, semConsumer, mutexProducer, mutexConsumer,
        cache, cacheProducer, cacheConsumer, pc, ac>>
aq == <<m_array, m_size, m_front, m_back, waiter, outAc, ret>>
fates == <<ignored, dropped, delivered>>
vars == <<tq, aq, kind, heap, stage, outStage, fates>>

Init ==
    /\ TQ!Init
    /\ AQ!Init
    /\ kind = << >>
    /\ heap = [a \in Address |-> NoFrame]
    /\ stage = [w \in Workers |-> "start"]
    /\ outStage = "pop"
    /\ ignored = {} /\ dropped = {} /\ delivered = << >>

-----------------------------------------------------------------------------

(* CallBack: pcap hands over a frame, new AnalContent copies it, and the call
   of Push begins. *)
CallBack(k, a) ==
    /\ Len(kind) < MaxFrames
    /\ heap[a] = NoFrame
    /\ kind' = Append(kind, k)
    /\ heap' = [heap EXCEPT ![a] = Len(kind')]
    /\ TQ!PushCall(Capture, a)
    /\ UNCHANGED <<aq, stage, outStage, fates>>

CaptureStep ==
    /\ TQ!PushStep(Capture)
    /\ UNCHANGED <<aq, kind, heap, stage, outStage, fates>>

At(w, from, to) ==
    /\ stage[w] = from
    /\ stage' = [stage EXCEPT ![w] = to]

(* CDealProtPkg::Run: the first call of Pop, and the steps inside it. *)
Start(w) ==
    /\ At(w, "start", "pop")
    /\ TQ!PopCall(w)
    /\ UNCHANGED <<aq, kind, heap, outStage, fates>>

WorkerPop(w) ==
    /\ stage[w] = "pop"
    /\ TQ!PopStep(w)
    /\ UNCHANGED <<aq, kind, heap, stage, outStage, fates>>

(* The frame in the packet worker w works on. *)
Frame(w) == heap[ac[w]]

Wanted(k) == k = "content" \/ (k = "noContent" /\ UseNullPkg)

(* The analysis, once Pop has returned: the packet goes on to CACQueue, or
   straight to delete. *)
Analyse(w) ==
    /\ At(w, "pop", "push")
    /\ pc[w] = "idle"
    /\ Wanted(kind[Frame(w)])
    /\ UNCHANGED <<tq, aq, kind, heap, outStage, fates>>

(* Bug: the loop continues before it reaches delete. *)
IgnoreLeaks(w) ==
    /\ stage[w] = "pop"
    /\ pc[w] = "idle"
    /\ ~Wanted(kind[Frame(w)])
    /\ ignored' = ignored \cup {Frame(w)}
    /\ TQ!PopCall(w)
    /\ UNCHANGED <<aq, kind, heap, stage, outStage, dropped, delivered>>

Ignore(w) ==
    /\ At(w, "pop", "delete")
    /\ pc[w] = "idle"
    /\ ~Wanted(kind[Frame(w)])
    /\ ignored' = ignored \cup {Frame(w)}
    /\ UNCHANGED <<tq, aq, kind, heap, outStage, dropped, delivered>>

(* Bug: the packet is pushed until a push is refused. *)
PushAcceptedAgain(w) ==
    /\ stage[w] = "push"
    /\ AQ!PushStored(w, Frame(w))
    /\ UNCHANGED <<tq, kind, heap, stage, outStage, fates>>

(* CACQueue::Push copies the packet; its answer is not looked at. *)
PushAccepted(w) ==
    /\ At(w, "push", "delete")
    /\ AQ!PushStored(w, Frame(w))
    /\ UNCHANGED <<tq, kind, heap, outStage, fates>>

(* Bug: the worker tries again until the queue has room. *)
PushRetried(w) ==
    /\ stage[w] = "push"
    /\ AQ!PushRefused(w)
    /\ UNCHANGED <<tq, kind, heap, stage, outStage, fates>>

PushRefused(w) ==
    /\ At(w, "push", "delete")
    /\ AQ!PushRefused(w)
    /\ dropped' = dropped \cup {Frame(w)}
    /\ UNCHANGED <<tq, kind, heap, outStage, ignored, delivered>>

(* delete ac; ac = NULL; and the loop calls Pop again. *)
Delete(w) ==
    /\ At(w, "delete", "pop")
    /\ heap' = [heap EXCEPT ![ac[w]] = NoFrame]
    /\ TQ!PopCall(w)
    /\ UNCHANGED <<aq, kind, outStage, fates>>

WorkerStep(w) ==
    \/ Start(w) \/ WorkerPop(w)
    \/ Analyse(w) \/ Ignore(w)
    \/ PushAccepted(w) \/ PushRefused(w)
    \/ Delete(w)

(* COutProtPkg::Run: pop a packet, waiting for one if need be (Run does not
   look at Pop's answer; the only wait that fails is one on a mutex or a
   condition variable that does not exist, and they do) ... *)
OutWaits ==
    /\ outStage = "pop"
    /\ AQ!PopWaits(Output)
    /\ UNCHANGED <<tq, kind, heap, stage, outStage, fates>>

OutTakes ==
    /\ outStage = "pop"
    /\ AQ!PopTakes(Output)
    /\ outStage' = "deal"
    /\ UNCHANGED <<tq, kind, heap, stage, fates>>

OutSpuriousWake ==
    /\ AQ!SpuriousWake(Output)
    /\ UNCHANGED <<tq, kind, heap, stage, outStage, fates>>

(* Bug: the loop of Run ends after one packet. *)
DealOnce ==
    /\ outStage = "deal"
    /\ outStage' = "ended"
    /\ delivered' = Append(delivered, outAc[Output])
    /\ UNCHANGED <<tq, aq, kind, heap, stage, ignored, dropped>>

(* ... and show it or write it. *)
Deal ==
    /\ outStage = "deal"
    /\ outStage' = "pop"
    /\ delivered' = Append(delivered, outAc[Output])
    /\ UNCHANGED <<tq, aq, kind, heap, stage, ignored, dropped>>

OutStep == OutWaits \/ OutTakes \/ Deal

Next ==
    \/ \E k \in Traffic, a \in Address : CallBack(k, a)
    \/ CaptureStep
    \/ \E w \in Workers : WorkerStep(w)
    \/ OutStep
    \/ OutSpuriousWake

Spec == Init /\ [][Next]_vars

(* The capture thread and the workers keep running; the network need not send
   anything, and the output thread may be stuck in a callback or in the file. *)
FairSpec ==
    /\ Spec
    /\ WF_vars(CaptureStep)
    /\ \A w \in Workers : WF_vars(WorkerStep(w))

-----------------------------------------------------------------------------

(* A worker owns the packet it has loaded until it deletes it; the capture
   thread owns the packet it allocated until the queue has it. *)
WorkerOwns(w) ==
    /\ stage[w] # "start"
    /\ TQ!Phase[w] = "takeDone" \/ TQ!Phase[w] = "idle"

Owners(a) ==
    {t \in Workers : WorkerOwns(t) /\ ac[t] = a}
      \cup {t \in {Capture} : TQ!Phase[t] = "put" /\ ac[t] = a}

QueuedAt(a) == {k \in DOMAIN TQ!Queue : TQ!Queue[k] = a}

(* Each packet in memory has exactly one owner: one thread or one place in
   the queue.  So no packet is read after its delete, deleted twice, or
   leaked. *)
OneOwner ==
    \A a \in Address :
        Cardinality(Owners(a)) + Cardinality(QueuedAt(a))
          = IF heap[a] = NoFrame THEN 0 ELSE 1

(* The copies of a packet that still await an outcome. *)
InAnalysis(n) ==
    {a \in Address : heap[a] = n /\ ~ \E w \in Workers :
                                         stage[w] = "delete" /\ ac[w] = a}
InOutput == (IF outStage = "deal" THEN <<outAc[Output]>> ELSE << >>) \o AQ!Queue

Occurs(n, seq) == Cardinality({k \in DOMAIN seq : seq[k] = n})
Member(n, set) == Cardinality({n} \cap set)

(* Every frame captured is in exactly one place: awaiting analysis, ignored,
   dropped, awaiting output, or delivered, and there once. *)
EveryFrameOnce ==
    \A n \in DOMAIN kind :
        Cardinality(InAnalysis(n)) + Member(n, ignored) + Member(n, dropped)
          + Occurs(n, InOutput) + Occurs(n, delivered) = 1

(* The frames that have come to the output, in the order they leave it. *)
ToOutput == delivered \o InOutput

Passed == ToSet(ToOutput) \cup ignored \cup dropped
WithWorker == {Frame(w) : w \in {v \in Workers : WorkerOwns(v)}}

(* Only the race of the workers changes the order of frames.  CACQueue and the
   output thread keep theirs: what they hold and have delivered only grows, at
   its end, by the frame a worker pushes.  CTaskQueue keeps its order: every
   older frame has then got past it, to an outcome or to another worker. *)
OvertakenByWorkersOnly ==
    [][ToOutput' # ToOutput =>
         \E n \in WithWorker :
            /\ ToOutput' = Append(ToOutput, n)
            /\ 1 .. n \subseteq (Passed \cup WithWorker)']_vars

Settled(n) == n \in ignored \cup dropped \cup ToSet(delivered)

(* Every frame captured is eventually ignored, dropped or delivered, as long
   as the output thread keeps running too. *)
EveryFrameSettles ==
    WF_vars(OutStep) => \A n \in Frames : n \in DOMAIN kind ~> Settled(n)

(* Whatever the output thread does, capture goes on: a push into the blocking
   queue always returns, because the workers never wait for the output. *)
CaptureGoesOn == pc[Capture] = "pushWait" ~> pc[Capture] = "idle"
=============================================================================
