----------------------------- MODULE Lifecycle -----------------------------
(***************************************************************************)
(* The program from main to its end: the capture with its control thread,  *)
(* the output with its functions, the crash handler, and between capture   *)
(* and output one worker and the two queues, which behave as BoundedFifo   *)
(* and LossyFifo say: the first one blocks, the second one refuses.        *)
(***************************************************************************)
EXTENDS Capture, Output

CONSTANTS
    TASK_QUEUE_LEN,     \* the capacity of CTaskQueue
    MaxSize,            \* the capacity of CACQueue
    NoPacket

VARIABLES
    captured,   \* how many packets have been captured, up to limit.packets
    pushing,    \* the packet the capture thread pushes, or NoPacket
    tasks,      \* CTaskQueue
    queue       \* CACQueue

between == <<captured, pushing, tasks, queue>>
lifeVars == <<logVars, captureVars, outVars, between>>

LifeInit ==
    /\ CrashLogInit /\ CaptureInit /\ OutputInit
    /\ captured = 0 /\ pushing = NoPacket
    /\ tasks = << >> /\ queue = << >>

(* What main and whoever has the objects may call. *)
Control ==
    \/ ControlStep /\ UNCHANGED <<outVars, between>>
    \/ /\ PthreadExit \/ \E f \in Functions : SetDealPkgFunc(f)
       /\ limit.calls = "output"
       /\ UNCHANGED <<captureVars, between>>

(* CallBack: the read has a packet, and its push, which waits for room. *)
CallBack ==
    /\ CaptureAt("read", "loop")
    /\ looping \in alive
    /\ IF captured < limit.packets
         THEN captured' = captured + 1 /\ pushing' = captured + 1
         ELSE UNCHANGED captured /\ pushing' = Later
    /\ UNCHANGED <<controlVars, m_bExitFlg, break_loop, looping,
                   logVars, outVars, tasks, queue>>

CallBackEnds ==
    /\ process = "running" /\ pushing # NoPacket
    /\ Len(tasks) < TASK_QUEUE_LEN
    /\ tasks' = Append(tasks, pushing)
    /\ pushing' = NoPacket
    /\ UNCHANGED <<logVars, captureVars, outVars, captured, queue>>

Capturing ==
    \/ /\ pushing = NoPacket
       /\ CaptureStep
       /\ UNCHANGED <<outVars, between>>
    \/ CallBackEnds

(* The loop of CDealProtPkg::Run: a packet is left out, accepted or refused. *)
WorkerDeals ==
    /\ process = "running" /\ tasks # << >>
    /\ tasks' = Tail(tasks)
    /\ \/ Len(queue) < MaxSize /\ queue' = Append(queue, Head(tasks))
       \/ UNCHANGED queue
    /\ UNCHANGED <<logVars, captureVars, outVars, captured, pushing>>

Outputs ==
    \/ OutStep /\ UNCHANGED <<captureVars, between>>
    \/ /\ queue # << >>
       /\ OutPops(Head(queue))
       /\ queue' = Tail(queue)
       /\ UNCHANGED <<captureVars, captured, pushing, tasks>>

Logs(t) ==
    /\ LogStep(t) \/ HandlerStep(t)
    /\ UNCHANGED <<captureVars, outVars, between>>

LifeNext ==
    \/ Control
    \/ Capturing \/ CallBack
    \/ /\ ((ReadTimesOut \/ LoopFails) /\ pushing = NoPacket) \/ CaptureRunsOn
       /\ UNCHANGED <<outVars, between>>
    \/ OutRunsOn /\ UNCHANGED <<captureVars, between>>
    \/ WorkerDeals
    \/ Outputs
    \/ \E t \in Loggers : Logs(t)

(* The capture thread goes on, unless it waits for a packet, the worker runs,
   and neither a log line nor the handler takes for ever.  Nothing is assumed
   of the network: packets may stop coming. *)
LifeFairness ==
    /\ WF_lifeVars(Capturing)
    /\ WF_lifeVars(WorkerDeals)
    /\ WF_lifeVars((SetFilter \/ InitExits) /\ UNCHANGED <<outVars, between>>)
    /\ \A t \in Loggers : WF_lifeVars(Logs(t))

LifeSpec == LifeInit /\ [][LifeNext]_lifeVars /\ LifeFairness

(* Once Run has begun, PthreadExit ends it, if packets keep coming out of the
   queue and the registered functions return. *)
ExitHonoured ==
    WF_lifeVars(Outputs) /\ []<>(queue # << >>) =>
        (out # "begin" /\ outExitFlg ~> out = "ended" \/ process # "running")
=============================================================================
