-------------------------- MODULE Lifecycle_proofs --------------------------
(***************************************************************************)
(* Proofs about the program from main to its end, for any number of        *)
(* handles, packets and registered functions and any size of the queues:   *)
(* what holds of the crash handler, of the capture's handle and of what    *)
(* the registered functions are called with, and that no request to end    *)
(* the capture or the output is forgotten.                                 *)
(***************************************************************************)
EXTENDS Lifecycle, SequenceTheorems, TLAPS

(* The fairness of the specification is not needed for what is proved here. *)
Steps == LifeInit /\ [][LifeNext]_lifeVars

(* LifeSpec is Steps with fairness. *)
LEMMA LifeSteps == LifeSpec => Steps
  BY PTL DEF LifeSpec, Steps

-----------------------------------------------------------------------------
(* The crash handler *)

Idle == {"idle", "get", "constructed", "lock", "locked"}
Handling == {"crashGet", "crashConstructed", "record", "close", "exit"}

(* No crash log is closed before one has the crash: every log that is
   constructed is open until then, and whoever is in the handler records in
   one of those. *)
LogInv ==
    /\ logger \in [Loggers -> Idle \cup Handling]
    /\ DOMAIN instance = Loggers
    /\ m_wLog \in made \cup {Nobody}
    /\ recorded \in BOOLEAN
    /\ \A i \in made : i \in open \/ recorded
    /\ \A t \in Loggers : logger[t] \in {"constructed", "crashConstructed"} => t \in made
    /\ \A t \in Loggers : logger[t] = "record" => instance[t] \in made
    /\ \A t \in Loggers : logger[t] \in {"close", "exit"} => recorded
    /\ process = "recorded" => recorded

(* No log exists at first. *)
LEMMA LogInitInv == CrashLogInit => LogInv
  BY DEF CrashLogInit, LogInv, Idle

(* GetInstance keeps the invariant, in WriteLog and in the handler, *)
LEMMA GetInstanceKeeps ==
  ASSUME LogInv, NEW t \in Loggers,
         NEW get \in Idle \cup Handling,
         NEW constructed \in {"constructed", "crashConstructed"},
         NEW got \in {"lock", "record"},
         get \notin {"close", "exit", "record"},
         get \notin {"constructed", "crashConstructed"},
         GetInstance(t, get, constructed, got)
  PROVE  LogInv'
<1> USE DEF LogInv, Idle, Handling, LoggerAt
<1>1. CASE Construct(t, get, constructed)  BY <1>1 DEF Construct
<1>2. CASE ConstructorExits(t, get)  BY <1>2 DEF ConstructorExits, exit
<1>3. CASE Store(t, constructed, get)  BY <1>3 DEF Store
<1>4. CASE Answer(t, get, got)  BY <1>4 DEF Answer
<1> QED  BY <1>1, <1>2, <1>3, <1>4 DEF GetInstance

(* and so do the other functions of the log, *)
LEMMA WriteLogStep ==
  ASSUME LogInv, NEW t \in Loggers,
         \/ WriteLogBegins(t) \/ WriteLogEnds(t) \/ WriteLogFaults(t)
         \/ LogStep(t) \/ exit \/ UNCHANGED logVars
  PROVE  LogInv'
<1>1. CASE WriteLogBegins(t) \/ WriteLogEnds(t) \/ WriteLogFaults(t)
  BY <1>1
  DEF LogInv, Idle, Handling, LoggerAt, WriteLogBegins, WriteLogEnds, WriteLogFaults
<1>2. CASE WriteLogLocks(t)
  BY <1>2 DEF LogInv, Idle, Handling, LoggerAt, WriteLogLocks
<1>3. CASE GetInstance(t, "get", "constructed", "lock")
  BY <1>3, GetInstanceKeeps DEF Idle, Handling
<1>4. CASE exit \/ UNCHANGED logVars  BY <1>4 DEF LogInv, exit, logVars
<1> QED  BY <1>1, <1>2, <1>3, <1>4 DEF LogStep

(* a crash, and the handler. *)
LEMMA HandlerSteps ==
  ASSUME LogInv, NEW t \in Loggers, Crash(t) \/ HandlerStep(t)
  PROVE  LogInv'
<1> USE DEF LogInv, Idle, Handling, LoggerAt
<1>1. CASE Crash(t)  BY <1>1 DEF Crash
<1>2. CASE Record(t)  BY <1>2 DEF Record
<1>3. CASE CloseFileLog(t)  BY <1>3 DEF CloseFileLog
<1>4. CASE CloseFaults(t)  BY <1>4 DEF CloseFaults
<1>5. CASE HandlerExits(t)  BY <1>5 DEF HandlerExits
<1>6. CASE GetInstance(t, "crashGet", "crashConstructed", "record")
  BY <1>6, GetInstanceKeeps
<1> QED  BY <1>1, <1>2, <1>3, <1>4, <1>5, <1>6 DEF HandlerStep

-----------------------------------------------------------------------------
(* The handle of the capture *)

Active == {"begin", "enter", "loop", "read", "left"}
Before == {"init", "log", "filter", "setFilter", "ready"}

(* From the start of the capture thread until it sets the flag, the control
   thread is stuck between Start and the wait of ClosePcap, so the handle is
   the one it started with; and the flag is down whenever it starts.  All of
   that is off once the wait has been taken out. *)
CaptureInv ==
    /\ m_bExitFlg \in BOOLEAN /\ unwaited \in BOOLEAN
    /\ m_Handle # 0 => m_Handle \in alive
    /\ ~unwaited =>
         /\ control \in Before => m_bExitFlg = FALSE
         /\ capture \in Active =>
              /\ m_bExitFlg = FALSE
              /\ control \in {"started", "wait", "hung"}
              /\ given = m_Handle
         /\ capture \in {"loop", "read"} => looping = given

(* Nothing has started. *)
LEMMA CaptureInitInv == CaptureInit => CaptureInv
  BY DEF CaptureInit, CaptureInv, Active, Before

(* The control thread. *)
LEMMA ControlKeeps == CaptureInv /\ ControlStep => CaptureInv'
<1> SUFFICES ASSUME CaptureInv, ControlStep PROVE CaptureInv'
  OBVIOUS
<1> USE DEF CaptureInv, Active, Before, ControlAt
<1>1. CASE InitReturns  BY <1>1 DEF InitReturns, handleVars
<1>2. ASSUME NEW n \in 0 .. 2, InitOpens(n) PROVE CaptureInv'
  BY <1>2 DEF InitOpens, handleVars
<1>3. ASSUME NEW n \in 0 .. 2, InitRunsOn(n) \/ InitCrashes(n) \/ InitLogs(n)
      PROVE  CaptureInv'
  BY <1>3 DEF InitRunsOn, InitCrashes, InitLogs, handleVars
<1>4. CASE SetFilterLogs  BY <1>4 DEF SetFilterLogs, handleVars
<1>5. CASE SetFilter  BY <1>5 DEF SetFilter, handleVars
<1>6. CASE Start  BY <1>6 DEF Start
<1>7. CASE AbortPcap  BY <1>7 DEF AbortPcap
<1>8. CASE ClosePcap  BY <1>8 DEF ClosePcap, handleVars
<1>9. CASE CloseWaits  BY <1>9 DEF CloseWaits
<1>10. CASE CloseFrees  BY <1>10 DEF CloseFrees
<1>11. CASE CloseCrashes  BY <1>11 DEF CloseCrashes, handleVars
<1>12. CASE InitExits \/ SetFilterFaults
  BY <1>12 DEF InitExits, SetFilterFaults, handleVars
<1> QED
  BY <1>1, <1>2, <1>3, <1>4, <1>5, <1>6, <1>7, <1>8, <1>9, <1>10, <1>11, <1>12
  DEF ControlStep, MyPcapDumpInit

(* The capture thread, but for CallBack. *)
CaptureMoves == CaptureStep \/ ReadTimesOut \/ LoopFails \/ CaptureRunsOn

(* The capture thread. *)
LEMMA CaptureKeeps ==
  CaptureInv /\ (CaptureMoves \/ CallBack) => CaptureInv'
<1> SUFFICES ASSUME CaptureInv, CaptureMoves \/ CallBack PROVE CaptureInv'
  OBVIOUS
<1> USE DEF CaptureInv, Active, Before, CaptureAt, controlVars
<1>1. CASE ClearFlag  BY <1>1 DEF ClearFlag
<1>2. CASE EnterLoop  BY <1>2 DEF EnterLoop
<1>3. CASE LoopBreaks  BY <1>3 DEF LoopBreaks
<1>4. CASE LoopFails  BY <1>4 DEF LoopFails
<1>5. CASE LoopCrashes  BY <1>5 DEF LoopCrashes
<1>6. CASE SetFlag  BY <1>6 DEF SetFlag
<1>7. CASE LogResult  BY <1>7 DEF LogResult
<1>8. CASE CaptureRunsOn  BY <1>8 DEF CaptureRunsOn
<1>9. CASE LoopReads \/ ReadTimesOut  BY <1>9 DEF LoopReads, ReadTimesOut
<1>10. CASE CallBack  BY <1>10 DEF CallBack
<1> QED
  BY <1>1, <1>2, <1>3, <1>4, <1>5, <1>6, <1>7, <1>8, <1>9, <1>10
  DEF CaptureStep, CaptureMoves

(* Everybody else. *)
LEMMA CaptureSame == CaptureInv /\ UNCHANGED captureVars => CaptureInv'
  BY DEF CaptureInv, captureVars

-----------------------------------------------------------------------------
(* The packets between capture and output *)

Packets == Nat \cup {Later}

BetweenInv ==
    /\ captured \in Nat
    /\ pushing \in Packets \cup {NoPacket}
    /\ tasks \in Seq(Packets)
    /\ queue \in Seq(Packets)

(* Capture, push and the worker. *)
LEMMA BetweenKeeps ==
  BetweenInv /\ (CallBack \/ CallBackEnds \/ WorkerDeals) => BetweenInv'
<1> SUFFICES ASSUME BetweenInv, CallBack \/ CallBackEnds \/ WorkerDeals
             PROVE  BetweenInv'
  OBVIOUS
<1> USE DEF BetweenInv
<1>1. CASE CallBack
  <2>1. captured + 1 \in Packets  BY DEF Packets
  <2> QED  BY <1>1, <2>1 DEF CallBack, Packets
<1>2. CASE CallBackEnds
  <2>1. pushing \in Packets /\ tasks' = Append(tasks, pushing)
    BY <1>2 DEF CallBackEnds
  <2>2. tasks' \in Seq(Packets)  BY <2>1, AppendProperties
  <2> QED  BY <1>2, <2>2 DEF CallBackEnds
<1>3. CASE WorkerDeals
  <2>1. tasks \in Seq(Packets) /\ tasks # << >>  BY <1>3 DEF WorkerDeals
  <2>2. Head(tasks) \in Packets /\ Tail(tasks) \in Seq(Packets)
    BY <2>1, HeadTailProperties
  <2>3. Append(queue, Head(tasks)) \in Seq(Packets)
    BY <2>2, AppendProperties
  <2> QED  BY <1>3, <2>2, <2>3 DEF WorkerDeals
<1> QED  BY <1>1, <1>2, <1>3

-----------------------------------------------------------------------------
(* The registered functions *)

(* An element behind the part of a sequence makes no difference to it, *)
LEMMA SubSeqKept ==
  ASSUME NEW S, NEW s \in Seq(S), NEW e \in S, NEW m \in Nat \ {0}
  PROVE  SubSeq(Append(s, e), m, Len(s)) = SubSeq(s, m, Len(s))
<1>1. /\ Append(s, e) \in Seq(S) /\ Len(Append(s, e)) = Len(s) + 1
      /\ \A i \in 1 .. Len(s) : Append(s, e)[i] = s[i]
      /\ Len(s) \in Nat
  BY AppendProperties, LenProperties
<1> DEFINE t == Append(s, e)
<1> HIDE DEF t
<1>2. /\ SubSeq(t, m, Len(s)) = [i \in 1 .. (1 + Len(s) - m) |-> t[i + m - 1]]
      /\ SubSeq(s, m, Len(s)) = [i \in 1 .. (1 + Len(s) - m) |-> s[i + m - 1]]
  BY <1>1
<1>3. \A i \in 1 .. (1 + Len(s) - m) : t[i + m - 1] = s[i + m - 1]
  BY <1>1 DEF t
<1> QED  BY <1>2, <1>3 DEF t

(* and the last one is what the part up to it has more. *)
LEMMA SubSeqLast ==
  ASSUME NEW S, NEW s \in Seq(S), NEW m \in 1 .. Len(s)
  PROVE  Append(SubSeq(s, m, Len(s) - 1), s[Len(s)]) = SubSeq(s, m, Len(s))
<1>1. Len(s) \in Nat  BY LenProperties
<1>2. SubSeq(s, m, Len(s)) = SubSeq(s, m, Len(s) - 1) \o <<s[Len(s)]>>
  BY <1>1, SubSeqRecursiveSecond
<1>3. SubSeq(s, m, Len(s) - 1) \in Seq(S) /\ s[Len(s)] \in S
  BY <1>1, SubSeqProperties, ElementOfSeq
<1> QED  BY <1>2, <1>3, AppendIsConcat

Funs == Functions \cup {ShowAc}

OutTypes ==
    /\ setting \in Settings
    /\ m_vecDealPkgFun \in Seq(Funs)
    /\ pkg \in Packets /\ dealt \in Seq(Packets)
    /\ itr \in Nat \ {0}
    /\ since \in [Funs -> Nat]
    /\ served \in [Funs -> Seq(Packets)]

(* Each function is registered once, and none is while the functions are
   called; what has been dealt with last is the packet, until it is written. *)
OutPlaces ==
    /\ \A i, j \in DOMAIN m_vecDealPkgFun :
          m_vecDealPkgFun[i] = m_vecDealPkgFun[j] => i = j
    /\ out = "call" => pkgMutex = OutThread
    /\ \A f \in Funs : f \notin Registered => served[f] = << >>
    /\ \A f \in Funs : since[f] <= Len(dealt)
    /\ out \in {"call", "write"} /\ pkg # Later =>
          Len(dealt) > 0 /\ dealt[Len(dealt)] = pkg
    /\ out = "call" /\ pkg # Later => \A f \in Funs : since[f] < Len(dealt)

(* RegisteredServed, in two parts. *)
ServedUpTo(i) ==
    Len(dealt) - (IF (out = "call" /\ i >= itr) /\ pkg # Later THEN 1 ELSE 0)
WrittenUpTo ==
    Len(dealt) - (IF out \in {"call", "write"} /\ pkg # Later THEN 1 ELSE 0)
ServedInv ==
    \A i \in DOMAIN m_vecDealPkgFun :
        served[m_vecDealPkgFun[i]] =
          SubSeq(dealt, since[m_vecDealPkgFun[i]] + 1, ServedUpTo(i))
WrittenInv == setting.writePkg => records = SubSeq(dealt, 1, WrittenUpTo)

OutputInv == OutTypes /\ OutPlaces /\ ServedInv /\ WrittenInv

(* The two parts are the property. *)
LEMMA OutputCorrect == OutputInv => RegisteredServed
  BY DEF OutputInv, ServedInv, WrittenInv, ServedUpTo, WrittenUpTo, RegisteredServed

(* At first there is at most ShowAc, and no packet. *)
LEMMA OutputInitInv == OutputInit => OutputInv
<1> SUFFICES ASSUME OutputInit PROVE OutputInv
  OBVIOUS
<1> USE DEF OutputInit
<1>1. ShowAc \in Funs /\ Later \in Packets  BY DEF Funs, Packets
<1>2. m_vecDealPkgFun \in Seq(Funs)
  <2>1. <<ShowAc>> \in Seq(Funs) /\ << >> \in Seq(Funs)  BY <1>1
  <2> QED  BY <2>1
<1>3. OutTypes
  <2>1. << >> \in Seq(Packets)  OBVIOUS
  <2> QED  BY <1>1, <1>2, <2>1 DEF OutTypes, Funs
<1>4. OutPlaces
  BY DEF OutPlaces, Funs, Registered
<1>5. SubSeq(<< >>, 1, 0) = << >>  OBVIOUS
<1>6. ServedInv
  <2>1. \A i \in DOMAIN m_vecDealPkgFun : m_vecDealPkgFun[i] \in Funs
    BY <1>2
  <2>2. \A f \in Funs : served[f] = << >> /\ since[f] = 0  BY DEF Funs
  <2>3. \A i : ServedUpTo(i) = 0  BY DEF ServedUpTo
  <2>4. dealt = << >>  OBVIOUS
  <2> QED  BY <1>5, <2>1, <2>2, <2>3, <2>4 DEF ServedInv
<1>7. WrittenInv  BY <1>5 DEF WrittenInv, WrittenUpTo
<1> QED  BY <1>3, <1>4, <1>6, <1>7 DEF OutputInv

(* What the invariant says of the lengths. *)
LEMMA OutputBounds ==
  ASSUME OutTypes
  PROVE  /\ Len(dealt) \in Nat
         /\ \A i \in DOMAIN m_vecDealPkgFun : m_vecDealPkgFun[i] \in Funs
         /\ DOMAIN m_vecDealPkgFun = 1 .. Len(m_vecDealPkgFun)
         /\ Len(m_vecDealPkgFun) \in Nat
         /\ \A f \in Funs : since[f] \in Nat /\ served[f] \in Seq(Packets)
  BY LenProperties DEF OutTypes

(* The steps of Run that neither lock nor call. *)
LEMMA OutOtherSteps ==
  ASSUME OutputInv,
         \/ OutBegins \/ OutExits \/ OutTests \/ OutUnlocks
         \/ (\E p \in Packets : OutPops(p)) \/ OutRunsOn \/ PthreadExit
         \/ UNCHANGED outVars
  PROVE  OutputInv'
<1> USE DEF OutputInv
<1> DEFINE Same ==
      /\ UNCHANGED <<setting, m_vecDealPkgFun, dealt, since, served, records, itr>>
      /\ pkg' \in Packets
      /\ out' = "call" => pkgMutex' = OutThread /\ out = "call"
      /\ out' \in {"call", "write"} => out \in {"call", "write"} /\ pkg' = pkg
      /\ out \in {"call", "write"} => out' \in {"call", "write"}
      /\ out = "call" /\ out' # "call" => itr \notin DOMAIN m_vecDealPkgFun
<1>1. Same
  <2> USE DEF OutTypes, OutPlaces, OutAt, settings, register, histories
  <2>1. CASE OutBegins  BY <2>1 DEF OutBegins
  <2>2. CASE OutExits  BY <2>2 DEF OutExits
  <2>3. CASE OutTests  BY <2>3 DEF OutTests
  <2>4. CASE OutUnlocks  BY <2>4 DEF OutUnlocks
  <2>5. ASSUME NEW p \in Packets, OutPops(p) PROVE Same  BY <2>5 DEF OutPops
  <2>6. CASE OutRunsOn  BY <2>6 DEF OutRunsOn
  <2>7. CASE PthreadExit  BY <2>7 DEF PthreadExit
  <2>8. CASE UNCHANGED outVars  BY <2>8 DEF outVars
  <2> QED  BY <2>1, <2>2, <2>3, <2>4, <2>5, <2>6, <2>7, <2>8
<1>2. OutTypes'  BY <1>1 DEF OutTypes
<1>3. OutPlaces'  BY <1>1 DEF OutPlaces, Registered
<1>4. ServedInv'
  <2>1. \A i \in DOMAIN m_vecDealPkgFun : ServedUpTo(i)' = ServedUpTo(i)
    BY <1>1, OutputBounds DEF ServedUpTo, OutTypes
  <2> QED  BY <1>1, <2>1 DEF ServedInv
<1>5. WrittenInv'
  <2>1. WrittenUpTo' = WrittenUpTo  BY <1>1 DEF WrittenUpTo
  <2> QED  BY <1>1, <2>1 DEF WrittenInv
<1> QED  BY <1>2, <1>3, <1>4, <1>5

(* The packet whose turn has come is still to be dealt with by everybody. *)
LEMMA OutLocksStep == OutputInv /\ OutLocks => OutputInv'
<1> SUFFICES ASSUME OutputInv, OutLocks PROVE OutputInv'
  OBVIOUS
<1> USE DEF OutputInv
<1>1. /\ UNCHANGED <<setting, m_vecDealPkgFun, since, served, records, pkg>>
      /\ out = "lock" /\ out' = "call" /\ pkgMutex' = OutThread /\ itr' = 1
      /\ dealt' = IF pkg = Later THEN dealt ELSE Append(dealt, pkg)
  BY DEF OutLocks, OutAt, Noted, settings, register
<1>2. CASE pkg = Later
  <2>1. OutTypes' /\ OutPlaces'
    BY <1>1, <1>2 DEF OutTypes, OutPlaces, Registered
  <2>2. ServedInv' /\ WrittenInv'
    BY <1>1, <1>2 DEF ServedInv, WrittenInv, ServedUpTo, WrittenUpTo
  <2> QED  BY <2>1, <2>2
<1>3. CASE pkg # Later
  <2>1. /\ pkg \in Packets /\ dealt \in Seq(Packets) /\ dealt' = Append(dealt, pkg)
        /\ Len(dealt) \in Nat
    BY <1>1, <1>3, OutputBounds DEF OutTypes
  <2>2. /\ dealt' \in Seq(Packets) /\ Len(dealt') = Len(dealt) + 1
        /\ dealt'[Len(dealt')] = pkg
    BY <2>1, AppendProperties
  <2>3. \A m \in Nat \ {0} : SubSeq(dealt', m, Len(dealt)) = SubSeq(dealt, m, Len(dealt))
    BY <2>1, SubSeqKept
  <2>4. OutTypes'  BY <1>1, <2>2 DEF OutTypes
  <2>5. OutPlaces'
    BY <1>1, <2>1, <2>2, OutputBounds DEF OutPlaces, Registered
  <2>6. ServedInv'
    <3>1. \A i \in DOMAIN m_vecDealPkgFun :
            ServedUpTo(i) = Len(dealt) /\ ServedUpTo(i)' = Len(dealt)
      BY <1>1, <1>3, <2>1, <2>2, OutputBounds DEF ServedUpTo
    <3>2. \A i \in DOMAIN m_vecDealPkgFun :
            since[m_vecDealPkgFun[i]] + 1 \in Nat \ {0}
      BY OutputBounds
    <3> QED  BY <1>1, <2>3, <3>1, <3>2 DEF ServedInv
  <2>7. WrittenInv'
    <3>1. WrittenUpTo = Len(dealt) /\ WrittenUpTo' = Len(dealt)
      BY <1>1, <1>3, <2>1, <2>2 DEF WrittenUpTo
    <3> QED  BY <1>1, <2>3, <3>1 DEF WrittenInv
  <2> QED  BY <2>4, <2>5, <2>6, <2>7
<1> QED  BY <1>2, <1>3

(* The next function is called with the packet. *)
LEMMA OutCallsStep == OutputInv /\ OutCalls => OutputInv'
<1> SUFFICES ASSUME OutputInv, OutCalls PROVE OutputInv'
  OBVIOUS
<1> USE DEF OutputInv
<1> DEFINE g == m_vecDealPkgFun[itr]
<1>1. /\ UNCHANGED <<setting, m_vecDealPkgFun, since, dealt, records, pkg, pkgMutex>>
      /\ out = "call" /\ out' = "call" /\ itr' = itr + 1
      /\ itr \in DOMAIN m_vecDealPkgFun
      /\ served' = [served EXCEPT ![g] = Noted(@, pkg)]
  BY DEF OutCalls, OutAt, settings, register
<1>2. /\ g \in Funs /\ served[g] \in Seq(Packets) /\ pkg \in Packets
      /\ served \in [Funs -> Seq(Packets)] /\ itr \in Nat \ {0} /\ g \in Registered
  BY <1>1, OutputBounds DEF OutTypes, Registered
<1>3. Noted(served[g], pkg) \in Seq(Packets)
  BY <1>2, AppendProperties DEF Noted
<1> HIDE DEF g
<1>4. OutTypes'  BY <1>1, <1>2, <1>3 DEF OutTypes
<1>5. OutPlaces'  BY <1>1, <1>2 DEF OutPlaces, Registered
<1>6. ServedInv'
  <2> SUFFICES ASSUME NEW i \in DOMAIN m_vecDealPkgFun
               PROVE  served'[m_vecDealPkgFun[i]] =
                        SubSeq(dealt, since[m_vecDealPkgFun[i]] + 1, ServedUpTo(i)')
    BY <1>1 DEF ServedInv
  <2>1. /\ served[m_vecDealPkgFun[i]] =
              SubSeq(dealt, since[m_vecDealPkgFun[i]] + 1, ServedUpTo(i))
        /\ m_vecDealPkgFun[i] \in Funs /\ i \in Nat
    BY OutputBounds DEF ServedInv
  <2>2. CASE i # itr
    <3>1. ServedUpTo(i)' = ServedUpTo(i)
      BY <1>1, <1>2, <2>1, <2>2 DEF ServedUpTo
    <3>2. m_vecDealPkgFun[i] # g  BY <1>1, <2>2 DEF OutPlaces, g
    <3> QED  BY <1>1, <1>2, <2>1, <3>1, <3>2
  <2>3. CASE i = itr /\ pkg = Later
    <3>1. ServedUpTo(i)' = ServedUpTo(i)  BY <1>1, <2>3 DEF ServedUpTo
    <3>2. served'[g] = served[g]  BY <1>1, <1>2, <2>3 DEF Noted
    <3> QED  BY <2>1, <2>3, <3>1, <3>2 DEF g
  <2>4. CASE i = itr /\ pkg # Later
    <3>1. ServedUpTo(i) = Len(dealt) - 1 /\ ServedUpTo(i)' = Len(dealt)
      BY <1>1, <1>2, <2>4, OutputBounds DEF ServedUpTo
    <3>2. served'[g] = Append(served[g], pkg)  BY <1>1, <1>2, <2>4 DEF Noted
    <3>3. /\ Len(dealt) > 0 /\ dealt[Len(dealt)] = pkg
          /\ since[g] < Len(dealt) /\ since[g] \in Nat /\ Len(dealt) \in Nat
      BY <1>1, <1>2, <2>4, OutputBounds DEF OutPlaces
    <3>4. since[g] + 1 \in 1 .. Len(dealt) /\ dealt \in Seq(Packets)
      BY <3>3 DEF OutTypes
    <3>5. Append(SubSeq(dealt, since[g] + 1, Len(dealt) - 1), dealt[Len(dealt)])
            = SubSeq(dealt, since[g] + 1, Len(dealt))
      BY <3>4, SubSeqLast
    <3> QED  BY <2>1, <2>4, <3>1, <3>2, <3>3, <3>5 DEF g
  <2> QED  BY <2>2, <2>3, <2>4
<1>7. WrittenInv'
  <2>1. WrittenUpTo' = WrittenUpTo  BY <1>1 DEF WrittenUpTo
  <2> QED  BY <1>1, <2>1 DEF WrittenInv
<1> QED  BY <1>4, <1>5, <1>6, <1>7

(* The packet is written to the file. *)
LEMMA OutWritesStep == OutputInv /\ OutWrites => OutputInv'
<1> SUFFICES ASSUME OutputInv, OutWrites PROVE OutputInv'
  OBVIOUS
<1> USE DEF OutputInv
<1>1. /\ UNCHANGED <<setting, m_vecDealPkgFun, since, dealt, served, pkg, pkgMutex, itr>>
      /\ out = "write" /\ out' = "test"
      /\ setting.writePkg => records' = Noted(records, pkg)
  BY DEF OutWrites, OutAt, settings, register
<1>2. OutTypes' /\ OutPlaces'
  BY <1>1 DEF OutTypes, OutPlaces, Registered
<1>3. ServedInv'
  <2>1. \A i \in DOMAIN m_vecDealPkgFun : ServedUpTo(i)' = ServedUpTo(i)
    BY <1>1 DEF ServedUpTo
  <2> QED  BY <1>1, <2>1 DEF ServedInv
<1>4. WrittenInv'
  <2> SUFFICES ASSUME setting.writePkg
               PROVE  records' = SubSeq(dealt, 1, WrittenUpTo')
    BY <1>1 DEF WrittenInv
  <2>1. records = SubSeq(dealt, 1, WrittenUpTo) /\ records' = Noted(records, pkg)
    BY <1>1 DEF WrittenInv
  <2>2. CASE pkg = Later
    <3>1. WrittenUpTo' = WrittenUpTo  BY <1>1, <2>2 DEF WrittenUpTo
    <3> QED  BY <2>1, <2>2, <3>1 DEF Noted
  <2>3. CASE pkg # Later
    <3>1. Len(dealt) \in Nat /\ Len(dealt) > 0 /\ dealt[Len(dealt)] = pkg
          /\ dealt \in Seq(Packets)
      BY <1>1, <2>3, OutputBounds DEF OutPlaces, OutTypes
    <3>2. WrittenUpTo = Len(dealt) - 1 /\ WrittenUpTo' = Len(dealt)
      BY <1>1, <2>3, <3>1 DEF WrittenUpTo
    <3>3. Append(SubSeq(dealt, 1, Len(dealt) - 1), dealt[Len(dealt)])
            = SubSeq(dealt, 1, Len(dealt))
      <4>1. 1 \in 1 .. Len(dealt)  BY <3>1
      <4> QED  BY <3>1, <4>1, SubSeqLast
    <3> QED  BY <2>1, <2>3, <3>1, <3>2, <3>3 DEF Noted
  <2> QED  BY <2>2, <2>3
<1> QED  BY <1>2, <1>3, <1>4

(* A function that is registered now has missed no packet. *)
LEMMA RegisterStep ==
  ASSUME OutputInv, NEW f \in Functions, SetDealPkgFunc(f)
  PROVE  OutputInv'
<1> USE DEF OutputInv
<1>0. PICK n \in Nat : n = Len(m_vecDealPkgFun)
  BY OutputBounds
<1>1. /\ UNCHANGED <<setting, dealt, served, records, pkg, pkgMutex, itr, out>>
      /\ pkgMutex = Nobody /\ f \in Funs /\ f \notin Registered
      /\ m_vecDealPkgFun' = Append(m_vecDealPkgFun, f)
      /\ since' = [since EXCEPT ![f] = Len(dealt)]
  BY DEF SetDealPkgFunc, settings, histories, Funs
<1>2. out # "call"
  BY <1>1, LoggersAssumption, OutputAssumption DEF OutPlaces
<1>3. /\ m_vecDealPkgFun \in Seq(Funs) /\ n \in Nat /\ Len(dealt) \in Nat
      /\ DOMAIN m_vecDealPkgFun = 1 .. n /\ since \in [Funs -> Nat]
  BY <1>0, OutputBounds DEF OutTypes
<1>4. /\ m_vecDealPkgFun' \in Seq(Funs) /\ DOMAIN m_vecDealPkgFun' = 1 .. n + 1
      /\ \A i \in 1 .. n : m_vecDealPkgFun'[i] = m_vecDealPkgFun[i]
      /\ m_vecDealPkgFun'[n + 1] = f
  BY <1>0, <1>1, <1>3, AppendProperties, LenProperties
<1>5. \A i \in 1 .. n : m_vecDealPkgFun[i] # f
  BY <1>1, <1>3 DEF Registered
<1>6. OutTypes'  BY <1>1, <1>3, <1>4 DEF OutTypes
<1>7. OutPlaces'
  <2>1. \A i, j \in DOMAIN m_vecDealPkgFun' :
          m_vecDealPkgFun'[i] = m_vecDealPkgFun'[j] => i = j
    <3>1. \A i \in 1 .. n + 1 : i \in 1 .. n \/ i = n + 1  BY <1>3
    <3>2. \A i, j \in 1 .. n : m_vecDealPkgFun[i] = m_vecDealPkgFun[j] => i = j
      BY <1>3 DEF OutPlaces
    <3> QED  BY <1>4, <1>5, <3>1, <3>2
  <2>2. \A g \in Registered : g \in Registered'
    BY <1>3, <1>4 DEF Registered
  <2>3. \A g \in Funs : since'[g] <= Len(dealt)
    BY <1>1, <1>3 DEF OutPlaces
  <2> QED  BY <1>1, <1>2, <2>1, <2>2, <2>3 DEF OutPlaces
<1>8. ServedInv'
  <2>1. \A i \in 1 .. n + 1 :
          ServedUpTo(i) = Len(dealt) /\ ServedUpTo(i)' = Len(dealt)
    BY <1>1, <1>2, <1>3 DEF ServedUpTo
  <2>2. \A i \in 1 .. n : /\ served'[m_vecDealPkgFun'[i]] = served[m_vecDealPkgFun[i]]
                          /\ since'[m_vecDealPkgFun'[i]] = since[m_vecDealPkgFun[i]]
    BY <1>1, <1>3, <1>4, <1>5, OutputBounds
  <2>3. served'[f] = << >> /\ since'[f] = Len(dealt)
    BY <1>1, <1>3 DEF OutPlaces
  <2>4. SubSeq(dealt, Len(dealt) + 1, Len(dealt)) = << >>
    BY <1>3, SubSeqEmpty
  <2>5. ASSUME NEW i \in 1 .. n
        PROVE  served'[m_vecDealPkgFun'[i]] =
                 SubSeq(dealt', since'[m_vecDealPkgFun'[i]] + 1, ServedUpTo(i)')
    <3>1. i \in 1 .. n + 1 /\ i \in DOMAIN m_vecDealPkgFun  BY <1>3
    <3> QED  BY <1>1, <2>1, <2>2, <3>1 DEF ServedInv
  <2>6. n + 1 \in 1 .. n + 1  BY <1>3
  <2>7. served'[m_vecDealPkgFun'[n + 1]] =
          SubSeq(dealt', since'[m_vecDealPkgFun'[n + 1]] + 1, ServedUpTo(n + 1)')
    BY <1>1, <1>4, <2>1, <2>3, <2>4, <2>6
  <2>8. \A i \in 1 .. n + 1 : i \in 1 .. n \/ i = n + 1  BY <1>3
  <2> QED  BY <1>4, <2>5, <2>7, <2>8 DEF ServedInv
<1>9. WrittenInv'
  <2>1. WrittenUpTo' = WrittenUpTo  BY <1>1 DEF WrittenUpTo
  <2> QED  BY <1>1, <2>1 DEF WrittenInv
<1> QED  BY <1>6, <1>7, <1>8, <1>9

-----------------------------------------------------------------------------
(* The program *)

LifeInv == LogInv /\ CaptureInv /\ BetweenInv /\ OutputInv

(* The program starts with the invariant. *)
LEMMA LifeInitInv == LifeInit => LifeInv
<1> SUFFICES ASSUME LifeInit PROVE LifeInv
  OBVIOUS
<1>1. LogInv /\ CaptureInv /\ OutputInv
  BY LogInitInv, CaptureInitInv, OutputInitInv DEF LifeInit
<1>2. BetweenInv  BY DEF LifeInit, BetweenInv
<1> QED  BY <1>1, <1>2 DEF LifeInv

(* The steps of the capture's two threads that log or crash keep LogInv. *)
LEMMA CaptureLogs == LogInv /\ (ControlStep \/ CaptureMoves) => LogInv'
<1> SUFFICES ASSUME LogInv, ControlStep \/ CaptureMoves PROVE LogInv'
  OBVIOUS
<1>1. Main \in Loggers /\ CaptureThread \in Loggers  BY CaptureAssumption
<1>2. CASE ControlStep
  <2>1. \/ WriteLogBegins(Main) \/ WriteLogEnds(Main) \/ WriteLogFaults(Main)
        \/ exit \/ Crash(Main) \/ UNCHANGED logVars
    BY <1>2
    DEF ControlStep, MyPcapDumpInit, InitReturns, InitOpens, InitRunsOn,
        InitCrashes, InitLogs, InitExits, SetFilterLogs, SetFilter,
        SetFilterFaults, Start, AbortPcap, ClosePcap, CloseWaits, CloseFrees,
        CloseCrashes
  <2> QED  BY <1>1, <2>1, WriteLogStep, HandlerSteps
<1>3. CASE CaptureMoves
  <2>1. \/ WriteLogBegins(CaptureThread) \/ WriteLogEnds(CaptureThread)
        \/ Crash(CaptureThread) \/ UNCHANGED logVars
    BY <1>3
    DEF CaptureMoves, CaptureStep, ClearFlag, EnterLoop, LoopReads, ReadTimesOut,
        LoopBreaks, LoopFails, LoopCrashes, SetFlag, LogResult, CaptureRunsOn
  <2> QED  BY <1>1, <2>1, WriteLogStep, HandlerSteps
<1> QED  BY <1>2, <1>3

(* So do those of the output thread and of whoever calls it. *)
LEMMA OutputLogs ==
  ASSUME LogInv,
         \/ OutStep \/ OutRunsOn \/ PthreadExit
         \/ (\E f \in Functions : SetDealPkgFunc(f))
         \/ (\E p \in Packets : OutPops(p))
  PROVE  LogInv'
<1>1. OutThread \in Loggers  BY OutputAssumption
<1>2. exit \/ Crash(OutThread) \/ UNCHANGED logVars
  BY DEF OutStep, OutBegins, OutExits, OutTests, OutLocks, OutCalls, OutUnlocks,
         OutWrites, OutRunsOn, PthreadExit, SetDealPkgFunc, OutPops
<1> QED  BY <1>1, <1>2, WriteLogStep, HandlerSteps

(* And they all keep OutputInv. *)
LEMMA OutputKeeps ==
  ASSUME OutputInv,
         \/ OutStep \/ OutRunsOn \/ PthreadExit
         \/ (\E f \in Functions : SetDealPkgFunc(f))
         \/ (\E p \in Packets : OutPops(p))
  PROVE  OutputInv'
<1>1. CASE OutLocks  BY <1>1, OutLocksStep
<1>2. CASE OutCalls  BY <1>2, OutCallsStep
<1>3. CASE OutWrites  BY <1>3, OutWritesStep
<1>4. CASE \E f \in Functions : SetDealPkgFunc(f)  BY <1>4, RegisterStep
<1>5. CASE \/ OutBegins \/ OutExits \/ OutTests \/ OutUnlocks
           \/ (\E p \in Packets : OutPops(p)) \/ OutRunsOn \/ PthreadExit
  BY <1>5, OutOtherSteps
<1> QED  BY <1>1, <1>2, <1>3, <1>4, <1>5 DEF OutStep

(* What the other parts of the program do leaves a part's invariant alone. *)
LEMMA LogSame == LogInv /\ UNCHANGED logVars => LogInv'
  BY DEF LogInv, logVars
(* The same for what is between the threads, *)
LEMMA BetweenSame == BetweenInv /\ UNCHANGED between => BetweenInv'
  BY DEF BetweenInv, between
(* and for the output thread. *)
LEMMA OutputSame == OutputInv /\ UNCHANGED outVars => OutputInv'
  BY OutOtherSteps

(* Every step keeps the invariant. *)
LEMMA LifeStep == LifeInv /\ [LifeNext]_lifeVars => LifeInv'
<1> SUFFICES ASSUME LogInv, CaptureInv, BetweenInv, OutputInv, [LifeNext]_lifeVars
             PROVE  LogInv' /\ CaptureInv' /\ BetweenInv' /\ OutputInv'
  BY DEF LifeInv
<1>1. CASE Control
  <2>1. CASE ControlStep /\ UNCHANGED <<outVars, between>>
    BY <2>1, CaptureLogs, ControlKeeps, BetweenSame, OutputSame
  <2>2. CASE /\ PthreadExit \/ \E f \in Functions : SetDealPkgFunc(f)
             /\ UNCHANGED <<captureVars, between>>
    BY <2>2, OutputLogs, CaptureSame, BetweenSame, OutputKeeps
  <2> QED  BY <1>1, <2>1, <2>2 DEF Control
<1>2. CASE Capturing
  <2>1. CASE CaptureStep /\ UNCHANGED <<outVars, between>>
    BY <2>1, CaptureLogs, CaptureKeeps, BetweenSame, OutputSame DEF CaptureMoves
  <2>2. CASE CallBackEnds
    <3>1. UNCHANGED <<logVars, captureVars, outVars>>  BY <2>2 DEF CallBackEnds
    <3> QED  BY <2>2, <3>1, LogSame, CaptureSame, BetweenKeeps, OutputSame
  <2> QED  BY <1>2, <2>1, <2>2 DEF Capturing
<1>3. CASE (ReadTimesOut \/ LoopFails \/ CaptureRunsOn) /\ UNCHANGED <<outVars, between>>
  BY <1>3, CaptureLogs, CaptureKeeps, BetweenSame, OutputSame DEF CaptureMoves
<1>9. CASE CallBack
  <2>1. UNCHANGED <<logVars, outVars>>  BY <1>9 DEF CallBack
  <2> QED  BY <1>9, <2>1, LogSame, CaptureKeeps, BetweenKeeps, OutputSame
<1>4. CASE OutRunsOn /\ UNCHANGED <<captureVars, between>>
  BY <1>4, OutputLogs, CaptureSame, BetweenSame, OutputKeeps
<1>5. CASE WorkerDeals
  <2>1. UNCHANGED <<logVars, captureVars, outVars>>  BY <1>5 DEF WorkerDeals
  <2> QED  BY <1>5, <2>1, LogSame, CaptureSame, BetweenKeeps, OutputSame
<1>6. CASE Outputs
  <2>1. CASE OutStep /\ UNCHANGED <<captureVars, between>>
    BY <2>1, OutputLogs, CaptureSame, BetweenSame, OutputKeeps
  <2>2. CASE /\ queue # << >> /\ OutPops(Head(queue)) /\ queue' = Tail(queue)
             /\ UNCHANGED <<captureVars, captured, pushing, tasks>>
    <3>1. Head(queue) \in Packets /\ Tail(queue) \in Seq(Packets)
      BY <2>2, HeadTailProperties DEF BetweenInv
    <3>2. BetweenInv'  BY <2>2, <3>1 DEF BetweenInv
    <3> QED  BY <2>2, <3>1, <3>2, OutputLogs, CaptureSame, OutputKeeps
  <2> QED  BY <1>6, <2>1, <2>2 DEF Outputs
<1>7. ASSUME NEW t \in Loggers, Logs(t)
      PROVE  LogInv' /\ CaptureInv' /\ BetweenInv' /\ OutputInv'
  <2>1. /\ LogStep(t) \/ HandlerStep(t)
        /\ UNCHANGED <<captureVars, outVars, between>>
    BY <1>7 DEF Logs
  <2> QED
    BY <2>1, WriteLogStep, HandlerSteps, CaptureSame, BetweenSame, OutputSame
<1>8. CASE UNCHANGED lifeVars
  BY <1>8, LogSame, CaptureSame, BetweenSame, OutputSame DEF lifeVars
<1> QED
  BY <1>1, <1>2, <1>3, <1>4, <1>5, <1>6, <1>7, <1>8, <1>9 DEF LifeNext

(* The invariant holds on every run of the program. *)
LEMMA LifeInvariant == LifeSpec => []LifeInv
<1> QED  BY LifeSteps, LifeInitInv, LifeStep, PTL DEF Steps

(* pcap_loop runs on the handle it was started for, and that is open, in every
   order of start, abort, close and reopening, as long as ClosePcap waits. *)
THEOREM LoopOnOpenHandle == LifeSpec => []HandleAlive
<1>1. LifeInv => HandleAlive
  BY DEF LifeInv, CaptureInv, HandleAlive, Active
<1> QED  BY <1>1, LifeInvariant, PTL

(* Every registered function has been called with all packets dealt with since
   it was registered, in order, and the file has them all, whenever functions
   are registered and whoever asks for the end. *)
THEOREM PacketsServed == LifeSpec => []RegisteredServed
<1>1. LifeInv => RegisteredServed  BY OutputCorrect DEF LifeInv
<1> QED  BY <1>1, LifeInvariant, PTL

(* If the handler ends the process, the crash log has the crash. *)
CrashWritten == process = "recorded" => recorded

(* The handler never ends the process before the crash log has the crash,
   although any thread may be logging or crash too: the half of CrashRecorded
   that says what may not happen. *)
THEOREM CrashLogComplete == LifeSpec => []CrashWritten
<1>1. LifeInv => CrashWritten  BY DEF LifeInv, LogInv, CrashWritten
<1> QED  BY <1>1, LifeInvariant, PTL
-----------------------------------------------------------------------------
(* What is asked for is not forgotten: the safety halves of AbortEnds and
   ExitHonoured *)

(* A handle is asked to end its loop only after it was opened, so that a new
   one never is from its start. *)
BreakInv ==
    /\ opened \in Nat /\ m_Handle \in 0 .. opened
    /\ break_loop \subseteq 1 .. opened

(* The steps of the capture keep it. *)
LEMMA BreakKeeps ==
  ASSUME BreakInv,
         ControlStep \/ CaptureMoves \/ CallBack \/ UNCHANGED captureVars
  PROVE  BreakInv'
<1> USE DEF BreakInv, handleVars, controlVars
<1>1. CASE ControlStep
  <2>1. CASE \E n \in 0 .. 2 : InitOpens(n)
    <3>1. opened' = opened + 1 /\ m_Handle' = opened' /\ UNCHANGED break_loop
      BY <2>1 DEF InitOpens
    <3> QED  BY <3>1
  <2>2. CASE AbortPcap
    <3>1. /\ m_Handle # 0 /\ break_loop' = break_loop \cup {m_Handle}
          /\ UNCHANGED <<opened, m_Handle>>
      BY <2>2 DEF AbortPcap
    <3> QED  BY <3>1
  <2>3. CASE CloseFrees
    <3>1. m_Handle' = 0 /\ UNCHANGED <<opened, break_loop>>
      BY <2>3 DEF CloseFrees
    <3> QED  BY <3>1
  <2>4. CASE UNCHANGED <<opened, m_Handle, break_loop>>  BY <2>4
  <2> QED
    BY <1>1, <2>1, <2>2, <2>3, <2>4
    DEF ControlStep, MyPcapDumpInit, InitReturns, InitRunsOn, InitCrashes,
        InitLogs, InitExits, SetFilterLogs, SetFilter, SetFilterFaults, Start,
        ClosePcap, CloseWaits, CloseCrashes
<1>2. CASE CaptureMoves \/ CallBack
  <2>1. break_loop' \subseteq break_loop /\ UNCHANGED <<opened, m_Handle>>
    BY <1>2
    DEF CaptureMoves, CaptureStep, ClearFlag, EnterLoop, LoopReads, ReadTimesOut,
        LoopBreaks, LoopFails, LoopCrashes, SetFlag, LogResult, CaptureRunsOn,
        CallBack
  <2> QED  BY <2>1
<1>3. CASE UNCHANGED captureVars  BY <1>3 DEF captureVars
<1> QED  BY <1>1, <1>2, <1>3

(* Which parts of a step are the capture's. *)
LEMMA CaptureSteps ==
  [LifeNext]_lifeVars =>
    ControlStep \/ CaptureMoves \/ CallBack \/ UNCHANGED captureVars
BY DEF LifeNext, Control, Capturing, CaptureMoves, CallBackEnds, WorkerDeals,
       Outputs, Logs, lifeVars

(* It holds on every run. *)
LEMMA BreakInvariant == LifeSpec => []BreakInv
<1>1. LifeInit => BreakInv  BY DEF LifeInit, CaptureInit, BreakInv
<1>2. BreakInv /\ [LifeNext]_lifeVars => BreakInv'  BY CaptureSteps, BreakKeeps
<1> QED  BY LifeSteps, <1>1, <1>2, PTL DEF Steps

(* An abort of the current handle is one of the handle that the loop runs on,
   and an open handle that is new has not been asked to end. *)
AbortReaches ==
    /\ capture \in {"loop", "read"} /\ ~unwaited /\ m_Handle \in break_loop =>
         looping \in break_loop \cap alive
    /\ opened + 1 \notin break_loop

(* AbortPcap reaches the loop that runs, which then begins no further read and
   can end, whichever handles were opened, aborted and closed before; and a
   request that came too late for its own loop never ends the loop of a later
   handle. *)
THEOREM AbortReachesLoop == LifeSpec => []AbortReaches
<1>1. CaptureInv /\ BreakInv => AbortReaches
  <2> SUFFICES ASSUME CaptureInv, BreakInv PROVE AbortReaches
    OBVIOUS
  <2>1. opened + 1 \notin break_loop  BY DEF BreakInv
  <2>2. ASSUME capture \in {"loop", "read"}, ~unwaited, m_Handle \in break_loop
        PROVE  looping \in break_loop \cap alive
    <3>1. looping = m_Handle  BY <2>2 DEF CaptureInv, Active
    <3>2. m_Handle # 0  BY <2>2 DEF BreakInv
    <3> QED  BY <2>2, <3>1, <3>2 DEF CaptureInv
  <2> QED  BY <2>1, <2>2 DEF AbortReaches
<1>2. LifeInv => CaptureInv  BY DEF LifeInv
<1> QED  BY <1>1, <1>2, LifeInvariant, BreakInvariant, PTL

(* Only the loop of that very handle takes a request back, by ending. *)
AbortKept ==
    [][ \A h \in break_loop \ break_loop' :
          /\ capture = "loop" /\ looping = h /\ h \in alive
          /\ capture' = "left" ]_lifeVars

(* A request to end the loop is not forgotten: it stays, whatever both threads
   do, until the loop on that handle has seen it and ends. *)
THEOREM AbortNotForgotten == LifeSpec => AbortKept
<1> DEFINE Kept == \A h \in break_loop \ break_loop' :
                      /\ capture = "loop" /\ looping = h /\ h \in alive
                      /\ capture' = "left"
<1>1. [LifeNext]_lifeVars => [Kept]_lifeVars
  <2> SUFFICES ASSUME [LifeNext]_lifeVars PROVE Kept
    OBVIOUS
  <2>1. CASE LoopBreaks  BY <2>1 DEF LoopBreaks, CaptureAt
  <2>2. CASE break_loop \subseteq break_loop'  BY <2>2
  <2>3. ControlStep \/ CaptureMoves \/ CallBack =>
          LoopBreaks \/ break_loop \subseteq break_loop'
    BY DEF ControlStep, MyPcapDumpInit, InitReturns, InitOpens, InitRunsOn,
           InitCrashes, InitLogs, InitExits, SetFilterLogs, SetFilter,
           SetFilterFaults, Start, AbortPcap, ClosePcap, CloseWaits, CloseFrees,
           CloseCrashes, CaptureMoves, CaptureStep, ClearFlag, EnterLoop,
           LoopReads, ReadTimesOut, LoopFails, LoopCrashes, SetFlag, LogResult,
           CaptureRunsOn, CallBack, handleVars, controlVars
  <2>4. UNCHANGED captureVars => break_loop \subseteq break_loop'
    BY DEF captureVars
  <2> QED  BY <2>1, <2>2, <2>3, <2>4, CaptureSteps
<1> HIDE DEF Kept
<1>2. LifeSpec => [][Kept]_lifeVars  BY <1>1, LifeSteps, PTL DEF Steps
<1> QED  BY <1>2 DEF AbortKept, Kept

(* Behind the start of Run a request to stop stays, Run does not go back to the
   queue, and nothing begins again behind its end. *)
ExitKept ==
    [][ out # "begin" /\ outExitFlg =>
          /\ outExitFlg' /\ out' # "begin"
          /\ out' = "pop" => out = "pop"
          /\ out = "ended" => out' \in {"ended", "crashed"} ]_lifeVars

(* A request to stop the output is not forgotten, and no further packet is
   asked for after the one that Run is waiting for or dealing with: Run tests
   the flag between any two calls of Pop. *)
THEOREM ExitNotForgotten == LifeSpec => ExitKept
<1> DEFINE Kept == out # "begin" /\ outExitFlg =>
                     /\ outExitFlg' /\ out' # "begin"
                     /\ out' = "pop" => out = "pop"
                     /\ out = "ended" => out' \in {"ended", "crashed"}
<1>1. [LifeNext]_lifeVars => [Kept]_lifeVars
  <2> SUFFICES ASSUME [LifeNext]_lifeVars PROVE Kept
    OBVIOUS
  <2>1. CASE UNCHANGED outVars  BY <2>1 DEF outVars
  <2>2. CASE OutStep \/ OutRunsOn
    BY <2>2
    DEF OutStep, OutBegins, OutExits, OutTests, OutLocks, OutCalls, OutUnlocks,
        OutWrites, OutRunsOn, OutAt
  <2>3. CASE PthreadExit \/ \E f \in Functions : SetDealPkgFunc(f)
    BY <2>3 DEF PthreadExit, SetDealPkgFunc
  <2>4. CASE OutPops(Head(queue))  BY <2>4 DEF OutPops, OutAt
  <2> QED
    BY <2>1, <2>2, <2>3, <2>4
    DEF LifeNext, Control, Capturing, CallBack, CallBackEnds, WorkerDeals,
        Outputs, Logs, lifeVars
<1> HIDE DEF Kept
<1>2. LifeSpec => [][Kept]_lifeVars  BY <1>1, LifeSteps, PTL DEF Steps
<1> QED  BY <1>2 DEF ExitKept, Kept
=============================================================================
