------------------------------ MODULE Capture ------------------------------
(***************************************************************************)
(* CMyPcapDump.  A control thread, main in this program, initialises the   *)
(* capture, sets the filter and starts the thread that runs pcap_loop; it  *)
(* may abort the loop, and it closes the handle, after which everything    *)
(* may begin again with another one.  It starts one thread per handle and  *)
(* takes no notice of what MyPcapDumpInit and SetFilter return.            *)
(***************************************************************************)
EXTENDS CrashLog

CONSTANTS
    Main,           \* the control thread
    CaptureThread,  \* the thread in StartPcap
    m_strNetName,   \* networkName of config.ini: "empty", "known" or "unknown"
    Limits          \* bounds: the scenarios, see Limit

(* A scenario: how many handles are opened, how many packets the properties
   follow, and which object is called besides what main does: the capture, to
   abort and to close it, or the output, to register functions and to end it. *)
Limit == [opens : Nat, packets : Nat, calls : {"capture", "output"}]

ASSUME CaptureAssumption ==
    /\ {Main, CaptureThread} \subseteq Loggers
    /\ m_strNetName \in {"empty", "known", "unknown"}
    /\ Limits \subseteq Limit

VARIABLES
    limit,          \* the scenario
    m_Handle,       \* the number of the handle, 0 for NULL
    m_bExitFlg,
    opened,         \* how many handles were opened
    alive,          \* the handles that are open
    break_loop,     \* the handles whose loop has been asked to end
    control,        \* where the control thread is
    capture,        \* where the capture thread is
    looping,        \* the handle it gave to pcap_loop
    given,          \* history: m_Handle when it was started
    unwaited        \* history: ClosePcap went on although the flag was not set

captureVars == <<limit, m_Handle, m_bExitFlg, opened,
                 alive, break_loop, control, capture, looping, given, unwaited>>

CaptureInit ==
    /\ limit \in Limits
    /\ m_Handle = 0 /\ m_bExitFlg = FALSE
    /\ opened = 0 /\ alive = {} /\ break_loop = {}
    /\ control = "init" /\ capture = "none" /\ looping = 0
    /\ given = 0 /\ unwaited = FALSE

ControlAt(from, to) ==
    /\ process = "running"
    /\ control = from
    /\ control' = to

CaptureAt(from, to) ==
    /\ process = "running"
    /\ capture = from
    /\ capture' = to

-----------------------------------------------------------------------------
(* MyPcapDumpInit *)

handleVars == <<limit, m_bExitFlg, break_loop, capture, looping, given, unwaited>>

(* How the choice of the interface ends, with n devices.  With one device its
   name is read through p, which is NULL behind the loop; without a name in
   config.ini the user enters a number. *)
Choice(n) ==
    CASE n = 1 -> "crash"
      [] n = 2 /\ m_strNetName # "unknown" -> "open"
      [] n = 0 /\ m_strNetName = "empty" -> "return"
      [] OTHER -> "exit"

(* The search for devices, the number entered or pcap_open_live fails. *)
InitReturns ==
    /\ ControlAt("init", "filter")
    /\ UNCHANGED <<handleVars, m_Handle, opened, alive, logVars>>

(* It makes no difference here whether pcap_lookupnet succeeds. *)
InitOpens(n) ==
    /\ ControlAt("init", "filter")
    /\ Choice(n) = "open"
    /\ opened < limit.opens
    /\ opened' = opened + 1
    /\ m_Handle' = opened'
    /\ alive' = alive \cup {opened'}
    /\ UNCHANGED <<handleVars, logVars>>

InitCrashes(n) ==
    /\ ControlAt("init", "crashed")
    /\ Choice(n) = "crash"
    /\ Crash(Main)
    /\ UNCHANGED <<handleVars, m_Handle, opened, alive>>

(* Where it succeeds it returns nothing, and newer compilers end it without a
   return instruction: it runs on into the code behind. *)
InitRunsOn(n) ==
    /\ ControlAt("init", "crashed")
    /\ Choice(n) = "open"
    /\ Crash(Main)
    /\ UNCHANGED <<handleVars, m_Handle, opened, alive>>

(* It logs before it exits. *)
InitLogs(n) ==
    /\ ControlAt("init", "log")
    /\ Choice(n) = "exit"
    /\ WriteLogBegins(Main)
    /\ UNCHANGED <<handleVars, m_Handle, opened, alive>>

InitExits ==
    /\ ControlAt("log", "exit")
    /\ logger[Main] = "locked"
    /\ exit
    /\ UNCHANGED <<handleVars, m_Handle, opened, alive>>

MyPcapDumpInit ==
    \/ InitReturns \/ InitExits
    \/ \E n \in 0 .. 2 : \/ InitOpens(n) \/ InitRunsOn(n)
                         \/ InitCrashes(n) \/ InitLogs(n)

-----------------------------------------------------------------------------
(* The other functions of the control thread *)

(* SetFilter always logs.  Whether the filter can be set, which packets it lets
   through, and that nobody looks at the answer, makes no difference here. *)
SetFilterLogs ==
    /\ ControlAt("filter", "setFilter")
    /\ WriteLogBegins(Main)
    /\ UNCHANGED <<handleVars, m_Handle, opened, alive>>

SetFilter ==
    /\ ControlAt("setFilter", "ready")
    /\ WriteLogEnds(Main)
    /\ UNCHANGED <<handleVars, m_Handle, opened, alive>>

(* The line holds the filter of config.ini, if there is a handle. *)
SetFilterFaults ==
    /\ ControlAt("setFilter", "crashed")
    /\ m_Handle # 0
    /\ WriteLogFaults(Main)
    /\ UNCHANGED <<handleVars, m_Handle, opened, alive>>

(* Not while the thread of the last handle still logs its result. *)
Start ==
    /\ ControlAt("ready", "started")
    /\ capture \in {"none", "ended"}
    /\ capture' = "begin"
    /\ given' = m_Handle
    /\ UNCHANGED <<limit, m_Handle, m_bExitFlg, opened,
                   alive, break_loop, looping, unwaited, logVars>>

AbortPcap ==
    /\ ControlAt("started", "started")
    /\ limit.calls = "capture"
    /\ m_Handle # 0
    /\ break_loop' = break_loop \cup {m_Handle}
    /\ UNCHANGED <<limit, m_Handle, m_bExitFlg, opened,
                   alive, capture, looping, given, unwaited, logVars>>

ClosePcap ==
    /\ ControlAt("started", "wait")
    /\ limit.calls = "capture"
    /\ UNCHANGED <<handleVars, m_Handle, opened, alive, logVars>>

(* while (m_bExitFlg == false); -- the flag is no atomic, and g++ -O2 (see the
   Makefile) may read it once, or drop the loop, which has no effect. *)
CloseWaits ==
    /\ \/ ControlAt("wait", "close") /\ (unwaited' = (unwaited \/ ~m_bExitFlg))
       \/ ControlAt("wait", "hung") /\ ~m_bExitFlg /\ UNCHANGED unwaited
    /\ UNCHANGED <<limit, m_Handle, m_bExitFlg, opened,
                   alive, break_loop, capture, looping, given, logVars>>

(* Bug: the flag of the last loop stays. *)
CloseKeepsFlag ==
    /\ ControlAt("close", "init")
    /\ m_Handle # 0
    /\ alive' = alive \ {m_Handle}
    /\ m_Handle' = 0
    /\ UNCHANGED <<limit, m_bExitFlg, opened, break_loop, capture,
                   looping, given, unwaited, logVars>>

(* pcap_close and pcap_freealldevs. *)
CloseFrees ==
    /\ ControlAt("close", "init")
    /\ m_Handle # 0
    /\ alive' = alive \ {m_Handle}
    /\ m_Handle' = 0
    /\ m_bExitFlg' = FALSE
    /\ UNCHANGED <<limit, opened, break_loop, capture, looping,
                   given, unwaited, logVars>>

(* pcap_close(NULL) *)
CloseCrashes ==
    /\ ControlAt("close", "crashed")
    /\ m_Handle = 0
    /\ Crash(Main)
    /\ UNCHANGED <<handleVars, m_Handle, opened, alive>>

ControlStep ==
    \/ MyPcapDumpInit \/ SetFilterLogs \/ SetFilter \/ SetFilterFaults \/ Start
    \/ AbortPcap \/ ClosePcap \/ CloseWaits \/ CloseFrees \/ CloseCrashes

-----------------------------------------------------------------------------
(* StartPcap, in the capture thread *)

controlVars == <<limit, m_Handle, opened, alive,
                 control, given, unwaited>>

ClearFlag ==
    /\ CaptureAt("begin", "enter")
    /\ m_bExitFlg' = FALSE
    /\ UNCHANGED <<controlVars, break_loop, looping, logVars>>

(* Bug: "Handle->break_loop = 0", which is commented out. *)
EnterLoopAfresh ==
    /\ CaptureAt("enter", "loop")
    /\ looping' = m_Handle
    /\ break_loop' = break_loop \ {m_Handle}
    /\ UNCHANGED <<controlVars, m_bExitFlg, logVars>>

EnterLoop ==
    /\ CaptureAt("enter", "loop")
    /\ looping' = m_Handle
    /\ UNCHANGED <<controlVars, m_bExitFlg, break_loop, logVars>>

(* pcap_loop looks at the flag before every packet and before every read, but
   not while it is blocked in a read, which pcap_breakloop, called by another
   thread, need not wake. *)
LoopReads ==
    /\ CaptureAt("loop", "read")
    /\ looping \in alive \ break_loop
    /\ UNCHANGED <<controlVars, m_bExitFlg, break_loop, looping, logVars>>

(* Without a packet; never if timeOut of config.ini is 0. *)
ReadTimesOut ==
    /\ CaptureAt("read", "loop")
    /\ looping \in alive
    /\ UNCHANGED <<controlVars, m_bExitFlg, break_loop, looping, logVars>>

LoopBreaks ==
    /\ CaptureAt("loop", "left")
    /\ looping \in break_loop \cap alive
    /\ break_loop' = break_loop \ {looping}
    /\ UNCHANGED <<controlVars, m_bExitFlg, looping, logVars>>

LoopFails ==
    /\ CaptureAt("loop", "left") \/ CaptureAt("read", "left")
    /\ looping \in alive
    /\ UNCHANGED <<controlVars, m_bExitFlg, break_loop, looping, logVars>>

(* NULL, or a handle that has been closed. *)
LoopCrashes ==
    /\ CaptureAt("loop", "crashed") \/ CaptureAt("read", "crashed")
    /\ looping \notin alive
    /\ Crash(CaptureThread)
    /\ UNCHANGED <<controlVars, m_bExitFlg, break_loop, looping>>

SetFlag ==
    /\ CaptureAt("left", "log")
    /\ m_bExitFlg' = TRUE
    /\ UNCHANGED <<controlVars, break_loop, looping, logVars>>

(* Without a number of packets to stop at, the result is always negative. *)
LogResult ==
    /\ \/ CaptureAt("log", "logging") /\ WriteLogBegins(CaptureThread)
       \/ CaptureAt("logging", "ended") /\ WriteLogEnds(CaptureThread)
    /\ UNCHANGED <<controlVars, m_bExitFlg, break_loop, looping>>

(* ThreadFunc, where Run returns to, returns nothing either. *)
CaptureRunsOn ==
    /\ CaptureAt("ended", "crashed")
    /\ Crash(CaptureThread)
    /\ UNCHANGED <<controlVars, m_bExitFlg, break_loop, looping>>

CaptureStep ==
    \/ ClearFlag \/ EnterLoop \/ LoopReads \/ LoopBreaks \/ LoopCrashes
    \/ SetFlag \/ LogResult

-----------------------------------------------------------------------------

(* The loop works on the handle it was started for, and that stays open, in
   every order of start, abort, close and opening the next one; unless the
   compiler took the wait out of ClosePcap. *)
HandleAlive ==
    capture \in {"loop", "read"} /\ ~unwaited =>
        looping = given /\ (given # 0 => given \in alive)

(* AbortPcap ends the loop and m_bExitFlg is set, whether it comes before the
   loop, while a packet waits for the queue, in a read, or after the loop, and
   whatever the output thread does; if no read lasts for ever: a packet comes,
   the time runs out or the device fails.  The same exception as above. *)
AbortEnds ==
    []<>(capture # "read") =>
        (control = "started" /\ m_Handle \in break_loop
           ~> \/ capture \in {"log", "logging", "ended", "crashed"}
              \/ process # "running" \/ unwaited)
=============================================================================
