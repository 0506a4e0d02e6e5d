------------------------------ MODULE CrashLog ------------------------------
(***************************************************************************)
(* How the process ends: exit(0), a signal that nobody handles, or         *)
(* _signal_handler, which records the crash in a log of its own, closes    *)
(* both logs and exits.  The handler is installed by the constructor of    *)
(* CWriteLog, which the first line logged calls through GetInstance.       *)
(* GetInstance has no lock, so there may be several objects, each with its *)
(* two logs; they are named by the thread that constructed them.           *)
(***************************************************************************)
EXTENDS Integers

CONSTANTS
    Loggers,     \* the threads that may log and crash
    Nobody

ASSUME LoggersAssumption == Nobody \notin Loggers

VARIABLES
    process,     \* "running", "exited", "killed" or "recorded" (by the handler)
    made,        \* the objects that are constructed
    m_wLog,      \* the one that GetInstance answers, or Nobody
    open,        \* those whose files are open: m_fp # NULL
    m_mutex,     \* m_mutex[i]: who is inside m_psysLog->WriteLog of i, or Nobody
    logger,      \* logger[t]: where t is in CWriteLog, or in the handler
    instance,    \* instance[t]: what GetInstance has answered t
    recorded     \* whether a crash log has the crash

logVars == <<process, made, m_wLog, open, m_mutex, logger, instance, recorded>>

CrashLogInit ==
    /\ process = "running"
    /\ made = {} /\ m_wLog = Nobody /\ open = {}
    /\ m_mutex = [i \in Loggers |-> Nobody]
    /\ logger = [t \in Loggers |-> "idle"]
    /\ instance = [t \in Loggers |-> Nobody]
    /\ recorded = FALSE

InHandler(t) ==
    logger[t] \in {"crashGet", "crashConstructed", "record", "close", "exit"}

LoggerAt(t, from, to) ==
    /\ process = "running"
    /\ logger[t] = from
    /\ logger' = [logger EXCEPT ![t] = to]

exit ==
    /\ process' = "exited"
    /\ UNCHANGED <<made, m_wLog, open, m_mutex, logger, instance, recorded>>

-----------------------------------------------------------------------------
(* GetInstance, from place "get" to place "got" *)

(* The constructor: both files are open and the handler is installed, but
   m_wLog is still NULL. *)
Construct(t, get, constructed) ==
    /\ LoggerAt(t, get, constructed)
    /\ m_wLog = Nobody
    /\ made' = made \cup {t} /\ open' = open \cup {t}
    /\ UNCHANGED <<process, m_wLog, m_mutex, instance, recorded>>

(* It exits if a file does not open. *)
ConstructorExits(t, get) ==
    /\ process = "running" /\ logger[t] = get
    /\ m_wLog = Nobody
    /\ exit

Store(t, constructed, get) ==
    /\ LoggerAt(t, constructed, get)
    /\ m_wLog' = t
    /\ UNCHANGED <<process, made, open, m_mutex, instance, recorded>>

Answer(t, get, got) ==
    /\ LoggerAt(t, get, got)
    /\ m_wLog # Nobody
    /\ instance' = [instance EXCEPT ![t] = m_wLog]
    /\ UNCHANGED <<process, made, m_wLog, open, m_mutex, recorded>>

GetInstance(t, get, constructed, got) ==
    \/ Construct(t, get, constructed)
    \/ ConstructorExits(t, get)
    \/ Store(t, constructed, get)
    \/ Answer(t, get, got)

-----------------------------------------------------------------------------
(* CWriteLog::WriteLog, under the mutex of m_psysLog; a line for a log that is
   closed is lost. *)

WriteLogBegins(t) ==
    /\ LoggerAt(t, "idle", "get")
    /\ UNCHANGED <<process, made, m_wLog, open, m_mutex, instance, recorded>>

WriteLogLocks(t) ==
    /\ LoggerAt(t, "lock", "locked")
    /\ m_mutex[instance[t]] = Nobody
    /\ m_mutex' = [m_mutex EXCEPT ![instance[t]] = t]
    /\ UNCHANGED <<process, made, m_wLog, open, instance, recorded>>

WriteLogEnds(t) ==
    /\ LoggerAt(t, "locked", "idle")
    /\ m_mutex' = [m_mutex EXCEPT ![instance[t]] = Nobody]
    /\ UNCHANGED <<process, made, m_wLog, open, instance, recorded>>

(* The line is the format of vsnprintf, and a long one is written behind the end
   of m_buf: a fault under the mutex, which stays locked. *)
WriteLogFaults(t) ==
    /\ LoggerAt(t, "locked", "crashGet")
    /\ UNCHANGED <<process, made, m_wLog, open, m_mutex, instance, recorded>>

LogStep(t) == GetInstance(t, "get", "constructed", "lock") \/ WriteLogLocks(t)

-----------------------------------------------------------------------------
(* The handler *)

(* A memory fault of thread t, which does not log. *)
Crash(t) ==
    /\ IF made = {}
         THEN process' = "killed" /\ UNCHANGED logger
         ELSE UNCHANGED process /\ logger' = [logger EXCEPT ![t] = "crashGet"]
    /\ UNCHANGED <<made, m_wLog, open, m_mutex, instance, recorded>>

(* Bug: the logs are closed first. *)
RecordLast(t) ==
    /\ LoggerAt(t, "record", "close")
    /\ open' = open \ {m_wLog}
    /\ UNCHANGED <<process, made, m_wLog, m_mutex, instance, recorded>>

(* CashWriteLog, for the signal and for the stack. *)
Record(t) ==
    /\ LoggerAt(t, "record", "close")
    /\ recorded' = (recorded \/ instance[t] \in open)
    /\ UNCHANGED <<process, made, m_wLog, open, m_mutex, instance>>

(* CloseFileLog: the flush of m_psysLog waits for whoever is writing. *)
CloseFileLog(t) ==
    /\ LoggerAt(t, "close", "exit")
    /\ m_wLog \in open => m_mutex[m_wLog] = Nobody
    /\ open' = open \ {m_wLog}
    /\ UNCHANGED <<process, made, m_wLog, m_mutex, instance, recorded>>

(* Two threads that close at once both find the file open: fclose(NULL), and
   nobody handles a fault of the handler. *)
CloseFaults(t) ==
    /\ process = "running" /\ logger[t] = "close"
    /\ m_wLog \in open /\ m_mutex[m_wLog] = Nobody
    /\ \E u \in Loggers \ {t} : logger[u] = "close"
    /\ process' = "killed"
    /\ UNCHANGED <<made, m_wLog, open, m_mutex, logger, instance, recorded>>

HandlerExits(t) ==
    /\ process = "running" /\ logger[t] = "exit"
    /\ process' = "recorded"
    /\ UNCHANGED <<made, m_wLog, open, m_mutex, logger, instance, recorded>>

HandlerStep(t) ==
    \/ GetInstance(t, "crashGet", "crashConstructed", "record")
    \/ Record(t) \/ CloseFileLog(t) \/ CloseFaults(t) \/ HandlerExits(t)

-----------------------------------------------------------------------------

(* After a crash behind the first line logged the process ends, whoever was
   logging or crashing besides, and if it is the handler that ends it the crash
   log has the crash; unless a thread crashed inside WriteLog: its own handler,
   and with it every other one, waits for the mutex it holds. *)
CrashRecorded ==
    /\ (\E t \in Loggers : InHandler(t)) ~>
          \/ process # "running"
          \/ \E u \in Loggers :
                InHandler(u) /\ m_wLog # Nobody /\ m_mutex[m_wLog] = u
    /\ [](process = "recorded" => recorded)
=============================================================================
