------------------------------- MODULE Output -------------------------------
(***************************************************************************)
(* COutProtPkg: the thread that takes the packets from CACQueue calls the  *)
(* registered functions with each, under m_mutex, and writes it to a file. *)
(* Another thread registers functions and asks for the end.                *)
(***************************************************************************)
EXTENDS CrashLog, Sequences

CONSTANTS
    OutThread,   \* the thread in Run
    ShowAc,      \* the function for showPkg = 1
    Functions,   \* the functions that may be registered besides
    Settings,    \* what config.ini may say: records of showPkg and writePkg
    Later        \* a packet that the properties do not follow

ASSUME OutputAssumption ==
    /\ OutThread \in Loggers
    /\ Settings \subseteq [showPkg : BOOLEAN, writePkg : BOOLEAN]

VARIABLES
    setting,          \* of Settings
    pkgFile,          \* m_fp: "open", "NULL", or "undefined" as nobody set it
    m_vecDealPkgFun,
    pkgMutex,         \* m_mutex: OutThread while it calls, or Nobody
    outExitFlg,       \* m_bExitFlg
    out,              \* where Run is
    itr,              \* the function it calls next
    pkg,              \* the packet it has popped
    dealt,            \* history: the packets whose turn has come
    since,            \* history: since[f]: how many there were when f was registered
    served,           \* history: served[f]: the packets f was called with
    records           \* history: the packets in the file

outVars == <<setting, pkgFile, m_vecDealPkgFun, pkgMutex,
             outExitFlg, out, itr, pkg, dealt, since, served, records>>
settings == <<setting, pkgFile>>
register == <<m_vecDealPkgFun, since>>
histories == <<dealt, served, records>>

Registered == {m_vecDealPkgFun[i] : i \in DOMAIN m_vecDealPkgFun}

(* COutProtPkg::COutProtPkg; m_fp is not initialised. *)
OutputInit ==
    /\ setting \in Settings
    /\ pkgFile \in IF setting.writePkg THEN {"open", "NULL"} ELSE {"undefined"}
    /\ m_vecDealPkgFun = IF setting.showPkg THEN <<ShowAc>> ELSE << >>
    /\ pkgMutex = Nobody
    /\ outExitFlg = FALSE
    /\ out = "begin" /\ itr = 1 /\ pkg = Later
    /\ dealt = << >> /\ records = << >>
    /\ since = [f \in Functions \cup {ShowAc} |-> 0]
    /\ served = [f \in Functions \cup {ShowAc} |-> << >>]

OutAt(from, to) ==
    /\ process = "running"
    /\ out = from
    /\ out' = to

(* The packets that the histories keep. *)
Noted(seq, p) == IF p = Later THEN seq ELSE Append(seq, p)

-----------------------------------------------------------------------------
(* Run *)

OutBegins ==
    /\ OutAt("begin", "test")
    /\ pkgFile # "NULL"
    /\ outExitFlg' = FALSE
    /\ UNCHANGED <<settings, register, histories, pkgMutex, itr, pkg, logVars>>

OutExits ==
    /\ OutAt("begin", "begin")
    /\ pkgFile # "open"
    /\ exit
    /\ UNCHANGED <<settings, register, histories, pkgMutex, outExitFlg, itr, pkg>>

(* Bug: m_bExitFlg = false is inside the loop. *)
OutTestsReset ==
    /\ OutAt("test", "pop")
    /\ outExitFlg' = FALSE
    /\ UNCHANGED <<settings, register, histories, pkgMutex, itr, pkg, logVars>>

OutTests ==
    /\ OutAt("test", IF outExitFlg THEN "ended" ELSE "pop")
    /\ UNCHANGED <<settings, register, histories, pkgMutex, outExitFlg, itr, pkg, logVars>>

(* CACQueue::Pop has returned p. *)
OutPops(p) ==
    /\ OutAt("pop", "lock")
    /\ pkg' = p
    /\ UNCHANGED <<settings, register, histories, pkgMutex, outExitFlg, itr, logVars>>

OutLocks ==
    /\ OutAt("lock", "call")
    /\ pkgMutex = Nobody
    /\ pkgMutex' = OutThread
    /\ itr' = 1
    /\ dealt' = Noted(dealt, pkg)
    /\ UNCHANGED <<settings, register, served, records, outExitFlg, pkg, logVars>>

OutCalls ==
    /\ OutAt("call", "call")
    /\ itr \in DOMAIN m_vecDealPkgFun
    /\ served' = [served EXCEPT ![m_vecDealPkgFun[itr]] = Noted(@, pkg)]
    /\ itr' = itr + 1
    /\ UNCHANGED <<settings, register, dealt, records, pkgMutex, outExitFlg, pkg, logVars>>

OutUnlocks ==
    /\ OutAt("call", "write")
    /\ itr \notin DOMAIN m_vecDealPkgFun
    /\ pkgMutex' = Nobody
    /\ UNCHANGED <<settings, register, histories, outExitFlg, itr, pkg, logVars>>

(* WriteAcToFile, if writePkg = 1. *)
OutWrites ==
    /\ OutAt("write", "test")
    /\ records' = IF setting.writePkg THEN Noted(records, pkg) ELSE records
    /\ UNCHANGED <<settings, register, dealt, served, pkgMutex, outExitFlg, itr, pkg,
                   logVars>>

(* ThreadFunc, where Run returns to, returns nothing: see InitRunsOn. *)
OutRunsOn ==
    /\ OutAt("ended", "crashed")
    /\ Crash(OutThread)
    /\ UNCHANGED <<settings, register, histories, pkgMutex, outExitFlg, itr, pkg>>

(* The steps that do not touch the queue. *)
OutStep ==
    \/ OutBegins \/ OutExits \/ OutTests
    \/ OutLocks \/ OutCalls \/ OutUnlocks \/ OutWrites

-----------------------------------------------------------------------------
(* The functions other threads call *)

PthreadExit ==
    /\ process = "running"
    /\ outExitFlg' = TRUE
    /\ UNCHANGED <<settings, register, histories, pkgMutex, out, itr, pkg, logVars>>

(* Bug: it does not take the mutex. *)
RegisterUnlocked(f) ==
    /\ process = "running"
    /\ f \in Functions \ Registered
    /\ m_vecDealPkgFun' = Append(m_vecDealPkgFun, f)
    /\ since' = [since EXCEPT ![f] = Len(dealt)]
    /\ UNCHANGED <<settings, histories, pkgMutex, outExitFlg, out, itr, pkg, logVars>>

(* A function that is not NULL; each is registered once. *)
SetDealPkgFunc(f) ==
    /\ process = "running"
    /\ f \in Functions \ Registered
    /\ pkgMutex = Nobody
    /\ m_vecDealPkgFun' = Append(m_vecDealPkgFun, f)
    /\ since' = [since EXCEPT ![f] = Len(dealt)]
    /\ UNCHANGED <<settings, histories, pkgMutex, outExitFlg, out, itr, pkg, logVars>>

-----------------------------------------------------------------------------

(* Each function is called with every packet whose turn comes after it was
   registered, in order and once, and the file has every packet too; but for
   the packet that is being dealt with. *)
RegisteredServed ==
    LET Now(waits) == IF waits /\ pkg # Later THEN 1 ELSE 0
    IN  /\ \A i \in DOMAIN m_vecDealPkgFun :
             LET f == m_vecDealPkgFun[i]
             IN  served[f] = SubSeq(dealt, since[f] + 1,
                                    Len(dealt) - Now(out = "call" /\ i >= itr))
        /\ setting.writePkg =>
             records = SubSeq(dealt, 1, Len(dealt) - Now(out \in {"call", "write"}))
=============================================================================
