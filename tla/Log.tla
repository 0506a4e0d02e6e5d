-------------------------------- MODULE Log --------------------------------
(***************************************************************************)
(* The files of wlog (source/CLog.cpp): any thread writes, the file        *)
(* changes at midnight and after m_split_lines lines, and a change of file *)
(* deletes the log of the day LOG_SAVE_DAY days ago.  A thread reads the   *)
(* clock before it takes the mutex, by way of the buffer that all calls of *)
(* localtime share, and holds the mutex once to change the file and once   *)
(* to write.  What it writes stays in the buffer of m_fp until that is     *)
(* flushed.  AsyncLog adds the queue, CloseLog and OpenLog.                *)
(***************************************************************************)
EXTENDS Integers, Sequences, FiniteSets

CONSTANTS
    Threads,         \* the threads that write
    m_split_lines,   \* after how many lines a new file begins
    LOG_SAVE_DAY,    \* for how many days a log is kept
    MaxLate,         \* bound: how many days a thread is inside WriteLog
    MaxDay,          \* bound: the last day (less than a month)
    MaxLines,        \* bound: the lines logged
    Limits,          \* bounds: the scenarios, see Limit
    Absent,          \* a file that does not exist
    NoLine           \* a thread that writes nothing

(* A scenario: the last day, how many lines are logged, how often the program
   is started again, how often a control function is called and whether fopen
   may fail; and the max_queue_size given to Log::Init, 0 for no queue. *)
Limit == [days : 1 .. MaxDay, lines : 0 .. MaxLines, restarts : Nat, calls : Nat,
          failing : BOOLEAN, max_queue_size : Nat]

ASSUME BoundsAssumption ==
    /\ IsFiniteSet(Threads)
    /\ m_split_lines \in Nat \ {0} /\ LOG_SAVE_DAY \in Nat \ {0}
    /\ MaxLate \in Nat /\ MaxLate < LOG_SAVE_DAY
    /\ MaxDay \in Nat /\ LOG_SAVE_DAY < MaxDay
    /\ MaxLines \in Nat /\ Limits \subseteq Limit
    /\ Absent \notin Seq(0 .. MaxLines) /\ NoLine \notin 0 .. MaxLines

Days == 1 .. MaxDay
Today == LOG_SAVE_DAY + 1       \* the first day, with days before it
Lines == 1 .. MaxLines

(* <<d, 0>> is the log file of day d, <<d, k>> the one renamed to ".k". *)
Names == Days \X (0 .. MaxLines)

VARIABLES
    limit,       \* the scenario
    clock,       \* today
    alive,       \* whether the program runs
    files,       \* files[n]: the lines written to file n, or Absent
    m_fp,        \* whether the file is open
    buffered,    \* how many lines at its end are still in the buffer of m_fp
    m_today,     \* the day of m_FileName, the file m_fp writes to
    m_count,     \* the lines counted
    tm,          \* the day in the buffer that localtime answers
    pc,          \* where each thread is in WriteLog
    now,         \* now[t]: the day on which thread t read the clock
    stamp,       \* stamp[t]: my_tm, the day it copied
    line,        \* line[t]: the line it logs
    home,        \* history: home[l]: the day of the file line l went to, or 0
    lost,        \* history: the lines that are in no file and will be in none
    safe,        \* history: the lines that were flushed
    logged,      \* history: how many lines WriteLog was called with
    reopened,    \* history: the days whose log was opened again
    spoiled,     \* history: the days another call put into tm between localtime
                 \* and the copy, and those of which a part has no successor
    swept,       \* history: the days on which the file changed
    restarts

history == <<home, lost, safe, logged, reopened, spoiled, swept, restarts>>
fileVars == <<files, m_fp, buffered>>
vars == <<limit, clock, alive, fileVars, m_today, m_count, tm, pc, now, stamp, line,
          history>>

-----------------------------------------------------------------------------

(* fopen(m_FileName, "a") *)
Opened(f, d) == [f EXCEPT ![<<d, 0>>] = IF @ = Absent THEN << >> ELSE @]

Init ==
    /\ limit \in Limits
    /\ clock = Today
    /\ alive = TRUE
    /\ files = Opened([n \in Names |-> Absent], Today)
    /\ m_fp = TRUE
    /\ buffered = 0
    /\ m_today = Today
    /\ m_count = 0
    /\ tm = Today
    /\ pc = [t \in Threads |-> "idle"]
    /\ now = [t \in Threads |-> 0]
    /\ stamp = [t \in Threads |-> 0]
    /\ line = [t \in Threads |-> NoLine]
    /\ home = [l \in Lines |-> 0]
    /\ lost = {} /\ safe = {}
    /\ logged = 0
    /\ reopened = {} /\ spoiled = {} /\ swept = {}
    /\ restarts = 0

-----------------------------------------------------------------------------
(* WriteLog up to the first lock: gettimeofday, localtime, and the copy of the
   buffer, in which another thread may have left another day meanwhile. *)

Clock(t) ==
    /\ pc[t] = "idle"
    /\ logged < limit.lines
    /\ pc' = [pc EXCEPT ![t] = "clocked"]
    /\ now' = [now EXCEPT ![t] = clock]
    /\ line' = [line EXCEPT ![t] = logged + 1]
    /\ logged' = logged + 1
    /\ UNCHANGED <<limit, clock, alive, fileVars, m_today, m_count, tm, stamp,
                   home, lost, safe, reopened, spoiled, swept, restarts>>

localtime(t) ==
    /\ pc[t] = "clocked"
    /\ pc' = [pc EXCEPT ![t] = "converted"]
    /\ tm' = now[t]
    /\ UNCHANGED <<limit, clock, alive, fileVars, m_today, m_count, now, stamp, line,
                   history>>

Stamp(t) ==
    /\ pc[t] = "converted"
    /\ pc' = [pc EXCEPT ![t] = "stamped"]
    /\ stamp' = [stamp EXCEPT ![t] = tm]
    /\ spoiled' = spoiled \cup ({tm} \ {now[t]})
    /\ UNCHANGED <<limit, clock, alive, fileVars, m_today, m_count, tm, now, line,
                   home, lost, safe, logged, reopened, swept, restarts>>

-----------------------------------------------------------------------------
(* The change of file *)

(* Bugs: lines are not counted; all parts of a day get the same suffix; the
   log of the day after is deleted. *)
DueNever(count) == FALSE
PartOne(count) == 1
ExpiredEarly(d) == d + LOG_SAVE_DAY = clock + 1

Due(count) == count % m_split_lines = 0
Part(count) == count \div m_split_lines

(* DelLog looks for the log of one day. *)
Expired(d) == d + LOG_SAVE_DAY = clock

(* It deletes the file of that day and then ".1", ".2" ... up to the first
   one that does not exist. *)
DelLog(f) ==
    [n \in Names |->
        IF Expired(n[1]) /\ \A k \in 0 .. n[2] : f[<<n[1], k>>] # Absent
          THEN Absent ELSE f[n]]

(* DelLog calls localtime, too. *)
DayToDelete == clock - LOG_SAVE_DAY

(* fopen(m_FileName, "w+"): a file that exists loses its lines; or it fails. *)
Truncated(f, d) == [f EXCEPT ![<<d, 0>>] = << >>]
Create(opened, f, d) ==
    /\ opened \/ limit.failing
    /\ m_fp' = opened
    /\ files' = IF opened THEN Truncated(f, d) ELSE f

(* rename fails if there is no such file. *)
Renamed(f, d, k) ==
    IF f[<<d, 0>>] = Absent THEN f
    ELSE [f EXCEPT ![<<d, k>>] = f[<<d, 0>>], ![<<d, 0>>] = Absent]

(* The day has a file, whichever. *)
Begun(d) == \E k \in 0 .. MaxLines : files[<<d, k>>] # Absent
OpenedAgain(d) == IF Begun(d) THEN reopened \cup {d} ELSE reopened

(* fflush and fclose, and the end of the program: the lines that have a home
   in h are in the file. *)
Flushed(h) ==
    /\ buffered' = 0
    /\ safe' = safe \cup {l \in Lines : h[l] # 0}

Sweep ==
    /\ tm' = DayToDelete
    /\ swept' = swept \cup {clock}

(* The first critical section of WriteLog, in its cases. *)
NextDay(t, opened) ==
    /\ m_today # stamp[t]
    /\ m_fp
    /\ m_today' = stamp[t]
    /\ m_count' = 0
    /\ Create(opened, DelLog(files), stamp[t])
    /\ reopened' = OpenedAgain(stamp[t])
    /\ Sweep
    /\ Flushed(home)
    /\ UNCHANGED <<alive, spoiled>>

NextPart(t, opened) ==
    /\ m_today = stamp[t]
    /\ m_fp
    /\ m_count' = m_count + 1
    /\ Due(m_count')
    /\ Create(opened, DelLog(Renamed(files, m_today, Part(m_count'))), m_today)
    /\ spoiled' = IF opened THEN spoiled ELSE spoiled \cup {m_today}
    /\ Sweep
    /\ Flushed(home)
    /\ UNCHANGED <<alive, m_today, reopened>>

(* fclose(NULL), after an fopen that failed, ends the program. *)
NoFile(t) ==
    /\ m_today # stamp[t] \/ Due(m_count + 1)
    /\ ~m_fp
    /\ alive' = FALSE
    /\ UNCHANGED <<fileVars, m_today, m_count, tm, safe, reopened, spoiled, swept>>

SameFile(t) ==
    /\ m_today = stamp[t]
    /\ m_count' = m_count + 1
    /\ ~Due(m_count')
    /\ UNCHANGED <<alive, fileVars, m_today, tm, safe, reopened, spoiled, swept>>

ChooseFile(t) ==
    /\ pc[t] = "stamped"
    /\ pc' = [pc EXCEPT ![t] = "chosen"]
    /\ \/ \E opened \in BOOLEAN : NextDay(t, opened) \/ NextPart(t, opened)
       \/ NoFile(t) \/ SameFile(t)
    /\ UNCHANGED <<limit, clock, now, stamp, line, home, lost, logged, restarts>>

-----------------------------------------------------------------------------
(* The line *)

(* fwrite of a line into whatever m_fp is by now; a file that was deleted
   while it was open does not come back. *)
fwrite(l) ==
    /\ files' = [files EXCEPT ![<<m_today, 0>>] = IF @ = Absent THEN @ ELSE Append(@, l)]
    /\ buffered' = IF files[<<m_today, 0>>] = Absent THEN buffered ELSE buffered + 1

(* The line is written; or, if (m_fp) fails, dropped. *)
Logged(l) ==
    /\ fwrite(l)
    /\ home' = [home EXCEPT ![l] = m_today]
    /\ UNCHANGED lost

Dropped(l) ==
    /\ lost' = lost \cup {l}
    /\ UNCHANGED <<files, buffered, home>>

Returns(t) ==
    /\ pc' = [pc EXCEPT ![t] = "idle"]
    /\ now' = [now EXCEPT ![t] = 0]
    /\ stamp' = [stamp EXCEPT ![t] = 0]
    /\ line' = [line EXCEPT ![t] = NoLine]

(* The last critical section, reached without the queue. *)
Write(t, from) ==
    /\ pc[t] = from
    /\ IF m_fp THEN Logged(line[t]) ELSE Dropped(line[t])
    /\ Returns(t)
    /\ UNCHANGED <<limit, clock, alive, m_fp, m_today, m_count, tm, safe, logged,
                   reopened, spoiled, swept, restarts>>

-----------------------------------------------------------------------------

(* A new day.  No thread sleeps in WriteLog until its day is deleted. *)
Midnight ==
    /\ clock < limit.days
    /\ \A t \in Threads : alive /\ pc[t] # "idle" => clock < now[t] + MaxLate
    /\ clock' = clock + 1
    /\ UNCHANGED <<limit, alive, fileVars, m_today, m_count, tm, pc, now, stamp, line,
                   history>>

(* The last n lines of the file, and the file without them. *)
LastLines(n) ==
    LET f == files[<<m_today, 0>>]
    IN  IF f = Absent THEN {} ELSE {f[i] : i \in Len(f) - n + 1 .. Len(f)}
CutOff(n) ==
    [files EXCEPT ![<<m_today, 0>>] =
        IF @ = Absent THEN @ ELSE SubSeq(@, 1, Len(@) - n)]

(* The program ends, by a signal or because it crashed, and is started again.
   The lines its threads were working on are lost, and so is what was in the
   buffer of m_fp, but for the lines that had been passed on when the buffer
   was full; a line that is cut in two counts as lost. *)
Ends(n) ==
    /\ restarts < limit.restarts
    /\ restarts' = restarts + 1
    /\ alive' = TRUE
    /\ pc' = [t \in Threads |-> "idle"]
    /\ now' = [t \in Threads |-> 0]
    /\ stamp' = [t \in Threads |-> 0]
    /\ line' = [t \in Threads |-> NoLine]
    /\ home' = [l \in Lines |-> IF l \in LastLines(n) THEN 0 ELSE home[l]]
    /\ lost' = {l \in 1 .. logged : home'[l] = 0}
    /\ Flushed(home')
    /\ UNCHANGED <<limit, clock, logged, spoiled, swept>>

(* Bug: the file is not opened. *)
RestartUnopened(n) ==
    /\ Ends(n)
    /\ m_fp' = TRUE
    /\ m_today' = clock
    /\ m_count' = 0
    /\ tm' = clock
    /\ files' = CutOff(n)
    /\ UNCHANGED reopened

(* Log::Init opens the file of the day again and counts from zero; if fopen
   fails, the program ends once more. *)
Restart(n) ==
    /\ Ends(n)
    /\ m_fp' = TRUE
    /\ m_today' = clock
    /\ m_count' = 0
    /\ tm' = clock
    /\ files' = Opened(CutOff(n), clock)
    /\ reopened' = OpenedAgain(clock)

-----------------------------------------------------------------------------

(* The places of line l, over all files. *)
Places(l) ==
    UNION {{<<n, i>> : i \in {j \in DOMAIN files[n] : files[n][j] = l}} :
              n \in {m \in Names : files[m] # Absent}}

(* A line that was written stays, once, for LOG_SAVE_DAY days, through every
   change of file by other threads; and a line that was flushed, by a change of
   file, by FlushMem or by CloseLog, is not lost when the program ends.  The
   exception is a day whose log was opened again: fopen(.., "w+") once a thread
   with an older time stamp has turned the day back, or a ".k" overwritten after
   a restart. *)
LinesKept ==
    \A l \in Lines :
        /\ Cardinality(Places(l)) <= 1
        /\ home[l] # 0 /\ home[l] \notin reopened /\ clock < home[l] + LOG_SAVE_DAY
             => Places(l) # {}
        /\ l \in safe => home[l] # 0

(* A file has at most m_split_lines lines, and one more for each other thread
   that had chosen the file before; with a queue, also the lines that were on
   their way when the file changed: those in the queue, with the writer and
   with FlushQueue, and the one that ends the writer. *)
FilesBounded ==
    LET Late == IF limit.max_queue_size = 0 THEN 0 ELSE limit.max_queue_size + 3
    IN  \A n \in Names :
          n[1] \notin reopened /\ files[n] # Absent
            => Len(files[n]) < m_split_lines + Cardinality(Threads) + Late

(* A change of file leaves nothing of the log that is LOG_SAVE_DAY days old,
   however many parts it has.  The exceptions are a day that a thread took from
   the buffer of localtime although it is not the day it asked for, be it the
   deleted day itself, which then begins anew; and a day of which a part was
   renamed and fopen failed, for DelLog stops where the first file is missing. *)
OldLogDeleted ==
    \A d \in swept :
        \A n \in Names :
            n[1] + LOG_SAVE_DAY = d /\ n[1] \notin spoiled => files[n] = Absent
=============================================================================
