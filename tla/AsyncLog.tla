------------------------------ MODULE AsyncLog ------------------------------
(***************************************************************************)
(* Log with a queue between the threads that log and a thread that writes, *)
(* and with FlushQueue, CloseLog, ~Log and OpenLog, which one thread       *)
(* calls.  With max_queue_size = 0 there is no queue and no such thread.   *)
(* The threads log while the log is open, and are not inside WriteLog when *)
(* it is closed.                                                           *)
(***************************************************************************)
EXTENDS Log, SequencesExt

CONSTANTS NULL      \* no queue

BQ == INSTANCE BlockQueue WITH NoItem <- NoLine

ASSUME NULLAssumption ==
    \A b \in Limits : NULL \notin BQ!Ring(b.max_queue_size, 0 .. MaxLines)

VARIABLES
    m_is_async,
    m_log_queue,
    writer,      \* where async_write_log is; "none" without it
    written,     \* the line it has popped
    control,     \* where the thread that calls the control functions is
    flushed,     \* the line FlushQueue has popped
    ending,      \* whether the log is being deleted, not closed
    calls

asyncVars == <<m_is_async, m_log_queue, writer, written, control, flushed,
               ending, calls>>
allVars == <<vars, asyncVars>>

(* What CloseLog pushes is no line of the program. *)
Farewell == 0

Async == limit.max_queue_size >= 1
NewQueue == IF Async THEN BQ!BlockQueue(limit.max_queue_size) ELSE NULL

(* Log::Init starts the writer if there is a queue. *)
AsyncInit ==
    /\ Init
    /\ m_is_async = Async
    /\ m_log_queue = NewQueue
    /\ writer = IF Async THEN "test" ELSE "none"
    /\ written = NoLine /\ flushed = NoLine
    /\ control = "open" /\ ending = FALSE
    /\ calls = 0

-----------------------------------------------------------------------------
(* WriteLog *)

LogLine(t) ==
    /\ \/ Clock(t) /\ control \in {"open", "flush", "flushWrite"}
       \/ localtime(t) \/ Stamp(t) \/ ChooseFile(t)
    /\ UNCHANGED asyncVars

(* m_is_async && !m_log_queue->full() *)
AskQueue(t) ==
    /\ pc[t] = "chosen" /\ m_is_async
    /\ pc' = [pc EXCEPT ![t] = IF BQ!full(m_log_queue) THEN "direct" ELSE "push"]
    /\ UNCHANGED <<limit, clock, alive, fileVars, m_today, m_count, tm, now, stamp,
                   line, history, asyncVars>>

WriteDirect(t) ==
    /\ \/ ~m_is_async /\ Write(t, "chosen")
       \/ Write(t, "direct")
    /\ UNCHANGED asyncVars

(* Bug: nobody is woken. *)
NotWoken == writer

(* pthread_cond_broadcast, with every push. *)
Woken == IF writer = "asleep" THEN "pop" ELSE writer

(* The answer of push is not looked at: a line that is refused is lost. *)
PushLine(t) ==
    /\ pc[t] = "push"
    /\ Returns(t)
    /\ m_log_queue' = BQ!push(m_log_queue, line[t])
    /\ lost' = IF BQ!full(m_log_queue) THEN lost \cup {line[t]} ELSE lost
    /\ writer' = Woken
    /\ UNCHANGED <<limit, clock, alive, fileVars, m_today, m_count, tm, home, safe,
                   logged, reopened, spoiled, swept, restarts, m_is_async, written,
                   control, flushed, ending, calls>>

NewDay == Midnight /\ UNCHANGED asyncVars

-----------------------------------------------------------------------------
(* The writer: async_write_log *)

threads == <<limit, clock, m_fp, m_today, m_count, tm, pc, now, stamp, line, safe,
             logged, reopened, spoiled, swept, restarts, m_is_async, ending, calls>>
still == <<threads, alive, files, buffered, home, lost>>

WriterTests ==
    /\ writer = "test"
    /\ writer' = IF m_is_async THEN "pop" ELSE "ended"
    /\ UNCHANGED <<still, m_log_queue, written, control, flushed>>

WriterPops ==
    /\ writer = "pop"
    /\ IF BQ!empty(m_log_queue)
         THEN writer' = "asleep" /\ UNCHANGED <<m_log_queue, written>>
         ELSE /\ writer' = "write"
              /\ written' = BQ!Oldest(m_log_queue)
              /\ m_log_queue' = BQ!pop(m_log_queue)
    /\ UNCHANGED <<still, control, flushed>>

(* A line is written where the file is by now. *)
Written(l) ==
    /\ fwrite(l)
    /\ home' = IF l = Farewell THEN home ELSE [home EXCEPT ![l] = m_today]
    /\ UNCHANGED lost

WriterWrites ==
    /\ writer = "write" /\ m_fp
    /\ writer' = "test"
    /\ Written(written)
    /\ written' = NoLine
    /\ UNCHANGED <<threads, alive, m_log_queue, control, flushed>>

(* fwrite(.., NULL): nobody asks whether fopen failed. *)
WriterCrashes ==
    /\ writer = "write" /\ ~m_fp
    /\ alive' = FALSE
    /\ UNCHANGED <<threads, files, buffered, home, lost, m_log_queue, writer, written,
                   control, flushed>>

WriterWakesUp ==
    /\ writer = "asleep"
    /\ writer' = "pop"
    /\ UNCHANGED <<still, m_log_queue, written, control, flushed>>

-----------------------------------------------------------------------------
(* The control functions *)

Quiet == \A t \in Threads : pc[t] = "idle"
Call(name) ==
    /\ calls < limit.calls
    /\ calls' = calls + 1
    /\ control' = name

(* FlushQueue pops with a timeout and writes, until it finds nothing. *)
Flush ==
    /\ control = "open" /\ m_is_async
    /\ Call("flush")
    /\ UNCHANGED <<vars, m_is_async, m_log_queue, writer, written, flushed, ending>>

FlushPops ==
    /\ control = "flush"
    /\ IF BQ!empty(m_log_queue)
         THEN control' = "open" /\ UNCHANGED <<m_log_queue, flushed>>
         ELSE /\ control' = "flushWrite"
              /\ flushed' = BQ!Oldest(m_log_queue)
              /\ m_log_queue' = BQ!pop(m_log_queue)
    /\ UNCHANGED <<vars, m_is_async, writer, written, ending, calls>>

FlushWrites ==
    /\ control = "flushWrite"
    /\ control' = "flush"
    /\ IF m_fp THEN Written(flushed) ELSE Dropped(flushed)
    /\ flushed' = NoLine
    /\ UNCHANGED <<threads, alive, m_log_queue, writer, written>>

FlushMem ==
    /\ control = "open"
    /\ Call("open")
    /\ Flushed(home)
    /\ UNCHANGED <<limit, clock, alive, files, m_fp, m_today, m_count, tm, pc, now,
                   stamp, line, home, lost, logged, reopened, spoiled, swept, restarts,
                   m_is_async, m_log_queue, writer, written, flushed, ending>>

(* CloseLog, which does nothing if no file is open, and ~Log. *)
Close(deleted) ==
    /\ \/ control = "open" /\ (m_fp \/ deleted)
       \/ control = "closed" /\ deleted
    /\ Quiet
    /\ Call(IF m_is_async THEN "clearFlag" ELSE "closeFile")
    /\ ending' = deleted
    /\ UNCHANGED <<vars, m_is_async, m_log_queue, writer, written, flushed>>

(* m_is_async = false, then a line that wakes the writer up, then Join. *)
ClearFlag ==
    /\ control = "clearFlag"
    /\ control' = "wakeUp"
    /\ m_is_async' = FALSE
    /\ UNCHANGED <<vars, m_log_queue, writer, written, flushed, ending, calls>>

WakeUp ==
    /\ control = "wakeUp"
    /\ control' = "join"
    /\ m_log_queue' = BQ!push(m_log_queue, Farewell)
    /\ writer' = Woken
    /\ UNCHANGED <<vars, m_is_async, written, flushed, ending, calls>>

(* FlushQueue returns at once, for the flag is cleared; the lines that are in
   the queue go with it. *)
Join ==
    /\ control = "join" /\ writer = "ended"
    /\ control' = "closeFile"
    /\ lost' = lost \cup (Lines \cap ToSet(BQ!Elements(m_log_queue)))
    /\ m_log_queue' = NULL /\ writer' = "none"
    /\ UNCHANGED <<threads, alive, files, buffered, home, written, flushed>>

(* FlushMem and fclose. *)
CloseFile ==
    /\ control = "closeFile"
    /\ control' = IF ending THEN "deleted" ELSE "closed"
    /\ m_fp' = FALSE
    /\ Flushed(home)
    /\ UNCHANGED <<limit, clock, alive, files, m_today, m_count, tm, pc, now, stamp,
                   line, home, lost, logged, reopened, spoiled, swept, restarts,
                   m_is_async, m_log_queue, writer, written, flushed, ending, calls>>

(* OpenLog deletes the old log even if it finds the log open; if it is not,
   fopen may fail.  The log stays synchronous. *)
OpenLog(opened) ==
    /\ control \in {"open", "closed"}
    /\ opened \/ (~m_fp /\ limit.failing)
    /\ Call(IF opened THEN "open" ELSE control)
    /\ m_fp' = opened
    /\ files' = IF ~m_fp /\ opened THEN Opened(DelLog(files), m_today) ELSE DelLog(files)
    /\ tm' = DayToDelete
    /\ UNCHANGED <<limit, clock, alive, buffered, m_today, m_count, pc, now, stamp, line,
                   history, m_is_async, m_log_queue, writer, written, flushed, ending>>

(* The program ends, and with it the queue. *)
StartAgain ==
    /\ \E n \in 0 .. buffered : Restart(n)
    /\ m_is_async' = Async /\ m_log_queue' = NewQueue
    /\ writer' = IF Async THEN "test" ELSE "none"
    /\ written' = NoLine /\ flushed' = NoLine
    /\ control' = "open" /\ ending' = FALSE
    /\ UNCHANGED calls

Running ==
    \/ \E t \in Threads : LogLine(t) \/ AskQueue(t) \/ WriteDirect(t) \/ PushLine(t)
    \/ WriterTests \/ WriterPops \/ WriterWrites \/ WriterCrashes \/ WriterWakesUp
    \/ Flush \/ FlushPops \/ FlushWrites \/ FlushMem
    \/ \E deleted \in BOOLEAN : Close(deleted)
    \/ ClearFlag \/ WakeUp \/ Join \/ CloseFile
    \/ \E opened \in BOOLEAN : OpenLog(opened)

AsyncNext == (alive /\ Running) \/ NewDay \/ StartAgain

AsyncSpec == AsyncInit /\ [][AsyncNext]_allVars

-----------------------------------------------------------------------------

(* Types; while a file is open it exists, but for one that DelLog deleted
   because nobody had logged for LOG_SAVE_DAY days, or because a thread took
   that day from the buffer of localtime. *)
AsyncTypeOK ==
    /\ limit \in Limits
    /\ {clock, m_today, tm} \subseteq Days /\ alive \in BOOLEAN
    /\ \A n \in Names : files[n] = Absent \/ files[n] \in Seq(0 .. MaxLines)
    /\ m_fp => files[<<m_today, 0>>] # Absent \/ clock >= m_today + LOG_SAVE_DAY
    /\ m_count \in 0 .. MaxLines /\ buffered \in Nat
    /\ pc \in [Threads -> {"idle", "clocked", "converted", "stamped", "chosen", "push",
                           "direct"}]
    /\ {now, stamp} \subseteq [Threads -> 0 .. MaxDay]
    /\ line \in [Threads -> Lines \cup {NoLine}]
    /\ home \in [Lines -> 0 .. MaxDay]
    /\ m_is_async \in BOOLEAN /\ ending \in BOOLEAN /\ m_fp \in BOOLEAN
    /\ m_log_queue \in BQ!Ring(limit.max_queue_size, 0 .. MaxLines) \cup {NULL}
    /\ m_is_async => m_log_queue # NULL
    /\ writer \in {"none", "test", "pop", "asleep", "write", "ended"}
    /\ {written, flushed} \subseteq 0 .. MaxLines \cup {NoLine}
    /\ control \in {"open", "flush", "flushWrite", "clearFlag", "wakeUp", "join",
                    "closeFile", "closed", "deleted"}
    /\ lost \subseteq 0 .. MaxLines /\ safe \subseteq Lines
    /\ spoiled \subseteq Days

(* CLog.cpp line 353, "to prevent a deadlock": whoever closes the log never
   waits for a writer that sleeps, whether the queue is empty, full or just
   being filled when the log is closed. *)
WriterEnds == control = "join" => writer # "asleep"

(* Every line is in one place: with the thread that logs it, in the queue,
   with one of the two that pop, in a file or the buffer of it, or lost; and
   only these lines are lost: what push refused because the queue was filled
   behind the back of full(), what was in the queue when the log was closed,
   what was written while no file could be opened, and what the end of the
   program found in a thread, in the queue or in the buffer. *)
LinesAccounted ==
    \A l \in 1 .. logged :
        LET Queue == IF m_log_queue = NULL THEN << >> ELSE BQ!Elements(m_log_queue)
        IN  Cardinality({t \in Threads : line[t] = l})
              + Cardinality({i \in DOMAIN Queue : Queue[i] = l})
              + Cardinality({h \in {"writer", "flush"} :
                               l = IF h = "writer" THEN written ELSE flushed})
              + (IF home[l] # 0 THEN 1 ELSE 0)
              + (IF l \in lost THEN 1 ELSE 0) = 1
=============================================================================
