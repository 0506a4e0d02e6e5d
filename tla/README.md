# TLA+ models of mytcpdump

mytcpdump captures packets with libpcap, analyses their Ethernet, IPv4, TCP and
UDP headers in a pool of worker threads, and shows or records the result.  This
directory holds TLA+ specifications of its parts, TLC configurations that check
them on small instances, and TLAPS proofs, for instances of every size, about
every part but the parser of the configuration file.  Paths such as
`source/TaskQueue.cpp` are relative to `src/`.

    cd tla
    tlc -config MCTaskQueue.cfg MCTaskQueue        # one run
    tlapm TaskQueue_proofs.tla                     # the proofs of one module

## 1. The system

    libpcap --CallBack--> capture thread --CTaskQueue--> worker threads
            --CACQueue--> output thread --> callbacks and log file

`main` (`source/main.cpp`) starts three `CDealProtPkg` threads, one
`COutProtPkg` thread and one `CMyPcapDump` thread, and then sleeps for ever.

| Component | State | Operations | Makes it correct |
|---|---|---|---|
| `CTaskQueue` (`source/TaskQueue.cpp`) | ring of pointers, two pointers into it, two semaphores, two mutexes | `Push`, `Pop` (both block), `IsEmpty` | FIFO; no slot lost, reused too early, or worked on by two threads |
| `AnalContent` (`include/TaskQueue.h`) | one packet: raw bytes, content, addresses | constructor copies, `operator=` copies deeply, destructor, `acInit` | each buffer has one owner, is freed once, and goes with the members of its packet |
| `CACQueue` (`source/ACQueue.cpp`) | ring of packets by value, size and two indexes, one mutex and one condition variable | `Push` (refuses when full), `Pop`, timed `Pop`, `Clear` | FIFO of what was accepted; nobody sleeps next to a packet |
| `CDealProtPkg` (`source/DealProtPkg.cpp`) | the packet a worker holds | `Run`: pop, analyse, push a copy, delete | every packet gets exactly one fate; the worker never blocks on output |
| Protocol analysis (`ProtocolAnalysis.cpp`, `TcpProtoAnal.cpp`, `UdpProtoAnal.cpp`) | fields of the packet | dispatch on EtherType and IP protocol, length arithmetic | content lies inside the frame and covers the user data |
| `COutProtPkg` (`source/OutProtPkg.cpp`) | list of functions, mutex, exit flag, record file | `Run`, `SetDealPkgFunc`, `PthreadExit` | every packet reaches every function registered before it once, and the file; it can be stopped |
| `CMyPcapDump` (`source/MyPcapDump.cpp`) | pcap handle, exit flag | init, `SetFilter`, `StartPcap`, `AbortPcap`, `ClosePcap`, `CallBack` | no use of a closed handle; an abort ends the loop |
| `Instance` functions | a static pointer each | lazy creation without a lock | one object, used by all |
| `inipares/iniconfile.c` | tree of sections, each a tree of keys; a parser | parse, get, set, delete, save | a get answers what was last set; what is malformed by the format, and only that, is refused; saving and reading again changes nothing that a file can hold |
| `CAnalIni` (`source/SFTool.cpp`) | eight settings | read once from `config.ini` | - |
| `wlog` (`CLog.cpp`, `BlockQueue.h`) | log file, line counter, optional queue and writer thread; a signal handler | write, rotate, delete old, close, reopen, flush | no line disappears without a reason; closing does not hang; a crash is recorded |

The threads share the two queues, the static pointers and the log; libpcap calls
back on the capture thread; the output thread calls the user's functions.  The
hard behaviours are the two queues (one pair of threads per lock, nothing that
covers both ends), the creation race, the loss of packets when the output is
slow, the length arithmetic on packets with options or padding, on fragments and
on short frames, the comparison functions of the configuration tree, the log's
change of file under two locks and its lines in the buffer of stdio, the buffer
that all calls of `localtime` share, the end of the log's writer, a crash while
others log or create the log, and the order of start, abort and close, which
other threads choose.  `PROJECT.json` lists the hazards, each at its line.

## 2. The modules

| Module | Models | Role |
|---|---|---|
| `BoundedFifo` | what `CTaskQueue` promises | abstract specification |
| `TaskQueue` | `source/TaskQueue.cpp` | detailed specification |
| `TaskQueue_proofs` | | theorems about `TaskQueue`, and that it implements `BoundedFifo` |
| `LossyFifo` | what `CACQueue` promises | abstract specification |
| `ACQueue` | `source/ACQueue.cpp` | detailed specification |
| `ACQueue_proofs` | | theorems about `ACQueue`, and that it implements `LossyFifo` |
| `Pipeline` | the threads, by INSTANCE of `TaskQueue` and `ACQueue` | composition |
| `Pipeline_proofs` | | theorems about `Pipeline`, by INSTANCE of the two modules of proofs above |
| `Singleton` | the `Instance` functions | detailed specification, and theorems about it |
| `ProtoAnal` | what a worker makes of one packet | detailed specification |
| `PacketPath` | the buffers of `AnalContent`, from the card to the output | extends `ProtoAnal` |
| `PacketPath_proofs` | | theorems about `ProtoAnal` and `PacketPath` |
| `IniConfig` | the trees of `inipares/iniconfile.c` | detailed specification |
| `IniConfig_proofs` | | theorems about `IniConfig` |
| `IniFile` | its parser and `ini_config_save`, and `CAnalIni` | extends `IniConfig`; recursive operators, for TLC only |
| `Log` | the files of `Log` in `wlog/source/CLog.cpp` | detailed specification |
| `BlockQueue` | `wlog/include/BlockQueue.h` | operators on a ring |
| `AsyncLog` | `Log` with its queue and writer, `CloseLog`, `OpenLog` | extends `Log`, by INSTANCE of `BlockQueue` |
| `AsyncLog_proofs` | | theorems about `Log`, `BlockQueue` and `AsyncLog` |
| `CrashLog` | `CWriteLog` and `_signal_handler` | how the process ends |
| `Capture` | `source/MyPcapDump.cpp` and the control thread | extends `CrashLog` |
| `Output` | `source/OutProtPkg.cpp` | extends `CrashLog` |
| `Lifecycle` | the program from `main` to its end | composes `Capture`, `Output` and both abstract queues |
| `Lifecycle_proofs` | | theorems about `CrashLog`, `Capture`, `Output` and `Lifecycle` |
| `MC*` | constants for TLC | |

An operator whose comment begins with "Bug" is a plausible mistake in the
definition that follows it.  No specification uses it; it is there to be put in
the place of that definition, to see that a property notices.

## 3. From the code to the models

**`TaskQueue`.**  `sem_t` counters are numbers, a mutex is its owner or
`Nobody`, `m_cacheProducer` and `m_cacheConsumer` are slot numbers between
`m_cacheHead` (0) and `m_cacheTail` (`TASK_QUEUE_LEN - 1`), and `cache` is what
the slots hold.  `pc[t]` is the line thread `t` has reached; each library call
and each access to shared memory is an action: `PushCall`, `PushWait`,
`PushLock`, `PushStore`, `PushAdvance`, `PushUnlock`, `PushPost`, and the same
for `Pop`.  `IsEmpty` is an operator, because the code evaluates it without a
lock in whatever state it finds.  `BoundedFifo` knows the queue, how
far the call of each thread has got, and its argument or result; `TaskQueue`
implements it, where an item enters the queue at `PushAdvance` and leaves it at
`PopLoad`.

**`ACQueue`.**  Every operation of `CACQueue` holds the one mutex from its first
line to its last, except while it waits; an operation, or the part of it on one
side of a wait, is one action.  `m_front` and `m_back` are numbers modulo
`WordMod`, which stands for 2^32, and start at `WordMod - 1`.  A waiter is
`woken` by a broadcast or for no reason at all (`SpuriousWake`).  The wait of a
timed one may also end at any moment (`TimedPopTimesOut`); it has yet to get the
mutex back, pushes may come first, and it then answers false whatever the queue
holds (`TimedPopGivesUp`).  `PopFails` is the error of `pthread_cond_wait`.  The
timed `Pop` has no return statement on success: its answer is either of the two
there (`TimedPopTakes`), or it runs on into the code behind and the process ends
(`TimedPopRunsOn`).  `Clear` resets the indexes and leaves the slots.  `LossyFifo` is
the promise: FIFO, a packet offered to a full queue is refused, a pop may give up.

**`Pipeline`** instantiates both queues on its own variables, so that no step of
theirs is simplified.  `CallBack` is `new AnalContent` and the call of `Push`;
`Start`, `WorkerPop`, `Analyse` / `Ignore`, `PushAccepted` / `PushRefused` and
`Delete` are the loop of `CDealProtPkg::Run`; `OutWaits`, `OutTakes` and `Deal`
that of `COutProtPkg::Run`.  `heap` says which frame is in the `AnalContent` at
each address, so leaks, double deletes and reuse of an address show.
`ignored`, `dropped` and `delivered` are the possible fates of a frame.

**`Singleton`** splits `Instance` into the test, the creation and the return.
The static pointer is a plain variable that several threads write, so `Return`
may yield the value known before or a fresh load.  `Push` and `Pop` count the
packets in each object; their inside is the business of `TaskQueue`.

**`ProtoAnal`** takes one frame through `DispatchEther`, `DispatchIp`,
`AnalyseTransport` and `Filter`.  A frame is its header and data lengths
(`Wire`), whether it is a later fragment, which has no transport header, and by how
many bytes its headers are cut short; the code's own idea of them is what
`sizeof` gives (`EthHeader`, `IpHeader`, `TcpHeader`, `UdpHeader`).  The difference of
the two is what the properties are about.  Lengths are numbers modulo `WordMod`.  The
code looks at no length: behind the end of a short frame the protocol is whatever the
memory holds (`ProtocolAt`), and a length that has wrapped (`Overrun`) ends the process,
unless `malloc` refuses it.

**`IniConfig`** has a tree as a function from the places of its nodes, where the
place of a node is the sequence of turns on the way to it from the root.  `End` is where the
loop of insertion, lookup and deletion stops, at a node or at a missing child;
insertion compares with `memcmp` over the length of the new key, lookup with
`strcmp`.  `With` stores a node there.  `Spare` is the node that
`config_btree_delete_node` puts in the place of the deleted one, `Extreme` the loop that finds
it, and `Moved` says where each node gets: the branch of the spare node moves up by
one.  An action is one call of the interface, `Header`, `SetString` or
`DeleteKey`; `expected` records what a reader of the interface would expect back.
`config_btree_delete_node` is exported and documented, but nothing in the
repository calls it.

**`IniFile`** is the parser: `Jump` is its table of functions, each of which is
an operator from one `PARSER` to the next, named as in the code; `Parse` is the
loop.  Bytes are numbers and keep their order; a parser with `isGBK` takes two
bytes at a time from 128 on.  What the bytes of a file stand for is defined a second
time, by the format and not by the parser: `Starts` says which bytes begin a character,
`Entries` what the headers and the key of a line are, `Reading` leaves out the comments,
`WellFormed` and `Meaning` are what there is to compare with.  `ini_config_save` writes
the trees back.
`CAnalIni` reads members with their two defaults, for a missing key and a
missing file.  `Load` is the start of the program, `Edit` a call of the library.

**`PacketPath`** adds memory to `ProtoAnal`: `heap[a]` is what the buffer at `a`
holds.  An `AnalContent` has its two buffers, their lengths, and the frame its
other members are from, in two groups because `acInit` forgets to reset the time,
`wIpId` and `wIpOffset`.  `Construct`, `Destroy`, `Assign` and `acInit` are its
functions.  A packet is allocated, analysed, copied into the slot of
`CACQueue`, deleted, and copied on into the one `AnalContent` of the output
thread, while the next one is on its way.

**`Log`** is `Log::WriteLog` as it deals with files.  A call is five actions: `Clock`
reads the clock, `localtime` writes that day into the one buffer it has (`tm`), `Stamp`
copies the buffer, in which another thread, or `DelLog`, may have left another day;
then `ChooseFile` is the first critical section and `Write` the last one.  `ChooseFile`
has the code's cases: `NextDay` and `NextPart`, which contain `DelLog` and in which
`fopen` may fail (`Create`), `NoFile`, the `fclose(NULL)` after such a failure,
which ends the process, and `SameFile`.  Without a file a line is `Dropped`.  `files` is
the directory; `<<d, k>>` is part `k` of the log of day `d`.  The last `buffered` lines
of the open file are still in the buffer of `m_fp`: `Flushed` empties it, and `Ends`, the
end of the process by a signal or a crash, cuts any number of them off.  `Restart` is
that and `Log::Init`.

**`AsyncLog`** puts `BlockQueue` and `async_write_log` in between.  `AskQueue` is
`full()` and `PushLine` the push behind it, two critical sections; the writer
is `WriterTests`, `WriterPops`, `WriterWrites`, with a sleep that only a
broadcast (`Woken`) or `WriterWakesUp` ends; if the last `fopen` failed it writes to
`NULL` (`WriterCrashes`).  `Flush`, `FlushMem`, `Close` and `OpenLog` are
called by one control thread: `CloseLog` and `~Log` are `ClearFlag`, `WakeUp`,
`Join`, `CloseFile`.  The callers' part of the bargain is in the guards: threads
log while the log is open, and are not inside `WriteLog` when it is closed.
`lost` records which lines the code throws away.

**`CrashLog`** has the ways the process ends: `exit(0)`, a fault before
a `CWriteLog` exists (`killed`), and the handler, in the thread that crashed:
`Record`, `CloseFileLog`, `HandlerExits`, while the others run on.  `GetInstance` has no
lock: the handler is installed by `Construct`, and only `Store` makes the object known,
so several threads may construct one each, and a handler may find another object than
it was installed by.  A line is logged under the mutex of its log (three critical
sections of the code are one here), where the thread may fault as well
(`WriteLogFaults`) and leave the mutex locked.  Several threads may crash; two that
close the log at once may both find its file open (`CloseFaults`).

**`Capture`** is the control thread (`MyPcapDumpInit`, `SetFilter`, `Start`,
`AbortPcap`, `ClosePcap`) and the capture thread (`StartPcap`, line by line).
libpcap is `alive` (the open handles) and `break_loop` (a flag per handle, which
the loop looks at before each packet and clears when it leaves).  The loop looks at
nothing while it is in a read (`LoopReads`), until a packet comes (`CallBack`),
the time-out, if there is one, runs out (`ReadTimesOut`), or the device fails
(`LoopFails`).  `main` ignores
what initialisation and filter return, so a `NULL` handle gets as far as
`pcap_loop`.  `main` itself never aborts nor closes; the functions are public and
documented, and the model calls them from the control thread.

**`Output`** is `COutProtPkg::Run`: `m_mutex` is held from `OutLocks` to
`OutUnlocks`, one `OutCalls` per function in between.  `SetDealPkgFunc` and
`PthreadExit` may come at any moment.  `m_fp` is `undefined` if `writePkg` is 0,
and may then read as `NULL` or not.

**`Lifecycle`** joins these.  Between capture and output it has one worker and
the two queues as `BoundedFifo` and `LossyFifo` promise them (one blocks, the other
refuses), because `taskqueue` and `acqueue` check that the code keeps those
promises.

Undefined behaviour is a choice of what compilers make of it.  `CloseWaits`: the
loop on `m_bExitFlg` has no effect a compiler must keep; g++ 12 with the
Makefile's `-O2` removes it, and with `-std=gnu++98` reads the flag once and then
loops for ever.  So it may go on at once, go on when the flag is set, or
hang.  `InitRunsOn`, `CaptureRunsOn`, `OutRunsOn`: a function that must return a
value and does not may end without a return instruction; g++ 12 does that to
`MyPcapDumpInit` and to `CThread::ThreadFunc`, older ones return.  The model has
both outcomes, and a fault for what follows the first.

## 4. The runs

States are distinct states found by TLC.

| Run | Instance | Shows |
|---|---|---|
| `taskqueue` | 2 pushers, 2 poppers, 3 slots, 2 items | `Exclusion`: one thread between lock and unlock. `Accounting`: no slot lost or granted twice. `Position`: the two pointers, under different locks, stay in step. `IsEmptyAnswer`: `IsEmpty` says true for an empty and for a full ring. `FifoSpec`: the refinement of `BoundedFifo` |
| `acqueue` | 2 pushers, 2 poppers, size 3, `WordMod` 16 (265,004) | `RingShape`: front, back and size agree through the wrap. `NoLostWakeup`: nobody sleeps next to a packet. `LossySpec`: the refinement of `LossyFifo`, with timeouts that meet a push |
| `pipeline` | 2 workers, 4 frames, rings of 2 and 2 (714,297) | `OneOwner`: no leak, no double delete. `EveryFrameOnce`: exactly one fate. `OvertakenByWorkersOnly`: the only source of disorder is the pool; both queues and the output keep the order they get |
| `pipeline_live` | 1 worker, 4 frames, rings of 1 (45,315) | `EveryFrameSettles` and `CaptureGoesOn` |
| `singleton` | 2 workers, 3 objects, 3 frames | `StaysSettled`, `SurvivorServed`, nobody uses `NULL` |
| `protoanal` | every pair of 84 frames, both `useNullPkg` (893,095) | `ContentInside`: a length wraps only without a whole transport header. `UserDataKept`, `PlainContentExact`, `UserDataForwarded`: no user data is lost but what a later fragment has in the place of a header. `OneOwnerPerBuffer`: no buffer leaked, shared, freed twice. `OfOneFrame`: the output never has parts of two packets |
| `iniconfig` | 2 sections, 1 + 5 keys, 2 values, files of up to 3 of 17 lines, and all of up to 4 of 8 bytes (27,836) | `GetAnswersLastSet`, `SearchTrees`, `NodesCounted`, when no key begins another. `RefusedIfMalformed`: a file is refused if and only if it is malformed by the format. `RoundTrip`: save and read again, if the lines can be read at all |
| `log` | 2 threads, five scenarios (1,378,186) | `LinesKept`, `FilesBounded`, `OldLogDeleted`: the files. `WriterEnds`: closing never waits for a sleeping writer. `LinesAccounted`: every line is in exactly one place, or lost for one of the reasons it lists |
| `lifecycle` | 2 handles or 2 packets, queues of 1 (244,893) | `HandleAlive`: the loop never runs on a closed handle. `AbortEnds`: an abort ends the loop, if no read lasts for ever. `RegisteredServed`: functions and file get every packet once. `ExitHonoured`: the output can be stopped. `CrashRecorded`: a crash ends the program, and is in the crash log, unless it happened inside `WriteLog` |
| `singleton_race`, `protoanal_empty`, `iniconfig_prefix` | | the findings of section 7, each a counterexample |

Why the bounds are enough.  Every safety property of a passing run but
`RefusedIfMalformed` and `RoundTrip` is also a theorem (section 5), so there the
bounds are those of a first test; they matter for liveness and for the parser.

- Two threads on each side of a queue contend for its locks, and three slots let
  the pointers wrap while the ring is partly full, in every combination of a
  pusher and a popper in the middle.
- `WordMod` 16 is no multiple of 3, like 2^32, so a wrong wrap would show.
- In `pipeline` four frames fill the first ring, both workers, the second ring
  and the output thread in all combinations, so that frames are refused and
  overtake each other, and two of them in a ring show its order.  An address can be allocated again as soon as its packet
  is deleted.
  Three workers differ from two by symmetry only.
- In `pipeline_live` the output may stop.  One worker and rings of one packet
  are the smallest system in which the packets back up to the capture thread:
  one in the output thread, one in the second ring, one with the worker, one in
  the first ring.  Symmetry is off, as liveness requires.
- In `protoanal`, 0 and 4 bytes of IP options, 0 and 12 of TCP options, 0, 1, 6
  and 30 bytes of user data; later fragments with less data than a header, as much
  and one byte more; frames that end in the transport header, the IP header, before
  the protocol and behind the Ethernet header; with and without padding to 60 bytes.
  Lengths only add up, so every case distinction is met.  `WordMod` is 65536, more
  than twice any length, so that a difference that wraps lies behind every frame.  Two packets are enough for a
  buffer to be used again with, and without, content of its own, and seven
  addresses for three packets of two buffers and a copy.
- Five keys in one tree give nodes with two children whose predecessor is deep
  in the tree, the hard case of deletion.  The seventeen lines have each byte of the
  syntax in each place where it means something else, characters whole and halved,
  text around a header, and the ways to be malformed; three of them put a header, a key
  and a fault in every order.  The files of up to four bytes are there for what
  nobody thought of.  One of the two values has a blank at its start and a newline
  in it, so that configurations that cannot be saved are among those met.
- In `log` the constants are two lines per file and two days instead of
  2,000,000 and 15.  Four lines make two parts of one day.  `MaxLate` says that no
  thread sleeps inside `WriteLog` until the log of its day is due for deletion.
  `Limits` has a scenario per question.  Without a queue: the files over three changes
  of day; a restart, a call of the control functions and failing `fopen`s; two calls
  and failing `fopen`s.  A queue of one, which is full when a second thread looks, over
  a change of day, with failing `fopen`s; a queue of two with a restart and two
  control calls.  The first day has days before it, of which `localtime` can bring one
  back.  All bounds at their
  largest at once would only mix what does not interact.
- In `lifecycle` one scenario opens, starts, aborts and closes two handles, so that
  everything left over from the first can meet the second; the other follows two
  packets, among any number of others, while a function is registered next
  to `ShowAc` and the end is asked for.  Queues of one packet are full at once.
  `MCLifeSpec` leaves `writePkg` to the second scenario, as what the output does
  with a packet does not touch the capture.

`CHECK_DEADLOCK FALSE` stands where a system really stops: the network falls
silent, the bound on frames is reached, a worker waits on an abandoned queue, the
log has been deleted, or the program has ended or crashed.

### Fairness

`Pipeline!FairSpec` has weak fairness of the capture thread inside `Push`
(`CaptureStep`) and of each worker: a runnable thread is scheduled.  `CallBack`
has none, as the network need not send.  The output thread has none either,
because the user's callbacks and the file may block it; `CaptureGoesOn`
says that capture continues even so.  `EveryFrameSettles` states its own premise,
`WF_vars(OutStep)`.  Weak fairness of a worker is enough for a lock although
others compete for it: a frame makes progress whichever worker gets it, and the
single capture thread meets no competitor on the producer side.  In
`Singleton` each thread is weakly fair in what it is enabled to do.

`Lifecycle!LifeSpec` has weak fairness of the capture thread, the worker, the
second half of `SetFilter` and of the exit of `MyPcapDumpInit` (a log line does not take
for ever), and of each thread while it logs or is in the signal handler.  `CallBack`,
`ReadTimesOut` and `LoopFails` have none: packets may stop coming, and with
`timeOut = 0`, as `config.ini` ships, the read then never ends, and an abort with it.  So
`AbortEnds` has the premise that no read lasts for ever (`[]<>(capture # "read")`), which
holds if packets come or a time-out is set.  The control thread
and the output are not fair: `main` need not call anything, and the functions of
the user may block.  `ExitHonoured` states as its premise that they do not, and
that packets keep coming out of the queue, since `Pop` is where an exit request
waits.  No run assumes strong fairness.

## 5. The proofs

Each theorem below is `Spec => []P` for a property `P` of the runs, or
`Spec => A` for an abstract specification or an action property `A`.  Each rests
on an inductive invariant: it holds at first, every action keeps it, and it
implies `P`.  No proof uses fairness.

| Module | Theorem | States |
|---|---|---|
| `TaskQueue_proofs` | `TypeCorrect`, `MutualExclusion`, `SlotsAccounted`, `PointersInStep`, `IsEmptyCorrect` | `TypeOK`, `Exclusion`, `Accounting`, `Position`, `IsEmptyAnswer` |
| | `ImplementsBoundedFifo` | `FifoSpec` |
| | `NobodyDeadlocks` | if nobody inside a call can go on, all are pushes at a full ring or all pops at an empty one |
| `ACQueue_proofs` | `TypeCorrect`, `RingShapeCorrect`, `WakeupsKept` | `TypeOK`, `RingShape`, `NoLostWakeup` |
| | `ImplementsLossyFifo` | `LossySpec` |
| `Pipeline_proofs` | `PacketsOwned`, `FramesAccounted`, `WorkersOvertake` | `OneOwner`, `EveryFrameOnce`, `OvertakenByWorkersOnly` |
| | `QueuesKeepPromises` | `FifoSpec` and `LossySpec`, with the threads of the pipeline as users |
| `Singleton` | `UsesCreatedQueue`, `RaceEnds` | `TypeOK`, `StaysSettled` |
| `PacketPath_proofs` | `AnalysisInside`, `AnalysisKeepsUserData`, `AnalysisExact`, `FilterForwardsUserData` | `ContentInside`, `UserDataKept`, `PlainContentExact`, `UserDataForwarded` |
| | `BuffersOwned`, `PacketsUnmixed` | `OneOwnerPerBuffer`, `OfOneFrame` |
| `Lifecycle_proofs` | `LoopOnOpenHandle`, `PacketsServed` | `HandleAlive`, `RegisteredServed` |
| | `CrashLogComplete` | `CrashWritten`, the safety half of `CrashRecorded` |
| | `AbortReachesLoop`, `AbortNotForgotten` | `AbortReaches`, `AbortKept`: the safety half of `AbortEnds` |
| | `ExitNotForgotten` | `ExitKept`, the safety half of `ExitHonoured` |
| `AsyncLog_proofs` | `LogTypeCorrect`, `JoinEnds`, `NoLineVanishes` | `AsyncTypeOK`, `WriterEnds`, `LinesAccounted` |
| | `WrittenLinesStay`, `FilesStayShort`, `OldDaysDeleted` | `LinesKept`, `FilesBounded`, `OldLogDeleted` |
| `IniConfig_proofs` | `NodesAlwaysCounted` | `NodesCounted` |
| | `TreesStaySearchTrees`, `GettersAnswerLastSet`, if no name begins another | `SearchTrees`, `GetAnswersLastSet` |

### What is assumed

All constants are arbitrary but for what an `ASSUME` says, which TLC evaluates for the
values of the runs.  Sets of threads are finite, do not overlap, and do not
contain the marks for "nobody" and "nothing".  A ring has at least one slot, and the
width of an index exceeds the size of the ring (`WordAssumption`).  A frame is shorter
than 2^32 bytes and has at least its Ethernet header, and one that is cut off in
its headers has no data (`FramesAssumption`).  The heap has room for the six buffers of
three `AnalContent`s (`PathAssumption`): the code never looks whether `new` or the
`malloc` of a copy succeeded; the `malloc` of the analysis, which it does look at, may
fail at any time.  No thread is inside `WriteLog` for as many days as a log is kept
(`MaxLate < LOG_SAVE_DAY`, in the code 15 days); the day it writes down may be any that
was in the buffer of `localtime` meanwhile.  Names and keys are
nonempty strings without a zero byte (`StringsAssumption`).  Two theorems also have the
hypothesis `PrefixFree`: among the sections, and among the keys of each section, no
name is the beginning of another.  It is a hypothesis of these two and not an
`ASSUME`, because the code does not enforce it; `config.ini` meets it, and
`iniconfig_prefix` shows that the theorems fail without it.  The counts of days, lines,
frames and calls are arbitrary numbers.

### The arguments

**`TaskQueue_proofs`.**  `Accounting` is a sum: the two semaphores, and the threads
that have taken from one and not yet posted the other, add up to the number of
slots.  It is not inductive alone.  That a thread which moves changes exactly one
of the counts needs types, that the counts of advanced threads are 0 or 1 needs
`Exclusion`, and `Position`, the distance of the pointers, needs all three, so the
invariant is their conjunction

    IInv == Typing /\ Exclusion /\ Accounting /\ Position

The refinement needs one fact more, `Stored`: between store and advance the slot
at the producer pointer holds the item of the thread that stores.  No pop can touch
that slot, since the semaphore for it is posted only after the advance.  Then
`PushAdvance` appends that item to the abstract queue, `PopLoad` removes the first
one, and every other step leaves the abstract queue alone; that last part is
where `Position` is needed, since the slots of the queue are counted from one
pointer and the steps move the other.

`NobodyDeadlocks` follows from the same invariant: by `Exclusion` the owner of a mutex is
never one of those who wait, so nobody waits for a mutex, and then by `Accounting`
the two semaphores add up to the number of slots and are not both zero.

**`ACQueue_proofs`.**  The invariant is the conjunction of the three properties: the
index arithmetic of `RingShape` needs the types, a pop that takes needs the shape to
show that its slot is inside the array, and `NoLostWakeup` needs the range of
`m_size`.  With it, a push appends to the abstract queue, a pop takes its head,
and `Clear` empties it; a timeout leaves it alone, whether a packet is there or not.

**`Pipeline_proofs`** instantiates the proofs of both queues, as `Pipeline` instantiates
the queues.  `TasksSpec` and `OutputsSpec` show that the threads of the pipeline use
each queue as its specification allows, so all that is proved of the queues
holds here, at every step.  On top of it:

    PipelineInv == TasksInv /\ AQP!IInv /\ PacketInv /\ FateInv

`OvertakenByWorkersOnly` has two halves: what the output holds and has delivered only
grows at its end, by a frame a worker pushes, which is what `LossyFifo` says of
`CACQueue`; and the frames still in `CTaskQueue` are the latest.  `PacketInv` says that
the allocated addresses are those of the threads that own a
packet and those in the queue, each once, and that the frames in the queue are the
latest captured, in order.  `EveryFrameOnce` counts places, and such a count is
only kept by a step if it is kept for every number: `FateInv` says `Total(n) = 1` for
the frames captured and 0 for those to come.  For an address to stand for one
frame, the content of the heap must be injective, which is part of `Typing`.

**`Singleton`.**  What a thread has seen once it is past the test is a queue
that was created, by whom does not matter; the pointer never becomes `NULL` again.

**`PacketPath_proofs`.**  `AnalInv` says which frames reach which stage of the
analysis, and that the content then starts behind the headers of fixed length and
goes on to the end of the frame.  A subtraction that wraps puts the end of the content
behind that of the frame, which only a frame can do that is shorter than those headers:
by the headers a frame has at least, it is a later fragment or one that is cut off.  `HeapInv` lays the six pointers of the
three packets out as one function: it is injective where it is not `NULL`, its range
is what is allocated, and the buffers of a packet are of its frame.  Each of
`malloc`, `free`, `Construct`, `Assign`, `Destroy` and `acInit` is then a change of one
or two fields.  That six addresses are enough follows by counting, as a field
that is about to be set is `NULL`.

**`Lifecycle_proofs`.**  `CaptureInv` relates the two threads: unless `ClosePcap` went on
without having waited, a capture thread that is active means that the control
thread is at one of three lines, that the flag is not set, and that the handle
given to the loop is the current one.  `OutputInv` gives for each function the
stretch of packets it was called with; that nobody registers in the middle of a
round of calls follows from `m_mutex`, and that the packet at hand is the last one
dealt with is needed to extend the stretch by it.  `CrashLogComplete` rests on the fact
that every `CWriteLog` that was constructed is open until a handler has recorded its
crash, so that the first handler to record finds its crash log open, whichever object
it got and whoever else is in a handler.

`AbortReachesLoop` needs `CaptureInv`, since `AbortPcap` marks `m_Handle` and the loop
looks at its own handle (before it begins a read), and `BreakInv`: a mark may outlive its handle, but is
never one of a handle not yet opened.  The action properties `AbortKept` and
`ExitKept` say of every step of every thread that it leaves a request alone; that
something then happens is what TLC checks in `AbortEnds` and `ExitHonoured`.

**`AsyncLog_proofs`.**

    LogInv == ThreadInv /\ QueueInv /\ FilesInv /\ AccountInv /\ SafeInv
                /\ KeptInv /\ SizeInv

- `ThreadInv`: a thread in `WriteLog` has read the clock no more than `MaxLate` days ago
  (`Lively`), its stamp is that day or one that is `spoiled`, and `m_count` is at most
  the number of lines logged whose threads have chosen a file.
- `QueueInv`: the queue exists as long as its writer, nobody logs while the log is
  closed, and whoever joins the writer sees it either awake or about to find the
  queue not empty.  The ring is `Coherent` (front, back and size agree), so `push`
  and `pop` are `Append` and `Tail` on its elements.
- `FilesInv`: an open file exists (`HasFile`), the parts of a day that is not spoiled
  have no gaps (`DelLog` stops at the first part that is missing, so it deletes all
  of them only because of this), and nothing is written to a day already swept.
- `AccountInv`: the places of a line (a thread, the queue, the writer, `FlushQueue`,
  a file, `lost`) count to 1 for the lines logged and to 0 for later ones.
- `SafeInv`: only an open file has a buffer, which is no longer than the file, and no line
  that was flushed is among the lines in it, so that cutting them off loses none.
- `KeptInv`: a line is in a file of its own day, in one place only, and stays there; the
  parts still to come of today do not exist, so a rename replaces nothing.  A rename
  moves all lines of the file at once.
- `SizeInv`: the lines of today's file and those on their way to it (`Flight`: with
  threads, in the queue, popped, and the line that ends the writer) exceed
  the count since the last change of part by at most `Most` (`Fits`), until a crash
  in the middle of a change; from it follows the bound on each file (`Short`).  A bound
  on the file alone is not inductive, since a line is counted before it is written.

`LinesAccounted` follows from `AccountInv`, whose shape is the same;
`OldLogDeleted` from `FilesInv`; the others from the part named like them.

**`IniConfig_proofs`** is about trees of every size.  Nothing in it is an induction
over trees: that a loop ends, and at one place only, is shown by taking the least
number of turns at which it does not (`LeastNat`).

`NodesAlwaysCounted` rests on `SectionsShape`: each tree is finite, closed under the way
to the root, and counted.  `Put` adds a place or none; `Delete` is a bijection
between the nodes that remain and their new places (`Moved`), and the shape
is kept because no node is left below the one that moved.  It needs nothing about keys.

The other two theorems share the invariant

    SearchInv == SectionsSearch(config) /\ Answers(config)

- `SectionsSearch`: each tree is also `Ordered`, each node's key being greater than
  all keys of its left branch and smaller than those of its right one.
- `Answers`: the getters answer `expected`.

Insertion keeps the order because `memcmp` and `strcmp` agree on names
of which none begins another (`MemcmpIs`, `StrcmpIs`).  Deletion keeps it
because the last node of a branch lies beyond all other nodes there (`LastBeyond`).  In
an ordered tree the lookup of a key gets to the node with that key if there is one
(`HasIs`, `OwnPlace`), so it does not matter for `Answers` where a node was moved to.

## 6. Only checked by TLC

- Liveness, which the prover does not handle: `EveryFrameSettles`, `CaptureGoesOn`,
  `SurvivorServed`, `AbortEnds`, `ExitHonoured`, and of `CrashRecorded` that the handler
  ends the process.
- `IniFile`: `RefusedIfMalformed` and `RoundTrip`.  The parser is a recursive
  operator over the bytes of a file; what it makes of every file needs induction
  over that sequence, and the prover takes no recursive operators.  The theorems on
  `IniConfig` are about its own `Spec`, in which a file is what its lines amount to,
  one `Header` or `SetString` each.

## 7. Where code and documentation differ

- `singleton_race`: the README promises one queue between capture and
  workers; the unlocked `Instance` can make two threads use two, in the trace two
  workers, by the same race a worker and the capture thread.  The run `singleton` shows what remains true.
- `protoanal_empty`: with `useNullPkg = 0` empty packets are to be thrown away; a
  TCP packet with options, or any short packet with Ethernet padding, seems
  to have content and is forwarded.
- `iniconfig_prefix`: a getter answers the value of its key, says the header; after
  `ab` and then `a` are set, the node of `ab` is `a`'s, because `memcmp` looks at one
  byte.  The keys of `config/config.ini` do not meet this case.

The models also have, as the code does, what no document speaks about.  These are
listed as hazards and not as findings:

- `LinesKept` excludes the days in `reopened`, and that exclusion is real:
  a thread that read the clock before midnight and gets the mutex after another
  one has opened the new day turns the log back, and `fopen(.., "w+")` then empties
  a log that holds lines.  So does one that copied another day from the buffer of
  `localtime`, into which `DelLog` writes the day it deletes: that log begins anew, and
  the next thread empties the log of today.  After a restart the parts of a day are
  numbered from 1 again and replace those of before.
- `OldLogDeleted` excludes the days in `spoiled`: those of that buffer, and
  a day of which a part was renamed while `fopen` then failed, for `DelLog`
  stops where the first file is missing.  A day on which no line is logged
  is not swept at all, and the log that was due for deletion on it stays for good.
- `SIGINT` has no handler (line 415 is commented out), so the program normally
  ends with lines in the buffer of `m_fp`; these are lost.  `LinesKept` says that the
  flushed ones are not.
- If `fopen` fails as the file changes, lines are dropped (line 258), the next change of
  file calls `fclose(NULL)`, and a writer thread `fwrite` with `NULL` (line 310).
- `LinesAccounted` counts lines as `lost`: those refused because the queue was
  filled between `full()` and `push()`, those in the queue when the log is
  closed, because `FlushQueue` looks at the flag that `CloseLog` has just cleared, those
  dropped for want of a file, and those that the end of the process takes with it.
- A fragment behind the first one of its datagram is analysed as if it had a TCP or UDP
  header: its first 20 or 8 bytes of data are cut off; with just as many it is thrown
  away as empty, with `useNullPkg = 0`; with fewer, as with a frame that ends in its
  headers, the length wraps and `memcpy` of nearly 4 GB ends the process.
- A thread that faults inside `WriteLog` holds the mutex that its own signal handler
  waits for in `CloseFileLog`: the process hangs instead of ending (`CrashRecorded`
  excepts it).  The line itself is the format of `vsnprintf` (line 468), and a line longer
  than the buffer is written behind it (line 244).
- With `timeOut = 0`, as `config.ini` ships, and no packet, `AbortPcap` has no effect
  until a packet comes.
- The parser takes a line like `a[b]c=7` for a header `b` and a key `c`, and skips a line
  without `=`, without a word.  `ini_config_set_string` takes values with blanks at their
  ends or a newline, which come back trimmed or cut in two from a file; a key that begins
  with `;`, which a blank before it lets through, is saved as a comment.
- `OpenLog` deletes the log of `LOG_SAVE_DAY` days ago even if it is the one that
  is open, which needs that nobody logged since.
- `HandleAlive` and `AbortEnds` make an exception once `ClosePcap` went on without
  having waited (`unwaited`): then the handle is closed under the running loop.
- With a single device `MyPcapDumpInit` reads the name through `NULL`
  (`InitCrashes`); its result and that of `SetFilter` are ignored, and `SetFilter`
  on a `NULL` handle returns 0, which elsewhere means success.
- Without `writePkg`, `m_fp` is never set, and whether the output thread starts
  or ends the program depends on what the memory held (`OutExits`).
- An exit request that comes before `Run` has begun is lost (`ExitHonoured` begins
  behind it).
- `networkName` defaults to "eth0" if the key is missing and to no name if the file
  is; the comment in `config.ini` names only the second.
- The signal handler is also installed for `SIGUSR2` and then flushes the log;
  if it interrupts `WriteLog` it waits for a mutex of its own thread.

## 8. Not modelled, and the plan

Not modelled: `CSFTool` (prints bytes), the type definitions, the vendored
headers of libpcap, the wording of the log and of the packet record, failing
`malloc` and `new` (but for the analysis, where the code looks at the answer), the
destructors of the queues and of the capture, which never run, the flush on
`SIGUSR2` and `OpenFileLog`, functions of `BlockQueue` that nobody calls,
`config_btree_destroy`, and a callback that registers another one.

What the models leave out of the parts they do have:

- Frames: a device hands over at least an Ethernet header, and all of a frame:
  `maxMtu` is not below the frames of the network.
- `Pipeline` does not have `pthread_cond_wait` failing, nor the timed `Pop` and `Clear`,
  which nothing in the program calls; `ACQueue` has all three.
- The parser: half a character at the end of a file, behind which it reads on; with
  `isGBK`, which the only caller does not set, byte 127, for which its table has no
  entry; section names of 64 bytes and more, which do not fit its buffer.  The UTF-8 mark
  at the start of `config.ini` makes its first line no comment, but one without `=`.
- The log: what was passed to the system is in the file, so a power failure is left
  out; a line that is cut in two by the end of the program counts as lost.
- The crash handler: it calls functions that a signal handler must not call (`malloc`,
  `printf`, the log's own mutex but for the fault inside `WriteLog`), and may itself
  fault; of that the model has `CloseFaults` only.  A record that `exit` has not
  flushed, because the handler hangs, is still in a buffer of stdio.

Every safety property of the runs that the prover can express is proved (section 6
has the others), and with `AbortKept`, `ExitKept` and `CrashWritten` the safety half of
the liveness properties of `Lifecycle`.
