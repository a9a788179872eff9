------------------------------ MODULE Debugger ------------------------------
(***************************************************************************)
(* The ptrace debugger of ceserver (api.c, threads.c): one debugged        *)
(* process, its ProcessData, the connection thread that debugs it and the  *)
(* kernel's view of every thread of the target.                            *)
(*                                                                         *)
(* Every call runs in the debugger thread, by a command of its own         *)
(* connection or by one that another connection sent through the socket    *)
(* pair.  `call` is the call that waits in WaitForDebugEventNative.  While *)
(* its sem_timedwait loop runs, CheckForAndDispatchCommand may start one   *)
(* more on top of it, and it becomes `interrupted`; debugsocketmutex       *)
(* admits one such command at a time, so no third call is ever started.    *)
(*                                                                         *)
(* Threads are numbered in the order in which /proc/pid/task lists them;   *)
(* a call for all threads (tid -1) is the sequence of its single calls.    *)
(***************************************************************************)
EXTENDS Integers, Sequences

CONSTANTS
  N,          \* number of threads of the target; thread 1 carries the pid
  MaxTries,   \* attempts of a temporary stop (10 in the code)
  ClientOps,  \* the operations the clients of a run use, besides the loop
  Mortal,     \* the threads that may exit by themselves
  CanKill,    \* whether the whole target may be killed
  Garbage,    \* what a DebugEvent that nobody wrote may hold
  MaxTraps,   \* bound on the signals (other than SIGSTOP) the target raises
  MaxRequests \* bound on the commands other than those of the event loop

Tid == 1 .. N

ASSUME DebuggerAssumption ==
  /\ N \in Nat \ {0}
  /\ MaxTries \in Nat \ {0}
  /\ Mortal \subseteq Tid
  /\ CanKill \in BOOLEAN
  /\ Garbage \subseteq [tid : 0 .. N, ev : {"SIGTRAP", "SIGSTOP", "-1", "-2"}]
  /\ MaxTraps \in Nat /\ MaxRequests \in Nat

VARIABLES
  \* the kernel
  task,        \* per thread: not traced, running, in which stop, or dead
  unreported,  \* its stop or exit has not been collected by waitpid
  pending,     \* a SIGSTOP sent to the thread waits to be delivered
  procStop,    \* a SIGSTOP sent to the process waits to be delivered
  breakpoint,  \* the debug register: empty, or for whom it was written
  traps,       \* signals raised so far
  \* ProcessData
  isDebugged, threadlist, isPaused, suspendCount, suspendedDevent,
  debuggedThreadEvent, debugEventQueue,
  \* the debugger thread
  call,        \* the call that waits
  interrupted, \* the call that waits for `call` to return
  requests     \* commands served so far

kernel  == <<task, unreported, pending, procStop, breakpoint, traps>>
threads == <<threadlist, isPaused, suspendCount, suspendedDevent>>
process == <<isDebugged, threads, debuggedThreadEvent, debugEventQueue>>
calls   == <<call, interrupted>>
vars    == <<kernel, process, calls, requests>>

Signals == {"SIGTRAP", "SIGSTOP"}   \* SIGTRAP stands for all but SIGSTOP
Virtual == {"-1", "-2"}             \* create thread, create process
Event   == [tid : 0 .. N, ev : Signals \cup Virtual]
Ev(t, e) == [tid |-> t, ev |-> e]
NoEvent  == Ev(0, "-1")

\* The four calls that stop a thread for a moment differ in which thread
\* they then act on.
TempOps == {"SetBreakpoint", "RemoveBreakpoint",
            "GetThreadContext", "SetThreadContext"}
MemOps  == {"ReadProcessMemoryDebug", "WriteProcessMemoryDebug"}
AnyOps  == MemOps \cup {"WaitForDebugEvent"}   \* wait for any thread: tid 0
ThreadOps == TempOps \cup {"SuspendThread", "StartDebug", "StopDebug",
                           "spin", "crash"}
Places  == {"first",  \* before the first waitpid of an attempt
            "wait",   \* in sem_timedwait, or in the blocking waitpid
            "check"}  \* back from a command dispatched there
Tries   == 0 .. (MaxTries - 1)   \* attempts that timed out so far
Frame(o, t, n, a) == [op |-> o, tid |-> t, k |-> n, at |-> a]
NoCall  == Frame("none", 0, 0, "wait")
Frames  == [op : AnyOps, tid : {0}, k : Tries, at : Places] \cup
           [op : ThreadOps, tid : Tid, k : Tries, at : Places] \cup {NoCall}

Idle    == call = NoCall
Now(f)  == call' = f /\ UNCHANGED interrupted
Return  == call' = interrupted /\ interrupted' = NoCall

\* A dispatched command interrupts the call that waits, if there is one: that
\* call then looks at the queue and at waitpid before it can time out.
Checking    == IF Idle THEN NoCall ELSE Frame(call.op, call.tid, call.k, "check")
Enter(f)    == call' = f /\ interrupted' = Checking
Dispatch    == call' = Checking /\ UNCHANGED interrupted

-----------------------------------------------------------------------------
(* ptrace, waitpid and tkill.                                               *)

Stopped(t) == task[t] \in Signals
Traced(t)  == task[t] \notin {"free", "dead"}

\* PTRACE_GETSIGINFO fails on a thread that is not stopped.
GetStopSignalFromThread(t) ==
  IF t \in Tid /\ Stopped(t) THEN task[t] ELSE "-1"

\* PTRACE_CONT resumes a stopped thread, collected or not, and fails on others.
Resumed(t)   == [u \in Tid |-> IF u = t /\ Stopped(u) THEN "run" ELSE task[u]]
Collected(t) == [unreported EXCEPT ![t] = FALSE]
ContCollected(t) ==
  [u \in Tid |-> IF u = t /\ Stopped(u) THEN FALSE ELSE unreported[u]]
Tkill(t) == [pending EXCEPT ![t] = task[t] # "dead"]

(* threads.c and the event queue.                                           *)

Lowest(S) == CHOOSE i \in S : \A j \in S : i <= j

PausedThreads == {t \in threadlist : isPaused[t]}
FindPausedThread == IF PausedThreads = {} THEN 0 ELSE Lowest(PausedThreads)

\* Positions of the events for tid; tid 0 (-1 in the code) matches them all.
EventsFor(q, tid) == {i \in DOMAIN q : tid = 0 \/ q[i].tid = tid}
FindThreadDebugEventInQueue(q, tid) == q[Lowest(EventsFor(q, tid))]
RemoveThreadDebugEventFromQueue(q, tid) ==
  LET i == Lowest(EventsFor(q, tid))
  IN IF EventsFor(q, tid) = {} THEN q
     ELSE [j \in 1 .. (Len(q) - 1) |-> IF j < i THEN q[j] ELSE q[j + 1]]

-----------------------------------------------------------------------------
(* The target.                                                              *)

Trap(t) ==
  /\ task[t] = "run" /\ traps < MaxTraps
  /\ task' = [task EXCEPT ![t] = "SIGTRAP"]
  /\ unreported' = [unreported EXCEPT ![t] = TRUE]
  /\ traps' = traps + 1
  /\ UNCHANGED <<pending, procStop, breakpoint, process, calls>>

\* The thread's own SIGSTOP is dequeued before that of the process.
DeliverStop(t) ==
  /\ task[t] = "run" /\ (pending[t] \/ procStop)
  /\ task' = [task EXCEPT ![t] = "SIGSTOP"]
  /\ unreported' = [unreported EXCEPT ![t] = TRUE]
  /\ pending' = [pending EXCEPT ![t] = FALSE]
  /\ procStop' = (procStop /\ pending[t])
  /\ UNCHANGED <<breakpoint, traps, process, calls>>

Exit(t) ==
  /\ t \in Mortal /\ task[t] = "run"
  /\ task' = [task EXCEPT ![t] = "dead"]
  /\ unreported' = [unreported EXCEPT ![t] = TRUE]
  /\ pending' = [pending EXCEPT ![t] = FALSE]
  /\ UNCHANGED <<procStop, breakpoint, traps, process, calls>>

\* SIGKILL or exit_group: every thread dies, the stopped ones too.
Kill ==
  /\ CanKill /\ \E t \in Tid : Traced(t)
  /\ task' = [t \in Tid |-> "dead"]
  /\ unreported' = [t \in Tid |-> Traced(t) \/ unreported[t]]
  /\ pending' = [t \in Tid |-> FALSE]
  /\ procStop' = FALSE
  /\ UNCHANGED <<breakpoint, traps, process, calls>>

Target == Kill \/ \E t \in Tid : Trap(t) \/ DeliverStop(t) \/ Exit(t)

-----------------------------------------------------------------------------
(* StartDebug: reset the thread list, then attach to one task after the     *)
(* other.  An attach fails only on a thread that is traced already or is a  *)
(* zombie, which /proc/pid/task lists until waitpid has collected it.       *)

\* One more of the commands a run is bounded by.
Served == requests < MaxRequests /\ requests' = requests + 1

StartDebug ==
  /\ Idle
  /\ isDebugged => "StartDebug" \in ClientOps
  /\ Served
  /\ threadlist' = {}
  /\ Now(Frame("StartDebug", 1, 0, "wait"))
  /\ UNCHANGED <<kernel, isDebugged, isPaused, suspendCount, suspendedDevent,
                 debuggedThreadEvent, debugEventQueue>>

NextTask(t) == IF t = N THEN NoCall ELSE Frame("StartDebug", t + 1, 0, "wait")

AttachDead(t) ==
  /\ task[t] = "dead" /\ ~unreported[t]
  /\ UNCHANGED <<kernel, process>>

AddThreadToProcess(t) ==
  /\ threadlist' = threadlist \cup {t}
  /\ isPaused' = [isPaused EXCEPT ![t] = FALSE]
  /\ suspendCount' = [suspendCount EXCEPT ![t] = 0]
  /\ suspendedDevent' = [suspendedDevent EXCEPT ![t] = NoEvent]

AttachFails(t) ==
  /\ Traced(t) \/ (task[t] = "dead" /\ unreported[t])
  /\ AddThreadToProcess(t)
  /\ UNCHANGED <<kernel, isDebugged, debuggedThreadEvent, debugEventQueue>>

\* The first thread attached to opens the session.
Attach(t) ==
  /\ task[t] = "free"
  /\ AddThreadToProcess(t)
  /\ task' = [task EXCEPT ![t] = "run"]
  /\ pending' = [pending EXCEPT ![t] = TRUE]
  /\ isDebugged' = TRUE
  /\ debuggedThreadEvent' =
       IF isDebugged THEN debuggedThreadEvent ELSE Ev(0, debuggedThreadEvent.ev)
  /\ debugEventQueue' =
       (IF isDebugged THEN debugEventQueue ELSE Append(debugEventQueue, Ev(1, "-2")))
         \o <<Ev(t, "-1")>>
  /\ UNCHANGED <<unreported, procStop, breakpoint, traps>>

AttachTask ==
  /\ ~Idle /\ call.op = "StartDebug"
  /\ LET t == call.tid
     IN /\ AttachDead(t) \/ AttachFails(t) \/ Attach(t)
        /\ Now(NextTask(t))

-----------------------------------------------------------------------------
(* WaitForDebugEventNative, for the innermost call.                         *)

Timed(f)    == f.op \in TempOps \cup {"WaitForDebugEvent", "SuspendThread"}
Waits(f)    == Timed(f) \/ f.op \in MemOps
WaitsFor(f, t) == f.tid \in {0, t}
Waiting     == {t \in Tid : unreported[t] /\ WaitsFor(call, t)}

\* A queued event is looked for after a wake up, and before waitpid.
QueueFirst ==
  /\ Timed(call) /\ call.at # "first"
  /\ EventsFor(debugEventQueue, call.tid) # {}

\* Each caller's continuation takes the event de it waited for, the queue q and
\* the uncollected stops unrep that the wait leaves.

EventReported(de, q, unrep) ==
  /\ call.op = "WaitForDebugEvent"
  /\ debuggedThreadEvent' = de
  /\ isPaused' = [isPaused EXCEPT ![de.tid] = TRUE]
  /\ debugEventQueue' = q
  /\ unreported' = unrep
  /\ UNCHANGED <<task, breakpoint, suspendCount, suspendedDevent>>

ThreadSuspended(de, q, unrep) ==
  LET t == call.tid
  IN /\ call.op = "SuspendThread"
     /\ suspendedDevent' = [suspendedDevent EXCEPT ![t] = de]
     /\ suspendCount' = [suspendCount EXCEPT ![t] = @ + 1]
     /\ isPaused' = [isPaused EXCEPT ![t] = TRUE]
     /\ debugEventQueue' = q
     /\ unreported' = unrep
     /\ UNCHANGED <<task, breakpoint, debuggedThreadEvent>>

\* The debug register after op, asked for thread t, acted on thread w.
Written(op, t, w) ==
  [u \in Tid |->
     IF u # w \/ ~Stopped(u) THEN breakpoint[u]
     ELSE CASE op = "SetBreakpoint"    -> IF t = w THEN "given" ELSE "stray"
            [] op = "RemoveBreakpoint" -> "none"
            [] OTHER                   -> breakpoint[u]]

\* Mutant: the caller continues whatever stopped the thread.
TempStopContinues_Any(de, q, unrep) ==
  /\ task' = Resumed(de.tid)
  /\ isPaused' = [isPaused EXCEPT ![de.tid] = FALSE]
  /\ debugEventQueue' = q
  /\ unreported' = [unrep EXCEPT ![de.tid] = FALSE]

\* A SIGSTOP was the caller's own: continue.  Anything else is left for
\* WaitForDebugEvent.
TempStopContinues(de, q, unrep) ==
  /\ de.ev = "SIGSTOP"
  /\ task' = Resumed(de.tid)
  /\ isPaused' = [isPaused EXCEPT ![de.tid] = FALSE]
  /\ debugEventQueue' = q
  /\ unreported' = [unrep EXCEPT ![de.tid] = FALSE]

\* Mutant: the event that came first is dropped.
TempStopQueues_Drops(de, q, unrep) ==
  /\ de.ev # "SIGSTOP"
  /\ isPaused' = [isPaused EXCEPT ![de.tid] = TRUE]
  /\ debugEventQueue' = q
  /\ unreported' = unrep
  /\ UNCHANGED task

TempStopQueues(de, q, unrep) ==
  /\ de.ev # "SIGSTOP"
  /\ isPaused' = [isPaused EXCEPT ![de.tid] = TRUE]
  /\ debugEventQueue' = Append(q, de)
  /\ unreported' = unrep
  /\ UNCHANGED task

TempStopDone(de, q, unrep) ==
  /\ call.op \in TempOps \cup MemOps
  /\ breakpoint' = Written(call.op, de.tid, de.tid)
  /\ TempStopContinues(de, q, unrep) \/ TempStopQueues(de, q, unrep)
  /\ UNCHANGED <<debuggedThreadEvent, suspendCount, suspendedDevent>>

ReturnTrue(de, q, unrep) ==
  /\ \/ EventReported(de, q, unrep)
     \/ ThreadSuspended(de, q, unrep)
     \/ TempStopDone(de, q, unrep)
  /\ Return
  /\ UNCHANGED <<pending, procStop, traps, isDebugged, threadlist>>

\* waitpid returns a thread; its signal is read from the thread.
Waitpid(t) ==
  /\ ~Idle /\ Waits(call) /\ ~QueueFirst
  /\ t \in Waiting
  /\ ReturnTrue(Ev(t, GetStopSignalFromThread(t)), debugEventQueue, Collected(t))

\* An event that a dispatched command left in the queue; its signal is read
\* again from the thread.
TakeQueued ==
  /\ ~Idle /\ QueueFirst
  /\ LET tid == call.tid
         t   == FindThreadDebugEventInQueue(debugEventQueue, tid).tid
         q   == RemoveThreadDebugEventFromQueue(debugEventQueue, tid)
     IN \/ /\ t # 0
           /\ ReturnTrue(Ev(t, GetStopSignalFromThread(t)), q, unreported)
        \/ /\ t = 0
           /\ debugEventQueue' = q
           /\ UNCHANGED <<kernel, isDebugged, threads, debuggedThreadEvent, calls>>

\* Neither has anything; the call goes (back) to sem_timedwait.
NothingYet ==
  /\ ~Idle /\ Waits(call) /\ call.at # "wait"
  /\ Waiting = {} /\ ~QueueFirst
  /\ LET f == call
     IN Now(Frame(f.op, f.tid, f.k, "wait"))
  /\ UNCHANGED <<kernel, process>>

-----------------------------------------------------------------------------
(* The calls.                                                               *)

\* A command that any connection may send: the debugger thread takes it from
\* its select loop, or in the middle of a timed wait.
Dispatched(op) ==
  /\ op \in ClientOps /\ isDebugged /\ Served
  /\ \/ Idle
     \/ interrupted = NoCall /\ Timed(call) /\ call.at = "wait"

\* WaitForDebugEvent without a current event: every pause flag is reset, then
\* the first queued event is returned, or the thread waits.  (With a current
\* event it returns that one again and changes nothing.)
ReturnQueued ==
  /\ debugEventQueue # <<>>
  /\ debuggedThreadEvent' = Head(debugEventQueue)
  /\ debugEventQueue' = Tail(debugEventQueue)
  /\ UNCHANGED calls

WaitForAny ==
  /\ debugEventQueue = <<>>
  /\ Now(Frame("WaitForDebugEvent", 0, 0, "first"))
  /\ UNCHANGED <<debuggedThreadEvent, debugEventQueue>>

WaitForDebugEvent ==
  /\ Idle /\ isDebugged
  /\ debuggedThreadEvent.tid = 0
  /\ isPaused' = [t \in Tid |-> isPaused[t] /\ t \notin threadlist]
  /\ ReturnQueued \/ WaitForAny
  /\ UNCHANGED <<kernel, isDebugged, threadlist, suspendCount, suspendedDevent>>

WaitTimeout ==
  /\ ~Idle /\ call.op = "WaitForDebugEvent" /\ call.at = "wait"
  /\ Return
  /\ UNCHANGED <<kernel, process>>

\* ContinueFromDebugEvent(tid of the current event).
Current == debuggedThreadEvent.tid

\* Mutant: a virtual event stays current.
ContinueVirtual_Stays ==
  /\ debuggedThreadEvent.ev \in Virtual
  /\ UNCHANGED <<debuggedThreadEvent, kernel, threads>>

ContinueVirtual ==
  /\ debuggedThreadEvent.ev \in Virtual
  /\ debuggedThreadEvent' = Ev(0, debuggedThreadEvent.ev)
  /\ UNCHANGED <<kernel, threads>>

ContinueUnlisted ==
  /\ debuggedThreadEvent.ev \notin Virtual /\ Current \notin threadlist
  /\ debuggedThreadEvent' = Ev(0, debuggedThreadEvent.ev)
  /\ UNCHANGED <<kernel, threads>>

\* Mutant: the event stays current after its thread runs again.
ContinueStopped_KeepsCurrent ==
  /\ debuggedThreadEvent.ev \notin Virtual /\ Current \in threadlist
  /\ suspendCount[Current] = 0 /\ Stopped(Current)
  /\ task' = Resumed(Current)
  /\ unreported' = ContCollected(Current)
  /\ isPaused' = [isPaused EXCEPT ![Current] = FALSE]
  /\ UNCHANGED <<pending, procStop, breakpoint, traps, debuggedThreadEvent,
                 threadlist, suspendCount, suspendedDevent>>

\* Mutant: suspendCount is not looked at.
ContinueStopped_Suspended ==
  /\ debuggedThreadEvent.ev \notin Virtual /\ Current \in threadlist
  /\ Stopped(Current)
  /\ task' = Resumed(Current)
  /\ unreported' = ContCollected(Current)
  /\ isPaused' = [isPaused EXCEPT ![Current] = FALSE]
  /\ debuggedThreadEvent' = Ev(0, debuggedThreadEvent.ev)
  /\ UNCHANGED <<pending, procStop, breakpoint, traps,
                 threadlist, suspendCount, suspendedDevent>>

\* A suspended thread stays stopped and stays the current event, and so does
\* one whose PTRACE_GETSIGINFO fails: in both cases nothing changes.
ContinueStopped ==
  /\ debuggedThreadEvent.ev \notin Virtual /\ Current \in threadlist
  /\ suspendCount[Current] = 0 /\ Stopped(Current)
  /\ task' = Resumed(Current)
  /\ unreported' = ContCollected(Current)
  /\ isPaused' = [isPaused EXCEPT ![Current] = FALSE]
  /\ debuggedThreadEvent' = Ev(0, debuggedThreadEvent.ev)
  /\ UNCHANGED <<pending, procStop, breakpoint, traps,
                 threadlist, suspendCount, suspendedDevent>>

\* The target is killed between PTRACE_GETSIGINFO and PTRACE_CONT.
ContinueKilled ==
  /\ debuggedThreadEvent.ev \notin Virtual /\ Current \in threadlist
  /\ suspendCount[Current] = 0 /\ Stopped(Current)
  /\ CanKill
  /\ task' = [t \in Tid |-> "dead"]
  /\ unreported' = [t \in Tid |-> Traced(t) \/ unreported[t]]
  /\ pending' = [t \in Tid |-> FALSE]
  /\ procStop' = FALSE
  /\ isPaused' = [isPaused EXCEPT ![Current] = FALSE]
  /\ threadlist' = threadlist \ {Current}
  /\ debuggedThreadEvent' = Ev(0, debuggedThreadEvent.ev)
  /\ UNCHANGED <<breakpoint, traps, suspendCount, suspendedDevent>>

ContinueFromDebugEvent ==
  /\ Idle /\ isDebugged /\ Current # 0
  /\ ContinueVirtual \/ ContinueUnlisted \/ ContinueStopped \/ ContinueKilled
  /\ UNCHANGED <<isDebugged, debugEventQueue, calls>>

-----------------------------------------------------------------------------
(* SetBreakpoint, RemoveBreakpoint, GetThreadContext, SetThreadContext.     *)


\* Only SetThreadContext is not passed on to the debugger thread.
TempDispatched(op, t) ==
  /\ op \in TempOps /\ t \in threadlist
  /\ Dispatched(op)
  /\ op = "SetThreadContext" => Idle

StopForOp(op, t) ==
  /\ TempDispatched(op, t) /\ ~isPaused[t]
  /\ pending' = Tkill(t)
  /\ Enter(Frame(op, t, 0, "first"))
  /\ UNCHANGED <<task, unreported, procStop, breakpoint, traps, process>>

\* The thread that a call for a paused thread t acts on.
PausedTarget(op, t) == CASE op = "SetBreakpoint"    -> FindPausedThread
                         [] op = "RemoveBreakpoint" -> Current
                         [] OTHER                   -> t

ActOnPaused(op, t) ==
  /\ TempDispatched(op, t) /\ isPaused[t]
  /\ breakpoint' = Written(op, t, PausedTarget(op, t))
  /\ Dispatch
  /\ UNCHANGED <<task, unreported, pending, procStop, traps, process>>

TimedOut(op) == ~Idle /\ call.op = op /\ call.at = "wait"

\* Mutant: one attempt too many.
Retry_OneMore ==
  /\ \E op \in TempOps : TimedOut(op)
  /\ LET f == call
     IN /\ f.k < MaxTries /\ ~isPaused[f.tid]
        /\ pending' = Tkill(f.tid)
        /\ Now(Frame(f.op, f.tid, f.k + 1, "first"))
  /\ UNCHANGED <<task, unreported, procStop, breakpoint, traps, process>>

Retry ==
  /\ \E op \in TempOps : TimedOut(op)
  /\ LET f == call
     IN /\ f.k + 1 < MaxTries /\ ~isPaused[f.tid]
        /\ pending' = Tkill(f.tid)
        /\ Now(Frame(f.op, f.tid, f.k + 1, "first"))
  /\ UNCHANGED <<task, unreported, procStop, breakpoint, traps, process>>

\* After the last attempt the call goes on with a DebugEvent nobody wrote:
\* any value, 0 standing for every tid that is not a thread of the target.
GiveUp(de) ==
  /\ \E op \in TempOps : TimedOut(op)
  /\ LET f == call
         w == IF f.op = "SetBreakpoint" THEN f.tid ELSE de.tid
     IN /\ f.k + 1 = MaxTries \/ isPaused[f.tid]
        /\ breakpoint' = Written(f.op, f.tid, w)
        /\ isPaused' = [isPaused EXCEPT ![f.tid] = de.ev # "SIGSTOP"]
        /\ \/ /\ de.ev = "SIGSTOP"
              /\ task' = Resumed(w)
              /\ unreported' = ContCollected(w)
              /\ UNCHANGED debugEventQueue
           \/ /\ de.ev # "SIGSTOP"
              /\ debugEventQueue' = Append(debugEventQueue, de)
              /\ UNCHANGED <<task, unreported>>
  /\ Return
  /\ UNCHANGED <<pending, procStop, traps, isDebugged, threadlist, suspendCount,
                 suspendedDevent, debuggedThreadEvent>>

-----------------------------------------------------------------------------
(* SuspendThread, ResumeThread.                                             *)

CanSuspend(t) == Dispatched("SuspendThread") /\ t \in threadlist

SuspendRunning(t) ==
  /\ CanSuspend(t) /\ ~isPaused[t]
  /\ pending' = Tkill(t)
  /\ Enter(Frame("SuspendThread", t, 0, "first"))
  /\ UNCHANGED <<task, unreported, procStop, breakpoint, traps, process>>

Counted(t) == suspendCount' = [suspendCount EXCEPT ![t] = @ + 1]

SuspendAgain(t) ==
  /\ suspendCount[t] > 0
  /\ Counted(t)
  /\ Dispatch
  /\ UNCHANGED <<suspendedDevent, debugEventQueue>>

SuspendCurrent(t) ==
  /\ suspendCount[t] = 0 /\ Current = t
  /\ Counted(t)
  /\ suspendedDevent' = [suspendedDevent EXCEPT ![t] = debuggedThreadEvent]
  /\ Dispatch
  /\ UNCHANGED debugEventQueue

SuspendQueued(t) ==
  /\ suspendCount[t] = 0 /\ Current # t
  /\ EventsFor(debugEventQueue, t) # {}
  /\ Counted(t)
  /\ suspendedDevent' = [suspendedDevent EXCEPT
       ![t] = FindThreadDebugEventInQueue(debugEventQueue, t)]
  /\ debugEventQueue' = RemoveThreadDebugEventFromQueue(debugEventQueue, t)
  /\ Dispatch

\* FindThreadDebugEventInQueue returned NULL, and is dereferenced.
SuspendCrash(t) ==
  /\ suspendCount[t] = 0 /\ Current # t
  /\ EventsFor(debugEventQueue, t) = {}
  /\ Now(Frame("crash", t, 0, "wait"))
  /\ UNCHANGED <<suspendCount, suspendedDevent, debugEventQueue>>

SuspendPaused(t) ==
  /\ CanSuspend(t) /\ isPaused[t]
  /\ SuspendAgain(t) \/ SuspendCurrent(t) \/ SuspendQueued(t) \/ SuspendCrash(t)
  /\ UNCHANGED <<kernel, isDebugged, threadlist, isPaused, debuggedThreadEvent>>

\* The loop runs until the thread is paused, by this wait or by a call that
\* was dispatched during it.
SuspendRetry ==
  /\ TimedOut("SuspendThread")
  /\ LET t == call.tid
     IN \/ /\ ~isPaused[t]
           /\ pending' = Tkill(t)
           /\ Now(Frame("SuspendThread", t, 0, "first"))
           /\ UNCHANGED suspendCount
        \/ /\ isPaused[t]
           /\ Counted(t)
           /\ Return
           /\ UNCHANGED pending
  /\ UNCHANGED <<task, unreported, procStop, breakpoint, traps, isDebugged,
                 threadlist, isPaused, suspendedDevent, debuggedThreadEvent,
                 debugEventQueue>>

ResumeCounts(t) ==
  /\ suspendCount[t] > 1
  /\ UNCHANGED <<task, unreported, isPaused, debugEventQueue>>

ResumeContinues(t) ==
  /\ suspendCount[t] = 1 /\ suspendedDevent[t].ev = "SIGSTOP"
  /\ task' = Resumed(suspendedDevent[t].tid)
  /\ unreported' = ContCollected(suspendedDevent[t].tid)
  /\ isPaused' = [isPaused EXCEPT ![t] = FALSE]
  /\ UNCHANGED debugEventQueue

ResumeQueues(t) ==
  /\ suspendCount[t] = 1 /\ suspendedDevent[t].ev # "SIGSTOP"
  /\ debugEventQueue' = Append(debugEventQueue, suspendedDevent[t])
  /\ UNCHANGED <<task, unreported, isPaused>>

\* A thread that is not marked paused is not resumed: nothing changes.
ResumeThread(t) ==
  /\ Dispatched("ResumeThread") /\ t \in threadlist
  /\ isPaused[t] /\ suspendCount[t] > 0
  /\ suspendCount' = [suspendCount EXCEPT ![t] = @ - 1]
  /\ ResumeCounts(t) \/ ResumeContinues(t) \/ ResumeQueues(t)
  /\ Dispatch
  /\ UNCHANGED <<pending, procStop, breakpoint, traps, isDebugged, threadlist,
                 suspendedDevent, debuggedThreadEvent>>

-----------------------------------------------------------------------------
(* ReadProcessMemoryDebug, WriteProcessMemoryDebug.  With a paused thread   *)
(* they use it and change nothing here.                                     *)

StopForMemory(op) ==
  /\ op \in MemOps /\ Dispatched(op)
  /\ FindPausedThread = 0
  /\ procStop' = \E t \in Tid : task[t] # "dead"
  /\ Enter(Frame(op, 0, 0, "first"))
  /\ UNCHANGED <<task, unreported, pending, breakpoint, traps, process>>

\* waitpid fails when no tracee is left.  The read returns; the write uses
\* the event all the same, whose signal nobody wrote.
MemoryFails(e) ==
  /\ \E op \in MemOps : TimedOut(op)
  /\ \A t \in Tid : ~Traced(t) /\ ~unreported[t]
  /\ debugEventQueue' =
       IF call.op = "WriteProcessMemoryDebug" /\ e # "SIGSTOP"
       THEN Append(debugEventQueue, Ev(0, e)) ELSE debugEventQueue
  /\ Return
  /\ UNCHANGED <<kernel, isDebugged, threads, debuggedThreadEvent>>

-----------------------------------------------------------------------------
(* StopDebug, when the debugger's connection is closed: stop, collect and   *)
(* detach one thread of the list after the other.                           *)

StopFrom(S) ==
  \/ /\ S # {}
     /\ pending' = Tkill(Lowest(S))
     /\ Now(Frame("StopDebug", Lowest(S), 0, "wait"))
     /\ UNCHANGED isDebugged
  \/ /\ S = {}
     /\ isDebugged' = FALSE
     /\ Now(NoCall)
     /\ UNCHANGED pending

StopUnchanged ==
  UNCHANGED <<procStop, breakpoint, traps, threads, debuggedThreadEvent,
              debugEventQueue>>

StopDebug ==
  /\ "StopDebug" \in ClientOps /\ Idle /\ isDebugged /\ Served
  /\ StopFrom(threadlist)
  /\ StopUnchanged /\ UNCHANGED <<task, unreported>>

Stopping(t) == ~Idle /\ call.op = "StopDebug" /\ call.tid = t

\* Mutant: the loop over the threads skips one.
After_Skips(t) == {u \in threadlist : u > t + 1}

After(t) == {u \in threadlist : u > t}

StopDetaches(t) ==
  /\ Stopping(t) /\ unreported[t] /\ task[t] = "SIGSTOP"
  /\ task' = [task EXCEPT ![t] = "free"]
  /\ unreported' = Collected(t)
  /\ StopFrom(After(t))
  /\ StopUnchanged

\* Mutant: the thread is not continued.
StopOtherSignal_Keeps(t) ==
  /\ Stopping(t) /\ unreported[t] /\ task[t] = "SIGTRAP"
  /\ unreported' = Collected(t)
  /\ pending' = Tkill(t)
  /\ StopUnchanged /\ UNCHANGED <<task, isDebugged, calls>>

StopOtherSignal(t) ==
  /\ Stopping(t) /\ unreported[t] /\ task[t] = "SIGTRAP"
  /\ task' = Resumed(t)
  /\ unreported' = Collected(t)
  /\ pending' = Tkill(t)
  /\ StopUnchanged /\ UNCHANGED <<isDebugged, calls>>

StopGone(t) ==
  /\ Stopping(t) /\ task[t] = "dead"
  /\ unreported' = Collected(t)
  /\ StopFrom(After(t))
  /\ StopUnchanged /\ UNCHANGED task

\* waitpid fails on a thread collected before, and `status` is what an
\* earlier iteration left there: the stop of another thread, for ever.
StopSpins(t) ==
  /\ Stopping(t) /\ task[t] = "dead" /\ ~unreported[t]
  /\ Now(Frame("spin", t, 0, "wait"))
  /\ UNCHANGED <<kernel, process>>

-----------------------------------------------------------------------------

Init ==
  /\ task = [t \in Tid |-> "free"]
  /\ unreported = [t \in Tid |-> FALSE]
  /\ pending = [t \in Tid |-> FALSE]
  /\ procStop = FALSE
  /\ breakpoint = [t \in Tid |-> "none"]
  /\ traps = 0
  /\ isDebugged = FALSE
  /\ threadlist = {}
  /\ isPaused = [t \in Tid |-> FALSE]
  /\ suspendCount = [t \in Tid |-> 0]
  /\ suspendedDevent = [t \in Tid |-> NoEvent]
  /\ debuggedThreadEvent = NoEvent
  /\ debugEventQueue = <<>>
  /\ call = NoCall
  /\ interrupted = NoCall
  /\ requests = 0

StopStep == \E t \in Tid :
  StopDetaches(t) \/ StopOtherSignal(t) \/ StopGone(t) \/ StopSpins(t)

Wait == TakeQueued \/ NothingYet \/ \E t \in Tid : Waitpid(t)

Requests ==
  \/ \E t \in Tid : \/ \E op \in TempOps : StopForOp(op, t) \/ ActOnPaused(op, t)
                    \/ SuspendRunning(t) \/ SuspendPaused(t) \/ ResumeThread(t)
  \/ \E op \in MemOps : StopForMemory(op)

Expire ==
  \/ WaitTimeout \/ Retry \/ SuspendRetry
  \/ \E de \in Garbage : GiveUp(de)
  \/ \E de \in Garbage : MemoryFails(de.ev)

\* The steps that are not the start of a counted command.
Steps ==
  \/ Target \/ AttachTask
  \/ WaitForDebugEvent \/ ContinueFromDebugEvent
  \/ Wait \/ Expire \/ StopStep

Next ==
  \/ StartDebug \/ Requests \/ StopDebug
  \/ Steps /\ UNCHANGED requests

Spec == Init /\ [][Next]_vars

-----------------------------------------------------------------------------
(* Fairness: the debugger thread is scheduled, the kernel delivers a        *)
(* SIGSTOP, and the client keeps running its loop of WaitForDebugEvent and  *)
(* ContinueFromDebugEvent.                                                  *)

LoopFairness ==
  /\ \A t \in Tid : WF_vars(DeliverStop(t) /\ UNCHANGED requests)
  /\ WF_vars(AttachTask /\ UNCHANGED requests)
  /\ WF_vars((Wait \/ Expire) /\ UNCHANGED requests)
  /\ WF_vars(StopStep /\ UNCHANGED requests)
  /\ WF_vars(WaitForDebugEvent /\ UNCHANGED requests)
  /\ WF_vars(ContinueFromDebugEvent /\ UNCHANGED requests)

FairSpec == Spec /\ LoopFairness

-----------------------------------------------------------------------------
(* Properties.                                                              *)

\* Types of all the variables.
TypeOK ==
  /\ task \in [Tid -> {"free", "run", "dead"} \cup Signals]
  /\ unreported \in [Tid -> BOOLEAN] /\ pending \in [Tid -> BOOLEAN]
  /\ procStop \in BOOLEAN
  /\ breakpoint \in [Tid -> {"none", "given", "stray"}]
  /\ traps \in Nat /\ requests \in Nat
  /\ isDebugged \in BOOLEAN
  /\ threadlist \subseteq Tid
  /\ isPaused \in [Tid -> BOOLEAN]
  /\ suspendCount \in [Tid -> Nat]
  /\ suspendedDevent \in [Tid -> Event]
  /\ debuggedThreadEvent \in Event
  /\ debugEventQueue \in Seq(Event)
  /\ call \in Frames /\ interrupted \in Frames

Real(e) == e.ev \in Signals
For(e, t) == e.tid = t /\ Real(e)

InQueue(q, t) == \E i \in DOMAIN q : For(q[i], t)

Accounted(t) ==
  \/ For(debuggedThreadEvent, t)
  \/ InQueue(debugEventQueue, t)
  \/ suspendCount[t] > 0 /\ Real(suspendedDevent[t])

\* A stop that waitpid handed to ceserver is never forgotten: its event is the
\* current one, queued, or stored in a suspended thread, so that some later
\* call can still continue the thread.  All the calls that wait, nest and
\* requeue events in each other's waits have to keep this.
NoStopForgotten == \A t \in Tid : Stopped(t) /\ ~unreported[t] => Accounted(t)

\* Between two sessions no thread of the target is left under ptrace:
\* StopDebug detached all it attached to, except the dead.
NothingLeftTraced == Idle /\ ~isDebugged => \A t \in Tid : ~Traced(t)

\* In the plain event loop the event ContinueFromDebugEvent is called for is
\* the collected stop of a thread that is still stopped.
CurrentIsStopped ==
  Current # 0 /\ Real(debuggedThreadEvent) =>
    Stopped(Current) /\ ~unreported[Current]

InStopDebug == ~Idle /\ call.op = "StopDebug"

\* StopDebug has come to a thread whose stop was collected before it, and whose
\* event still waits for the client, or whose exit was: waitpid has nothing to
\* give, or fails and leaves an old status, for ever.
Hangs ==
  \/ InStopDebug /\ Stopped(call.tid) /\ ~unreported[call.tid] /\ Accounted(call.tid)
  \/ call.op = "spin"

\* Every stop, whatever order the threads stop in, is sooner or later reported
\* and continued or detached (or its thread dies), when the client runs its
\* loop and the session does not end in a StopDebug that hangs.
StopsResume == \A t \in Tid : Stopped(t) ~> (~Stopped(t) \/ Hangs)

\* "stop the thread (else you can't detach)": StopDebug comes to its end,
\* whatever the threads do meanwhile, unless it comes to a thread whose event
\* the client has not continued.
StopDebugReturns == InStopDebug ~> (Idle \/ Hangs)

Swallowed(t) ==
  /\ task[t] = "SIGTRAP" /\ task'[t] = "run"
  /\ ~InStopDebug /\ ~ContinueFromDebugEvent

\* The resumed thread's stored stop is older than the one it is in: a
\* temporary stop has continued the thread in between.
ResumesStale(t) == ResumeThread(t) /\ suspendedDevent[t].ev = "SIGSTOP"

\* A breakpoint hit that races with the SIGSTOP of a temporary stop waits for
\* ContinueFromDebugEvent: no call resumes the thread on the way, unless it
\* gives up waiting, or is the ResumeThread that goes by the SIGSTOP that
\* SuspendThread stored and not by what the thread is stopped for now.
TrapWaitsForClient ==
  [][\A t \in Tid : Swallowed(t) =>
       ResumesStale(t) \/ \E de \in Garbage : GiveUp(de)]_vars

\* A suspended thread does not run before ResumeThread has brought its
\* suspendCount back to 0, whatever events are continued meanwhile.
SuspendedStays ==
  [][\A t \in Tid : Stopped(t) /\ suspendCount[t] > 0 /\ task'[t] = "run" =>
       suspendCount'[t] = 0 \/ InStopDebug]_vars
=============================================================================
