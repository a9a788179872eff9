# ceserver in TLA+

The repository is Cheat Engine. This project models **ceserver**
(`src/Cheat Engine/ceserver/`), the C server that a Cheat Engine client uses to
open, inspect and debug processes on a Linux machine. It is the part of the
repository whose behaviour depends on order: several connections, one ptrace
debugger, a queue of debug events, signals and exits of the target that come at
any time, and objects that are shared through handles.

Contents:

1. Inventory: the parts, their state, how they interact, what is hard
2. The modules and the code they stand for
3. The runs
4. The proofs
5. Findings, and behaviour worth knowing that has no run
6. What is not modelled, and the plan

## 1. Inventory

### Parts and state

| part | source | state | operations |
| --- | --- | --- | --- |
| handle table and objects | `porthelp.c`, `api.c`, `ceserver.c` | `HandleList`, `HandleList_max`; `ProcessData`, snapshots, pipes with reference counts; `connections` | `CreateHandleFromPointer`, `RemoveHandle`, `SearchHandleList`, `OpenProcess`, `CreateToolhelp32Snapshot`, `*32First/Next`, `OpenPipe`, `CloseAllPipes`, `CloseHandle`, `threadStartedEvent`, `threadClosedEvent` |
| ptrace debugger | `api.c`, `threads.c` | in `ProcessData`: `isDebugged`, `threadlist` (`isPaused`, `suspendCount`, `suspendedDevent`), `debuggedThreadEvent`, `debugEventQueue` | `StartDebug`, `StopDebug`, `WaitForDebugEvent(Native)`, `ContinueFromDebugEvent`, `SetBreakpoint`, `RemoveBreakpoint`, `GetThreadContext`, `SetThreadContext`, `SuspendThread`, `ResumeThread`, `ReadProcessMemoryDebug`, `WriteProcessMemoryDebug` |
| forwarding to the debugger thread | `api.c`, `ceserver.c`, `extensionloader.c` | `debuggerServer`, `debuggerClient`, `debuggerThreadID`, `debugsocketmutex`, `sem_DebugThreadEvent`; thread-local `isDebuggerThread`, `debugfd` | the exchange in eight functions, `CheckForAndDispatchCommand`, the select loop of `newconnection` |
| command protocol | `ceserver.c` | none of its own | `DispatchCommand` |
| direct memory access | `api.c` | `memorymutex`, the offset of `p->mem`, the options | `ReadProcessMemory`, `WriteProcessMemory`, `GetThreadContext` without a session, `ptrace_attach_andwait` |
| memory map queries | `api.c` | the list under construction | `VirtualQueryEx`, `VirtualQueryExFull`, `GetRegionInfo` |
| extension loader, server, calls | `extensionloader.c`, `extension/server.c`, `extensionfunctions.c` | `hasLoadedExtension`, `extensionFD`, `extensionMutex`; in the target a thread and a descriptor for each connection | `loadCEServerExtension`, `openExtension`, the `ext_` calls, `ServerThread`, `newconnection` |
| symbols | `symbols.c` | none | ELF parsing |
| options, contexts | `options.c`, `context.c` | option table | getters, setters, register copies |
| pattern search, speed hack | `native-api.c`, `extension/speedhack.c` | clock offsets in the target | `AOBScan`, the replaced clock functions |
| discovery, start-up | `ceserver.c` | none | `IdentifierThread`, `main` |
| user interface, kernel driver, hypervisor, bridge to an external kernel server | Pascal, `DBKKernel/`, `dbvm/`, `dbk32/AsioBridge.pas` | | outside ceserver |

### How the parts interact

Every connection has a thread that reads commands and calls the functions of
`api.c`. All connections share the handle table. `OpenProcess` gives every
connection the same `ProcessData` for a process. ptrace binds a debugged process
to *one* thread, so a debug command that arrives on another connection is
written into a socket pair and the semaphore is posted; the debugger thread
takes it between two commands of its own, or while it waits in
`WaitForDebugEventNative`. A command that is taken there may wait itself, so
calls nest: the inner call collects stops that the outer one waits for, queues
them, and changes the pause flags under it.

Without a session a read or write may attach to the process for a moment. All
such attaches, and those of `StartDebug`, are meant to exclude each other by
`memorymutex`, because `waitpid(-1)` in any thread collects the stops of all. Some
commands are carried out by a library inside the target: it is injected once, and
afterwards each call is a request and an answer on one connection that all
connection threads share under `extensionMutex`.

### What is hard, and what has to hold

* **Handles.** Opens and closes are counted, a module snapshot opens and closes
  the process it is taken of, the table is relocated when it is full. No handle
  may dangle or share its object, one process has one handle, counts are exact,
  nothing referenced is lost.
* **Stops.** A stop can be collected by any waiting call, for its own thread or
  for another, before or after the SIGSTOP that the call sent. No collected stop
  may be forgotten, a trap must reach the client, a suspended thread must stay
  stopped, every stop must be continued in the end.
* **Timeouts.** A temporary stop gives up after ten attempts while its SIGSTOP is
  still on the way, and then uses a `DebugEvent` that nobody wrote.
* **End of a session.** The client may disconnect in any state; the target may be
  killed between two ptrace calls. `StopDebug` has to detach every thread.
* **Threads of the server.** The handle table has no lock. What goes wrong must
  need one of the overlaps that are known; everything else must be safe.
* **Forwarding.** A command is carried out once, its answer goes to who asked,
  although sessions end and begin while it is under way, and nobody keeps
  `debugsocketmutex` for ever.
* **Attaching.** No two attaches meet, a stop goes to the thread that waits for
  it, nothing stays attached, a shared file offset is one's own.
* **Maps that change.** `/proc/pid/maps`, `smaps` and `pagemap` are read piece by
  piece while the target changes them. What did not change must be reported
  exactly.
* **The extension.** It is injected once, reached as long as it is said to be
  loaded, and its unlocked lists are used by one thread, over restarts of
  ceserver, frozen targets and a lack of descriptors.

`PROJECT.json` lists each hazard with its line and the properties aimed at it.

## 2. The modules and the code

| module | stands for |
| --- | --- |
| `HandleTable` | handle table and objects, one call at a time |
| `MCHandleTable` | its instance for TLC: heap cells are symmetric |
| `HandleTableProofs` | proofs about `HandleTable` |
| `Debugger` | the debugger of one process, its debugger thread, the kernel's view of the target's threads |
| `MCDebugger` | its instance for TLC: representatives of an unwritten `DebugEvent` |
| `DebuggerProofs` | proofs about `Debugger` |
| `ForwardedCall` | what a connection is promised whose command the debugger thread has to carry out |
| `DebugChannel` | how commands reach the debugger thread; implements `ForwardedCall` |
| `DebugChannelProofs` | proofs about `DebugChannel`, among them the refinement |
| `MemoryAccess`, `MCMemoryAccess` | quick attach, `memorymutex`, the memory file, and `StartDebug` beside them |
| `MemoryAccessProofs` | proofs about `MemoryAccess` |
| `MemoryMap`, `MCMemoryMap` | the queries of the memory map of a target that changes |
| `MemoryMapProofs` | proofs about `MemoryMap` |
| `HandleThreads`, `MCHandleThreads` | the handle table under several threads, read by read and write by write |
| `HandleThreadsProofs` | proofs about `HandleThreads` |
| `Extension` | loading, calls and the server of the extension |
| `ExtensionProofs` | proofs about `Extension` |

The parts meet in these places. `Debugger` takes one forwarded command at a time
and carries it out once: that is what `ForwardedCall` promises and `DebugChannel`
is shown to keep. `HandleThreads` is `HandleTable` taken apart, for the calls that
show every kind of step. `MemoryAccess` has as much of a session as decides who
attaches and who waits. `Extension` has no sessions: they begin and end at any time,
so `isDebugged` can have any value whenever a load reads it.

Definitions named `X_Something` directly before `X` are mutants: `X` as a
plausible mistake would have left it. `Next` does not use them; with `X` replaced
by its mutant, TLC finds the property that `PROJECT.json` pairs with it violated.

### HandleTable

`hs` is the table and the heap: `list` and `max` are `HandleList` and
`HandleList_max`, `heap` maps each address malloc can return to the object there,
or to `Freed`. The functions of `porthelp.c` and `CloseHandle` are operators from
such a state to such a state, because the larger calls are compositions of them:
`OpenProcess` of a new process makes a handle, then takes a snapshot of the first
module, which opens the process again, closes it, makes a handle and is closed.
Each function keeps what the code does on its error paths: the descriptor of a
thread snapshot is not freed by the last close, and the snapshot of a process
without a maps file is lost.

`Relocate` is the growth of a full table as it is written: the `memcpy` copies
`sizeof(...)` of a product, which is the size of a `size_t`, so that no handle is
carried over.

`refs` is a history variable: the opens minus the closes that clients asked for.
`connections` is the counter of `ceserver.c` that closes the pipes.

Abstracted: what a snapshot contains, except how many entries it has; file and
socket descriptors. A client calls `First` before `Next` (before it the iterator
is uninitialised memory). A heap cell that is freed may be allocated again at
once.

### Debugger

Kernel: `task` is the ptrace state of each thread (`free` is not traced, a signal
name is a ptrace stop by that signal), `unreported` says that waitpid has not
collected its stop or exit, `pending` and `procStop` are SIGSTOPs sent by `tkill`
and `kill` and not delivered, `breakpoint` is the debug register together with
whom it was written for. The other variables are the fields of `ProcessData` of
the same name. `debugEventQueue` is the queue with the head first.

A call that waits is a *frame* `[op, tid, k, at]`: the operation, the thread it
waits for (0 is any), the attempts that timed out, and the place in the wait.
`call` is the innermost frame and `interrupted` the one below it. There are never
more than two: `debugsocketmutex` admits one forwarded command at a time, and a
forwarded command is not served from a wait that was itself forwarded.

| code | actions |
| --- | --- |
| `StartDebug` | `StartDebug`, then one `AttachTask` for each entry of `/proc/pid/task` (`Attach`, `AttachFails`, `AttachDead`) |
| `WaitForDebugEventNative` | `Waitpid`, `TakeQueued`, `NothingYet`, and the timeouts |
| `WaitForDebugEvent` | `WaitForDebugEvent`, `EventReported`, `WaitTimeout` |
| `ContinueFromDebugEvent` | `ContinueFromDebugEvent` |
| `SetBreakpoint`, `RemoveBreakpoint`, `GetThreadContext`, `SetThreadContext` | `StopForOp`, `ActOnPaused`, `TempStopDone`, `Retry`, `GiveUp` |
| `SuspendThread` | `SuspendRunning`, `SuspendPaused`, `ThreadSuspended`, `SuspendRetry` |
| `ResumeThread` | `ResumeThread` |
| `ReadProcessMemoryDebug`, `WriteProcessMemoryDebug` | `StopForMemory`, `TempStopDone`, `MemoryFails` |
| `StopDebug` | `StopDebug`, then `StopDetaches`, `StopOtherSignal`, `StopGone`, `StopSpins` |
| the target and the kernel | `Trap`, `DeliverStop`, `Exit`, `Kill` |

Choices the reader should know:

* The build is the x86 one. The kernel is Linux 4.7 or later, where `waitpid`
  without `__WALL` also collects the threads of a tracer.
* Threads are numbered in the order of `/proc/pid/task`, which is also the order
  of the list. A call for all threads (`tid` -1) is the sequence of its single
  calls.
* `SIGTRAP` stands for every signal but `SIGSTOP`: the code compares with
  `SIGSTOP` only. -1 and -2 are the virtual events of the attach.
* `Garbage` is the set of values of a `DebugEvent` that nobody wrote. In the
  proofs it is any set of events; in the runs it has a representative of each
  case that the code tells apart.
* `PTRACE_ATTACH` fails only on a thread that is already traced or is a zombie.
* The client passes the `tid` of the current event to `ContinueFromDebugEvent`,
  as the Cheat Engine client does.
* `StopDebug` is called only when the debugger's connection is closed, which is
  the only call in the code.
* A crash by a NULL dereference is the frame `crash`; the endless loop of
  `StopDebug` on a thread that was collected before is the frame `spin`.

### DebugChannel and ForwardedCall

A connection thread is in the loop of `newconnection`, in a timed wait, carries a
command out (`exec`), or forwards one: `lock`, `send`, `bind`, `recv`, `unlock`. The
thread that serves a session takes commands from the pair in its loop
(`ReadsDebugfd`) and in its waits (`WakesUp`). A thread that ended may be followed by
one with the same `pthread_t`, so that a new connection can be taken for the
debugger thread of an old session. `debuggerClient` is read anew for the write of the
command and for each part of the answer, as the code does; that is why `send` and
`bind` are steps of their own.

`Begin` decides where a command is carried out. All functions look for
`isDebugged` and then for the thread, except `SetBreakpoint`, `SuspendThread` and
`ResumeThread`, which look for the thread only (`Unchecked`): `SetBreakpoint` forwards
even before there ever was a session, the other two find no thread to work on then.
An answer may have a second part (`TwoPart`).

A command need not end. The waits of `Unbounded` have no timeout: `waitpid` in the memory
calls of a session (`api.c:2179`), the loop of `SuspendThread` until the thread is paused
(`api.c:1774`), the injection (`extensionloader.c:824` and `927`), and, outside a session,
`ptrace_attach_andwait` (`api.c:251`). `Blocks` takes the thread to the place `stuck`,
where it stays.
`StartDebug` for a debugged process does not return: it goes on, attaches nothing,
and makes its connection a second server of the pair.

`ForwardedCall` says: a command is carried out at most once and no second one
before the exchange is settled; an answer comes only after it was carried out; a
call that began in a session fails only when that session is over. The refinement
mapping `callOf` takes a forwarding thread to *asked* until its answer is in the
pair, then to *executed*, and at `unlock` to *answered* or *failed*; `live` is the
pair of the session. A torn answer (the session ends between its two parts) is a
failure.

Descriptors of pairs are not reused. Commands without a process handle, and the
contents of commands, are left out.

### MemoryAccess

One action for each step that another thread can come between: `Lock`, `Attach`,
`Wait` (one `waitpid(-1)`, which gives any waitable task), `Seek`, `TouchMemory`,
`Detach`, `Unlock`. `WriteProcessMemory` with `process_vm_writev` does not lock and
does unlock: its `quick` accesses do so here. The kernel has the tracer and the
stop of each task; a task may be stopped by a signal besides SIGSTOP, and a process
may be killed. `StartDebug` attaches task by task under the mutex. A session has no
events but stops that are collected and continued; its commands go through the
debugger thread.

The properties have the form *unless a named race came first*, with the history
`notes`: `unlocked` (an attach without the mutex, or a release by a thread that
does not hold it), `strayed` (an access that read `isDebugged` before a session
began), `mixed` (a `waitpid` gave the stop of another). Each excuse was found to be
needed: without it TLC shows the race.

Options are constant during a behaviour. The words of a read or write are one
step. `MEMORY_SEARCH_OPTION` 3 is as 2.

### MemoryMap

Memory is a row of pages; a line of `maps` is a run of pages with equal permissions.
The kernel gives the first line that ends behind the last one, as it is when it is
read, so a line may begin before the last one ended, when mappings merged. `QueryLine`
is one line of `VirtualQueryEx`, whose client walks by base and size;
`ReadRecord`, `Pread`, `StoreSection` and `NextChunk` are `VirtualQueryExFull`. The
target changes pages or exits between any two of these. `changed` is the set of
pages that did, and the properties speak about the others.

`Top` is the last page below the task size. Above it there may be a line of the kernel's
own, `[vsyscall]` on x86-64 (`Gate`), and no line crosses the two. `pagemap` has nothing
above the task size, nor after the exit of the target: `pread` then returns 0 bytes, the
code looks only for -1 (`api.c:3691`), and the bits of the chunk before, or of a buffer
never written, are used again (`Pread`).

The filters of `VirtualQueryExFull` are of two kinds. `VQE_NOSHARED` and `VQE_DIRTYONLY`
choose whole mappings (`api.c:3661`), `VQE_PAGEDONLY` pages. Whether a mapping is dirty
depends on all its pages, of which some may change during the query, so `FullExact` has
two sides: what must be listed (`Wanted`, with `SurelyDirty`: a dirty page that did not
change is joined to it by pages that did not change either) and what may be (`Allowed`,
with `MaybeDirty`: whatever the changed pages were). While nothing changes the two
agree. Under `VQE_PAGEDONLY` nothing is said of a page above `Top`.

The code reports a page without any permission as `PAGE_READONLY`; the permissions
of the instance leave `r` out. Lines longer than the buffer, and a `pread` that fails
with -1 (for which the loop would not end), are left out.

### HandleThreads

The calls are taken apart into the reads and writes of shared memory they are made of.
Two reads are one step only where the thread's place names the handle already, so that
whoever takes the handle away meets that place. A spot is found empty (`Scan`), its
pointer written, then its type; a count is read (`ReadCount`) and written
(`AddReference`); a close writes the count and then reads it again to see whether it was
the last (`DropReference`, `RereadCount`, `api.c:4665` and `4666`: the build does not
optimise, so these are two accesses); the last close frees the object and then removes
the handle. A command that uses a process looks up the type and then the pointer
(`LookPointer`). When the maps file cannot be opened, the module list of the snapshot is
left behind with its one reference (`Leaked`; `api.c:4387` to `4395`, return at `4545`).
The first `CreateHandleFromPointer` of all sets the size, the
list and its contents in three steps. Memory misuse is the end of a behaviour
(`fault`). What a client has been given is in the slots of `held`: the same handle
can be in two of them, as it is when a client opens a process twice.

`races` remembers which of five overlaps have happened: in the first creation, on
one spot, on one count, on the last close, and two opens of one process. The overlap on
a count includes a close that meets another one that has yet to read the count again:
two closes that follow each other so closely both read 0, and both free. The
invariants say that nothing is broken before one of them has happened. They are thus
a list of what a lock has to cover. `NoFault`, `HeldIsOwn` and `CountsBalance` hold in
spite of two opens of one process, which only make a second `ProcessData`.
`OneProcessData` needs all five: when a close and an open have met on one count, an
object can be freed that is still held, its handle is then closed twice, and the
second `RemoveHandle` can empty the handle of a `ProcessData` made meanwhile, so that
the next open does not find it. `CountsBalance` is said of all objects but the module
lists that the failed snapshot leaks.

### Extension

A call of `extensionfunctions.c` loads the extension if it has to and then
exchanges one request and one answer under `extensionMutex`. Loading: the unlocked
check, the second check under the mutex, the probe that connects and hangs up, the
injection up to the call of `dlopen` in the target (`Inject`) and its end (`InjectEnds`),
and the connection that is kept. The returns after the call leave the library loaded and
the process not marked. In the target: the accept loop with the
lowest free descriptor, and a thread for each connection that knows it by its
number. ceserver may be killed and started again (`Restart`), or open the process
anew (`Reopen`), which leaves the old connection open; the target may be frozen or
exit.

After `recv` gave 0 a server thread closes its descriptor and uses the number once
more. If `accept` has given the number to a new connection meanwhile, two threads
have one connection (`notes` has `reused`). Either may take a request (`Take`), or they
share its bytes, and each finds a command in its share or none (`Split`); either may
answer, and either may close the connection of both. Of a `recv` that is under way while
the other thread closes, only the end is modelled.

`notes` also has `crowded`, the probe had no descriptor left, and `orphaned`, ceserver was
killed with a command under way. `OwnAnswer`, `Reachable`, `OneAtWork` and `Released` are
said of behaviours without a reuse, and `OneAtWork` of those without an orphan: the
thread of a killed ceserver's command goes on beside the new one's. TLC shows each of them
violated without its excuse. `TypeOK` and `InjectsAbsent` hold after a reuse too.

## 3. The runs

| run | instance | distinct states | shows |
| --- | --- | --- | --- |
| `handles` | 2 processes, 4 cells, 3 spots that can fill and double once, 2 references, 2 connections | 232,175 | `TypeOK`, `NoDangling`, `NoAlias`, `RefCountExact`, `NoOrphan`, `HandlesKept` |
| `handles_loss` | a table of one spot | | violation of `HandlesSurvive` |
| `handle_threads` | 2 connections with one handle each, 2 processes, 5 calls, behaviours with one kind of overlap | 997,056 | `TypeOK`, `NoFault`, `OneProcessData`, `HeldIsOwn`, `CountsBalance` |
| `debug_loop` | 3 threads, one mortal, 4 traps, the event loop with sessions that end and begin, fairness | 63,356 | `CurrentIsStopped`, `StopsResume`, `StopDebugReturns` |
| `debug_suspend` | 2 threads, one mortal, kill, 1 trap, 5 commands among suspend, resume, start, stop | 539,799 | `SuspendedStays` |
| `debug_all` | 2 threads, one mortal, kill, 2 traps, 3 commands of any kind | 701,000 | `TypeOK`, `NoStopForgotten`, `NothingLeftTraced`, `TrapWaitsForClient` |
| `channel` | 3 connections, 2 of which debug and 2 forward, 1 process, 2 sessions, `CMD_READPROCESSMEMORY` (two parts, may block) and `CMD_SETBREAKPOINT` (unchecked), fairness | 433,961 | `TypeOK`, `AnswerIsOwn`, `Drained`, `KeepsPromise` (the refinement), `Answered` |
| `channel_mmap` | 2 connections, one session, `CMD_PTRACE_MMAP` | | violation of `KeepsPromise` |
| `memory` | 2 connections, 2 processes of one task, one of them debugged and mortal, three settings, fairness | 839,106 | `TypeOK`, `NoAttachBusy`, `WaitsForOwn`, `NothingLeft`, `OwnAddress`, `MutexReleased` |
| `memory_attach` | 2 connections that write to 2 processes, the default setting | | violation of `AttachedOwn` |
| `memory_map` | every map of 3 pages and one above the task size, chunks of 2, a list that begins with 1 entry, 2 changes, fairness | 413,364 | `TypeOK`, `WalkExact`, `FullExact`, `QueryEnds` |
| `extension` | 2 connections, 3 connections to the extension, 2 descriptors, 3 calls, 1 restart, fairness | 751,321 | `TypeOK`, `OwnAnswer`, `Reachable`, `OneAtWork`, `InjectsAbsent`, `Released` |

Why the bounds are enough:

* **Handle table.** Four cells are enough for the largest call (a module snapshot
  that opens a new process holds three objects at once) next to an object that was
  there before; the fourth handle meets a full table. The properties quantify over
  one or two handles, and two references tell the last close from the others.
  All six are proved for all sizes. `NoOrphan` and `HandlesKept`
  are said of a table that is not relocated.
* **Threads.** Every overlap is one of two threads. Four calls with any number of
  kinds of overlap (3,969,828 states), six calls with one kind (3,924,988) and three
  calls of three connections with one kind (441,723) were checked too, and all five properties are
  proved for all sizes.
* **Debugger.** `MaxTries` is 2 for 10: one attempt that is repeated and one that
  is the last. `MaxRequests` counts the first `StartDebug` too. Two threads are
  enough for one call to wait for a thread while another thread stops, and three
  for the event loop to choose. Three commands let two of them nest inside a wait and
  a third follow. `SuspendedStays` is checked without the commands that stop threads
  for a moment and does not hold with them: they resume a suspended thread whose
  stop they collect. `TrapWaitsForClient` was also checked with one thread and five
  commands of any kind (1,104,142 states).
* **Channel.** Two sessions let one be replaced during an exchange; the third
  connection is the one that enters a session, or forwards at the same time. Two
  processes, with posts taken by the wrong debugger thread, were checked in a
  larger instance with one caller (455,464 states). `Proc` has one member here because the pairs of
  two sessions are two anyway.
* **Memory access.** Three settings are the ways through the code: none, file and
  ptrace. Instances with two tasks (2.9 million states), and with two debuggable and
  mortal processes (17.5 million) pass as well.
* **Memory map.** Three pages give a region of one chunk and a half, a gap between
  two regions, and neighbours that merge; the page above the task size follows a mapped
  page or a gap. Four pages below it with one change pass too (391,881 states, safety).
* **Extension.** Two descriptors for three connections make `accept` fail and numbers
  return. Five connections with three descriptors pass (1,664,290 states, safety).

`CHECK_DEADLOCK` is off where the system really may stop: a memory command of the
debugger waits for ever when no thread can stop any more, a suspended current event
blocks the client's loop, `StopDebug` can hang, a crash ends the server, waits for a
mutex that is never released are findings, and bounded calls come to an end.

**Fairness.** In `Debugger`: weak fairness of the debugger thread's own steps (it is
a thread that runs, and `sem_timedwait` ends), of the delivery of a SIGSTOP to a
running thread (the kernel delivers it before the thread returns to user mode),
and of the client's two calls (its debugger thread calls them in a loop). Nothing
is assumed of the target: it need never trap or exit. That one thread traps so
often that waitpid never returns another is excluded by `MaxTraps`, not by
fairness: waitpid gives no guarantee about it.

In the other modules: weak fairness of every step a running thread can take by itself.
What waits for the target without a timeout is not fair: a command that the debugger
thread carries out ends only if it does not block (`Blocks`), and an injection
(`Inject`, `InjectEnds`) need never end. A mutex is not assumed to be fair: in
`DebugChannel` and `MemoryAccess` nothing is asked of a thread that waits for one.
Nothing is assumed of clients either, so that `Answered` holds however long the
debugger's client keeps its thread busy: the loop alternates. In `MemoryMap` the target
changes its map a bounded number of times; under unbounded changes a list of a growing
map need not end.

**Excuses.** The liveness properties say when they may fail:

* `StopsResume`, `StopDebugReturns`: `Hangs`, that is `StopDebug` waits for a thread whose
  stop was collected before, or spins on a stale status;
* `Answered`: `Neglected`: the session's thread ended by a read error, sleeps after
  `EBADF`, is stuck in a command that waits for the target (`Blocks`), serves another
  process or waits for `debugsocketmutex` itself, a second connection entered the
  session, or the session was replaced between the write of the command and the read of
  its answer;
* `MutexReleased`: another thread collected the stop;
* `Released`: the target is frozen, an injection waits for the target, its accept loop
  has ended with the connection in the backlog, or a descriptor number was reused.

Every one of them is needed: without it TLC shows a behaviour of the code in which
the property fails.

## 4. The proofs

tlapm checks every obligation of the proof modules. Their theorems hold for all
values of the constants that the named assumptions of the models admit
(`TableAssumption`, `DebuggerAssumption`, `ChannelAssumption`, `AccessAssumption`,
`ExtensionAssumption`, `ThreadsAssumption`, `MapAssumption`): any number of connections, processes, tasks, handles,
calls, sessions. Where a theorem assumes more, it says so, and this section says why.
Every inductive invariant was first checked with TLC as an invariant of the
instances of section 3.

### HandleTableProofs

* `TypeCorrect`: `Spec => []TypeOK`.
* `HandleSafety`, `ObjectsApart`: `Spec => []NoDangling`, `Spec => []NoAlias`.
* `CountsExact`, `NothingOrphaned`: `Spec => []RefCountExact`, `Spec => []NoOrphan`.
* `HandlesStay`: `Spec => HandlesKept`, an action property.

The argument is compositional. `Sound(S)` says that a table state has its types,
that live handles name live objects of their type, and that no two share one.
There is one lemma for each function of the code: it takes a sound state to a
sound one, and keeps the cells free that its caller will allocate later
(`FreeOutside`). The lemmas about the calls (`ReopenSound`, `SnapModulesSound`,
`OpenNewSound`) are compositions of these, as the calls are. `NoAlias` is needed
for `NoDangling`: closing a handle frees its object, and only when no other handle
names it does none dangle afterwards. The relocation is covered: it loses handles,
and creates no bad one.

The counts are argued in the same way, with a relation in the place of a predicate:
`Frame(S, T, H, C)` says that between two states only the handles `H` and the cells `C`
changed. Frames compose (`FrameTrans`). `ReopenClose` shows that an open that finds the
process and the close that follows leave nothing behind, and `PassingSnapshot`
and `PassingProcess` that a snapshot taken in passing leaves nothing but the handle
that is returned. `FrameAccounts` then reduces the counts to the handles that changed.

### DebuggerProofs

* `TypeCorrect`: `Spec => []TypeOK`, with the bound on the attempts and the
  threads the nested calls are for.
* `StopsAccounted`: `Spec => []NoStopForgotten`.
* `AllDetached`: `Spec => []NothingLeftTraced`.
* `TrapsWait`: `Spec => TrapWaitsForClient`, an action property, for all operations.
* `SuspendedStay`: `Spec => SuspendedStays`, when no client asks for a temporary stop.
* `CurrentStops`: `Spec => []CurrentIsStopped`, for the plain event loop.

`StopsAccounted` and `AllDetached` assume `"StartDebug" \notin ClientOps`: no client calls `StartDebug`
while a session is open. The assumption is needed. `StartDebug` empties the thread
list before it attaches again, and a stop stored in a suspended thread goes with
it.

The inductive invariant `IInv` adds to the two properties and the types:

* `StoredIsOwn`: the event stored in a suspended thread is that thread's own, so
  that the resume of one thread cannot use up the stop of another;
* `CallsNest`: which calls can be interrupted, and that nobody waits in
  `WaitForDebugEvent` while there is a current event. Without it the event that
  the wait returns could replace one that is not continued yet;
* `TracedListed`: a traced thread is in the thread list, those that `StartDebug`
  has not reached are not traced, and those that `StopDebug` has passed are
  detached. Without it the loop over the list says nothing of the threads.

`StopsStep` has one case per action. The one with the most in it is
`ReturnsAccounts`: a wait that returns, for whatever caller, with a stop from
waitpid or from the queue, passes it on. `IInv` was checked with TLC on the
instances of `debug_all` and `debug_suspend` before it was proved.

The action properties rest on one lemma, `RunsBy`: the five ways in which a stopped
thread comes to run, read off all the actions. It needs `StoredIsOwn`, because
`ResumeThread` continues the thread of the stored event. `SuspendedStay` assumes that
`ClientOps` has none of the four calls with a temporary stop and neither memory call:
these do resume a suspended thread (section 3), and `NoTempStop` shows that without
such requests no such call is ever waiting. `CurrentStops` assumes clients that only
start and stop sessions besides the loop, and a target that is not killed: a kill
takes the thread of the current event with it. Its invariant `LoopInv` says that the
queue then holds nothing but virtual events, and that a wait begins with an empty
queue. Without it a queued virtual event, whose signal `WaitForDebugEventNative`
reads again from the thread, would be reported as a stop that nobody has collected.

### DebugChannelProofs

* `TypeCorrect`: `Spec => []TypeOK`.
* `AnswersMatch`, `PairsDrained`: `Spec => []AnswerIsOwn`, `Spec => []Drained`.
* `ChannelImplements`: `Spec => KeepsPromise`, the refinement of `ForwardedCall`.

The last three assume `Kinds \cap Unhandled = {}`: no client sends a command that the
debugger thread has no case for. The run `channel_mmap` shows that they fail for
`CMD_PTRACE_MMAP`, which is such a command.

The inductive invariant adds to the types:

* `SessionsApart`: the open pairs are those of the sessions, one each;
* `OneExchange`: the threads between lock and unlock are the holder of
  `debugsocketmutex`. There are thus never two exchanges;
* `NoFuture`: nothing is in a pair that is not made yet, so a session that begins finds
  its pair empty;
* `CallsFollow`: `debuggerClient`, read anew for every part of an exchange, gives the pair
  of the command as long as that is open;
* `OneCommand`: in an open pair there is one command, not taken, or carried out by one
  thread, or answered, and the one who sent it waits. Without it a second server of
  the pair could answer a command twice;
* `ReadsOwn`: what is left to read is one's own, also when the session ended meanwhile.

The refinement is proved step by step: `callOf` does not change in the steps of others
(`OthersSame`); taking the lock, the write and a read that succeeds stutter; an answer put
into the pair is the abstract execution (`FinishExecutes`); a closed pair is the abstract
failure, for which `CallsFollow` shows that the session is over.

### ExtensionProofs

* `TypeCorrect`: `Spec => []TypeOK`.
* `OwnAnswers`, `KeptReachable`, `WorkExclusive`: `Spec => []OwnAnswer`, `[]Reachable`,
  `[]OneAtWork`.
* `InjectedOnce`: `Spec => InjectsAbsent`, an action property.

The inductive invariant has two halves. On ceserver's side: the callers between lock and
unlock are the holder of `extensionMutex` (`MutexHeld`), the connection that is kept is
open and a process marked as loaded has one, except between the injection and
`openExtension` (`Kept`), and on an open connection nothing is under way but the call of
the one who waits to receive (`OneExchange`). On the target's side: connections are made
once (`MadeOnce`), and `NumbersOwned` says that the descriptor number of a server thread
is that of its own connection or free, and that every open connection waits in the backlog
or has its thread. `Finished` says that a thread at work is at work on a connection that
ceserver still has, unless ceserver was killed (`orphaned`): `WorkExclusive` follows from
it and `OneExchange`.

`OneExchange`, `NumbersOwned`, `Finished` and the answers (`OwnResults`) are together
`Orderly`, which is said until a number is given away too early (`reused`), and so are
the first three theorems about properties. The rest (types, `Commands`, `MutexHeld`,
`CallsFollow`, `Kept`, `MadeOnce`) is shown to be kept by every step, those of two threads
on one connection (`SplitStep`) included. `TypeCorrect` and `InjectedOnce` rest on it alone
and hold whatever the reuse leads to.

### MemoryAccessProofs

* `TypeCorrect`: `Spec => []TypeOK`.
* `AttachesApart`: `Spec => []NoAttachBusy`.
* `AddressesOwn`: `Spec => []OwnAddress`.
* `StopsApart`, `NoneLeftAttached`: `Spec => []WaitsForOwn` and `Spec => []NothingLeft`, both
  for at most one client that debugs (`OneDebugger`).

`OneDebugger` is needed: `StartDebug` of a second client for a debugged process only
logs (`api.c:486`) and attaches the tasks that nobody traces, and `StopDebug` of the
first then ends the session without detaching them. TLC shows this on an instance with
two clients and two tasks. The Cheat Engine client has one debugger thread.

The inductive invariant:

* `CallsFollow`: what kind of access can be at which place with which options. It carries
  the case analysis that the code spreads over its branches: who skips the mutex, who
  detaches, who has a task;
* `MutexKept`: the threads between lock and unlock are the holder, unless a quick write
  unlocked what it had not locked;
* `AttachLocked`: until then whoever has a task attached is in the mutex;
* `StopsFollow`, `OwnStops`: what waits and accesses know of their tasks;
* `SessionOwned`, `TracesFollow`: every traced task belongs to an access that will detach
  it, to a session, or to a process that was killed. `NothingLeft` is this at rest;
* `FileOwned`: in a session only its own thread is at `p->mem`, and outside only the holder
  of the mutex. `OwnAddress` by itself is not inductive: a seek of another thread would
  break it.

### HandleThreadsProofs

* `TypeCorrect`: `Spec => []TypeOK`.
* `MemorySafe`, `HandlesOwn`, `CountsBalanced`: `Spec => []NoFault`, `Spec => []HeldIsOwn`,
  `Spec => []CountsBalance`.
* `OneProcessEach`: `Spec => []OneProcessData`.

Nothing is assumed beyond `ThreadsAssumption` (finitely many connections, a table with
at least one spot). The proofs are about what the unlocked code gets right: every
interleaving up to the first overlap. `CountsBalanced` is about all objects but the
leaked module lists. The inductive invariant says `Good` as long as the races that hurt
have not happened (`Clean`), and `Unique` as long as none has:

* `Phases`: how far the table is made, and by whom; until then it is empty;
* `Local`: what a call has in hand is still so. One conjunct for each place: a spot that
  was found empty is empty, a count that was read is the count, a handle that was found
  leads to what was looked for. This is what an overlap would break;
* `EntriesGood`, `OwnApart`, `NoneLost`: every object is named by exactly one handle, or
  known to exactly one call that makes it, or free, or a leaked module list;
* `EndsGood`: a handle whose object is freed, and which is still in the table, has no
  reference and one call that empties it; of the closes of one handle at most one has
  given up its reference and not yet finished (`Ending`). This is what the overlap on a
  count would break: two of them would both find the count 0;
* `NoneLeft`: a live handle without a reference has such a close. The second read of the
  count (`RereadCount`) then decides rightly: 0 is found by the close that must free;
* `RefsGood`, `CountsGood`: `Refs(h)` is the set of references to a handle, those of the
  clients, of a close under way and of an `OpenProcess` that has yet to return. It holds
  for each of them that the handle is what was asked for, and their number is the count.
  Without the references in hand the count is right only between the calls
  (`CountsBalance`), which is not inductive;
* `Unique`: a search has not gone past the handle of the process it looks for, and a
  process that is being made has no other `ProcessData`. So a search that ends without a
  hit proves that there is none.

There is one lemma for each action (`OpenProcessGood` ... `UseProcessGood`), over lemmas that
say what is kept by a step that leaves alone what the conjunct reads. Overlaps enter only
through `Apart` and `OpenApart`. `IInv` was checked with TLC on the instance of `handle_threads`
and on one with three connections.

### MemoryMapProofs

* `TypeCorrect`: `Spec => []TypeOK`: no region without pages, and room in the list.
* `WalkIsExact`: `Spec => []WalkExact`.
* `ListIsExact`: `Spec => []FullExact`.

They hold for any number of pages, any contents, flags, size of a chunk and first size
of the list, and any number of changes.

`NextLineExact` is the lemma about the kernel: the next line is a whole mapping that
ends after the last one, nothing is mapped between the two, and its dirty flag lies
between `SurelyDirty` and `MaybeDirty` of each of its pages. `Unmoved` says that these do
not depend on the steps of the query. `TargetMoves` reduces
what the target does, its exit included, to one fact: a page outside `changed` is as it
was. The invariant `IInv` has three parts:

* `Shape`: the types, and that a chunk which is being read lies in a block that passed
  the filters;
* `WalkInv`: the walk has given each page below its address exactly one region and the
  others none, and its file is never ahead of its address. Without the last part a gap
  in the answer could hide a mapping that was already skipped;
* `FullInv`: the lines that were read are still right about the pages that did not change
  (`LineTrue`), nothing lies between the block and the header behind it (`GapTrue`), the
  bits of the chunk are those of its pages below the task size, and every page below the frontier of the
  query is listed if it should be. For the order of the list `LineTrue` also says that,
  as long as nothing has changed, a line is a whole mapping: the next one then cannot
  begin inside it.

After the exit of the target `pread` gives nothing and the old bits are used. That is
harmless for the theorem because every mapped page has then changed. Above the task size
the old bits are used on a living target, and nothing has changed: under `VQE_PAGEDONLY`
the theorem excepts these pages, and would be false of them. `IInv` was checked
with TLC on the instance of section 3 before it was proved.

### Only model-checked

Liveness (`StopsResume`, `StopDebugReturns`, `Answered`, `MutexReleased`, `QueryEnds`,
`Released`) is out of the prover's reach, as is what a recursive definition computes.
All the invariants, action properties and the refinement that the passing runs check are
proved, some of them under an assumption on the operations of the clients that this
section names.

## 5. Findings

With a run that shows the violation:

* `handles_loss` (`porthelp.c:53`): after the 256th handle every earlier handle is
  empty.
* `channel_mmap` (`extensionloader.c:1071`, `ceserver.c:1664`): `CMD_PTRACE_MMAP` is
  forwarded to the debugger thread, which has no case for it and takes the bytes
  that follow for commands. With a process handle 1 the pair is closed, the
  debugger thread sleeps for ever, and the session stays. It needs the option
  `ALLOC_WITHOUT_EXTENSION`.
* `memory_attach` (`api.c:251`): with the default settings two writes at once take each
  other's stops and detach each other's processes.

Met while modelling, present in the model, without a run of their own:

* `SetBreakpoint` for a paused thread writes the debug register of the first paused
  thread of the list (`api.c:741`).
* `SuspendThread` dereferences NULL for a thread that is marked as paused and has no
  event (`api.c:1761`).
* A suspended thread loses its pause mark in the next `WaitForDebugEvent`
  (`api.c:2242`), and `ResumeThread` then refuses it for ever.
* `StopDebug` never returns when the stop of a thread was collected before
  (`api.c:2606`), as it is for the current event of a client that disconnects.
* The five overlaps of `HandleThreads`, and the excuses of section 3. Among them: two
  closes of one handle, one right after the other, both read the count as 0 and free the
  object twice (`api.c:4665`, `4666`).
* A module snapshot whose maps file cannot be opened leaks its list (`api.c:4387`,
  `4545`).
* For `[vsyscall]` the bits of another chunk, or of memory never written, decide whether
  `VQE_PAGEDONLY` lists it (`api.c:3691`). `VQE_DIRTYONLY` lists the clean pages of a
  mapping that has a dirty one (`api.c:3661`).
* The memory calls of a session, `SuspendThread` and the injection wait for the target
  without a timeout, and with them whoever holds `debugsocketmutex` or `extensionMutex`
  (`api.c:2179`, `1774`, `extensionloader.c:824`, `927`).
* A second `StartDebug` (`api.c:486`) makes two threads serve one pair; the second
  forwards what it takes, and waits for the mutex that the caller holds.
* The extension's server uses a descriptor number after it closed it
  (`extension/server.c:462`). Without the excuse `reused` TLC shows a wrong answer to a
  call, a connection that is closed although the extension counts as loaded
  (`extensionloader.c:372` keeps it: "not needed anymore, but do keep the socket open"), two
  threads at work at once, and a caller that waits for ever.
* A command that a killed ceserver left under way goes on beside the commands of the next
  one, and both work on the extension's unlocked lists. Its answer goes to a closed
  connection: the target then gets SIGPIPE (`extension/server.c:192`, `AnswerKills`).
* `accept` that fails once ends the accept loop, with the socket still listening
  (`extension/server.c:484`): later connections are made and never served.
* An extension connection is not closed with its process (`api.c:4675`).
* A thread can be stopped without being marked as paused, and marked as paused
  while it runs (`api.c:2242`).
* Suspend, resume and continue of the current thread leave a second copy of its
  event in the queue (`api.c:1757`): a later `WaitForDebugEvent` reports a stop of a
  thread that runs.
* `StopDebug` does not empty the queue (`api.c:2646`): the next session begins with
  events of the last one, and not with the create-process event.
* After its last attempt a temporary stop uses an uninitialised event
  (`api.c:1550`), and may continue a thread that has trapped meanwhile.
  `TrapWaitsForClient` excludes exactly this case, and the next one.
* `ResumeThread` goes by the stop that `SuspendThread` stored (`api.c:1867`). When a
  temporary stop that was waiting around the suspend has continued the thread, and the
  thread has then hit a breakpoint, the resume continues it and the breakpoint is lost.
  TLC finds this with one thread and four commands, one more than `debug_all` has.
* When `SuspendThread` took a virtual event from the queue, the thread itself is
  not stopped, and a memory command that meets its SIGSTOP continues it.
* A current event whose thread was killed stays current, because
  `PTRACE_GETSIGINFO` fails and `ContinueFromDebugEvent` returns early. The client's
  loop gets the same event again and again.
* `StopDebug` may spin on a thread that was collected before, because it looks at
  the `status` of an earlier iteration (action `StopSpins`).
* `StartDebug` during a session resets the suspend counts of stopped threads.

Read in the code, and outside the models:

* `CMD_VIRTUALQUERYEXFULL` sends no reply when it fails (`ceserver.c:992`).
* `written` also counts the words whose POKE failed (`api.c:2976`).
* An option that changes between the attach and the detach of one access leaves the
  process attached, or detaches what was not attached (`api.c:3465`).
* `AOBScan` compares a pattern that begins near the end of its 4096-byte buffer with
  what lies behind it (`native-api.c:37`).

## 6. What is not modelled, and the plan

Not modelled at all: symbols, contexts, discovery, the user interface, the kernel
driver, the hypervisor, and the bridge to an external kernel server whose code is
not in the repository. These are stateless, or graphical, or need a model of
Windows or of the processor. They are also most of the repository's lines (as are
the vendored compiler and its headers), so the share of the whole that is modelled is
small although ceserver's own logic is largely covered. `AOBScan` and the speed hack
compute with bytes and clocks that the models abstract away.

In what is modelled: what the injection writes into the target, ARM, a SIGSTOP that is pending at the
detach and stops the target afterwards, options that change during an access, the
words and bytes that are read and written, overlong lines of `maps`, reused
descriptors of socket pairs, and a `recv` of the extension that is under way on a
connection that another of its threads closes.

Plan: the safety properties of the passing runs are proved. What could be added is a
weaker form of `NoStopForgotten` for clients that start a second session on top of the
first, and of `SuspendedStays` for clients that also ask for temporary stops. Section 5
names the behaviours that such forms would have to except.
