---------------------------- MODULE MemoryAccess ----------------------------
(***************************************************************************)
(* How the connection threads of ceserver reach the memory of processes     *)
(* (api.c): ReadProcessMemory and WriteProcessMemory with the quick          *)
(* PTRACE_ATTACH of ptrace_attach_andwait, memorymutex, and the shared file  *)
(* offset of /proc/pid/mem; GetThreadContext without a debugger; and         *)
(* StartDebug, which attaches to the same tasks.  What goes through the      *)
(* debugger thread is the subject of DebugChannel, the events of a session   *)
(* that of Debugger.                                                         *)
(***************************************************************************)
EXTENDS Naturals, FiniteSets

CONSTANTS
  Conn,      \* connection threads
  Proc,      \* the opened processes
  NoOne,     \* neither a thread nor a task
  NT,        \* tasks of each process
  Options,   \* settings of the options the server is started with
  Debuggers, \* connections whose client debugs
  Debuggees, \* the processes they debug
  Mortal,    \* the processes that may be killed
  Ops        \* what the clients ask for

Task     == Proc \X (1 .. NT)
Main(p)  == <<p, 1>>      \* its tid is p->pid
Setting  == [mso : 0 .. 2, atam : BOOLEAN, atwm : BOOLEAN, memrw : BOOLEAN]
Access   == {"read", "write", "context"}

ASSUME AccessAssumption ==
  /\ NoOne \notin Conn \cup Task
  /\ NT \in Nat /\ NT > 0
  /\ Options \subseteq Setting
  /\ Debuggers \subseteq Conn /\ Debuggees \subseteq Proc /\ Mortal \subseteq Proc
  /\ Ops \subseteq Access

VARIABLES
  opt,        \* MEMORY_SEARCH_OPTION (3 is as 2), ATTACH_TO_ACCESS_MEMORY,
              \* ATTACH_TO_WRITE_MEMORY, and whether p->mem is open for writing
  at,         \* where each thread is
  acc,        \* the access it makes
  owner,      \* the holder of memorymutex
  offset,     \* the file offset of p->mem: that of a thread's access (each
              \* thread has an address of its own), NoOne behind one
  isDebugged, debuggerThread,  \* of ProcessData
  tracer,     \* kernel: the thread that traces each task
  stop,       \* kernel: how the task is: "runs", "sigstop", "signal" or "both",
              \* the second first (stopped, nobody has collected that),
              \* "collected", "exited"
  gone,       \* the processes that were killed
  notes       \* history: "unlocked", a quick attach was made without the
              \* mutex, or the mutex released by a thread that did not hold it;
              \* "strayed", an access took the mutex in a debug session;
              \* "mixed", a wait gave what happened to a task it was not
              \* meant for

kernel == <<tracer, stop, gone>>
session == <<isDebugged, debuggerThread>>
vars   == <<opt, at, acc, owner, offset, session, kernel, notes>>

\* `quick`: without memorymutex; `got`: what ptrace_attach_andwait returned;
\* `n`: the task StartDebug has come to.
Record == [op : Access \cup {"debugread", "StartDebug", "none"}, proc : Proc \cup {NoOne},
           quick : BOOLEAN, got : Task \cup {NoOne},
           written : BOOLEAN, n : 1 .. NT]
NewAccess(op, p, quick) ==
  [op |-> op, proc |-> p, quick |-> quick, got |-> NoOne, written |-> FALSE, n |-> 1]
NoAccess == NewAccess("none", NoOne, FALSE)

-----------------------------------------------------------------------------
Init ==
  /\ opt \in Options
  /\ at = [c \in Conn |-> "idle"]
  /\ acc = [c \in Conn |-> NoAccess]
  /\ owner = NoOne
  /\ offset = [p \in Proc |-> NoOne]
  /\ isDebugged = [p \in Proc |-> FALSE]
  /\ debuggerThread = [p \in Proc |-> NoOne]
  /\ tracer = [t \in Task |-> NoOne]
  /\ stop = [t \in Task |-> "runs"]
  /\ gone = {}
  /\ notes = {}

Goto(c, place) == at' = [at EXCEPT ![c] = place]
Return(c) == Goto(c, "idle") /\ acc' = [acc EXCEPT ![c] = NoAccess]

Attaches(op, o) == CASE op = "read" -> o.atam [] op = "write" -> o.atwm [] OTHER -> op = "context"

\* Where an access goes on once it may touch the memory: lseek64 comes first
\* when the memory is reached through p->mem.
UsesFile(x, o) ==
  /\ o.mso = 0
  /\ x.op = "write" => o.memrw
  /\ x.op # "context"
Ready(x, o) == IF UsesFile(x, o) THEN "seek" ELSE "access"

-----------------------------------------------------------------------------
(* The commands.                                                            *)

\* Mutant: any connection reads the memory of a debugged process.
ReadsItself_Any(c, p) == isDebugged[p]

ReadsItself(c, p) == isDebugged[p] /\ debuggerThread[p] = c

\* process_vm_readv and process_vm_writev are tried first, without the mutex,
\* and reads with them also in a session; otherwise the debugger thread reads
\* through p->mem while a session lasts, and others forward to it.
Begin(c, op, p) ==
  /\ at[c] = "idle"
  /\ \/ /\ op = "read" /\ opt.mso = 2
        /\ acc' = [acc EXCEPT ![c] = NewAccess(op, p, TRUE)]
        /\ Goto(c, IF opt.atam THEN "attach" ELSE "access")
     \/ /\ op = "write" /\ opt.mso = 2 /\ ~isDebugged[p]
        /\ acc' = [acc EXCEPT ![c] = NewAccess(op, p, TRUE)]
        /\ Goto(c, IF opt.atwm THEN "attach" ELSE "access")
     \/ /\ op \in {"read", "write"} /\ opt.mso # 2 /\ ~isDebugged[p]
        /\ acc' = [acc EXCEPT ![c] = NewAccess(op, p, FALSE)]
        /\ Goto(c, "lock")
     \/ /\ op = "read" /\ opt.mso = 0 /\ ReadsItself(c, p)
        /\ acc' = [acc EXCEPT ![c] = NewAccess("debugread", p, TRUE)]
        /\ Goto(c, "seek")
     \/ /\ op = "context" /\ ~isDebugged[p]
        /\ acc' = [acc EXCEPT ![c] = NewAccess(op, p, TRUE)]
        /\ Goto(c, "attach")
  /\ UNCHANGED <<opt, owner, offset, session, kernel, notes>>

\* Mutant: a mutex for each process.
Lock_PerProcess(c) ==
  /\ at[c] = "lock"
  /\ owner # NoOne => acc[owner].proc # acc[c].proc
  /\ owner' = c
  /\ opt' = [opt EXCEPT !.atwm = @ \/ (acc[c].op = "write" /\ ~opt.memrw)]
  /\ Goto(c, IF Attaches(acc[c].op, opt') THEN "attach" ELSE Ready(acc[c], opt))
  /\ notes' = notes \cup (IF isDebugged[acc[c].proc] THEN {"strayed"} ELSE {})
  /\ UNCHANGED <<acc, offset, session, kernel>>

\* A write without a writable p->mem switches ATTACH_TO_WRITE_MEMORY on.
Lock(c) ==
  /\ at[c] = "lock"
  /\ owner = NoOne
  /\ owner' = c
  /\ opt' = [opt EXCEPT !.atwm = @ \/ (acc[c].op = "write" /\ ~opt.memrw)]
  /\ Goto(c, IF Attaches(acc[c].op, opt') THEN "attach" ELSE Ready(acc[c], opt))
  /\ notes' = notes \cup (IF isDebugged[acc[c].proc] THEN {"strayed"} ELSE {})
  /\ UNCHANGED <<acc, offset, session, kernel>>

\* Mutant: the error path forgets the mutex.
Failed_KeepsMutex(c) ==
  IF acc[c].quick /\ acc[c].op = "write" THEN Goto(c, "access") /\ UNCHANGED acc ELSE Return(c)

\* What follows a ptrace_attach_andwait that gave an error.
Failed(c) ==
  IF ~acc[c].quick THEN Goto(c, "unlock") /\ UNCHANGED acc
  ELSE IF acc[c].op = "write" THEN Goto(c, "access") /\ UNCHANGED acc
  ELSE Return(c)

\* PTRACE_ATTACH.
Attach(c) ==
  /\ at[c] = "attach"
  /\ LET t == Main(acc[c].proc)
     IN \/ /\ tracer[t] = NoOne /\ acc[c].proc \notin gone
           /\ tracer' = [tracer EXCEPT ![t] = c]
           /\ \E first \in {"sigstop", "both"} : stop' = [stop EXCEPT ![t] = first]
           /\ notes' = notes \cup (IF acc[c].quick THEN {"unlocked"} ELSE {})
           /\ Goto(c, "wait")
           /\ UNCHANGED acc
        \/ /\ tracer[t] # NoOne \/ acc[c].proc \in gone
           /\ Failed(c)
           /\ UNCHANGED <<tracer, stop, notes>>
  /\ UNCHANGED <<opt, owner, offset, session, gone>>

Waitable(t) == tracer[t] # NoOne /\ stop[t] \in {"sigstop", "signal", "both", "exited"}

\* One turn of the loop of ptrace_attach_andwait: waitpid(-1) gives any stop or
\* exit of a task that any thread of the server traces, or ECHILD when there is
\* none, which leaves the status as it was.
Wait(c) ==
  /\ at[c] = "wait"
  /\ \/ \E t \in Task :
          /\ Waitable(t)
          /\ notes' = notes \cup (IF t = Main(acc[c].proc) THEN {} ELSE {"mixed"})
          /\ \/ /\ stop[t] = "sigstop"
                /\ stop' = [stop EXCEPT ![t] = "collected"]
                /\ acc' = [acc EXCEPT ![c].got = t]
                /\ Goto(c, IF acc[c].quick THEN "access" ELSE Ready(acc[c], opt))
                /\ UNCHANGED tracer
             \/ /\ stop[t] \in {"signal", "both"}   \* PTRACE_CONT, of its own tracees only
                /\ stop' = [stop EXCEPT ![t] = IF tracer[t] # c THEN "collected"
                                               ELSE IF @ = "both" THEN "sigstop" ELSE "runs"]
                /\ UNCHANGED <<at, acc, tracer>>
             \/ /\ stop[t] = "exited"
                /\ tracer' = [tracer EXCEPT ![t] = NoOne]
                /\ Failed(c)
                /\ UNCHANGED stop
     \/ /\ \A t \in Task : tracer[t] = NoOne
        /\ Failed(c)
        /\ UNCHANGED <<tracer, stop, notes>>
  /\ UNCHANGED <<opt, owner, offset, session, gone>>

Seek(c) ==
  /\ at[c] = "seek"
  /\ offset' = [offset EXCEPT ![acc[c].proc] = c]
  /\ Goto(c, "access")
  /\ UNCHANGED <<opt, acc, owner, session, kernel, notes>>

\* read or write of p->mem, which moves the offset, process_vm_*v, PTRACE_PEEK
\* and POKE, or getContext.
TouchMemory(c) ==
  /\ at[c] = "access"
  /\ offset' = IF UsesFile(acc[c], opt) THEN [offset EXCEPT ![acc[c].proc] = NoOne] ELSE offset
  /\ IF acc[c].op = "debugread" THEN Return(c)
     ELSE /\ Goto(c, "detach")
          /\ \E written \in BOOLEAN :
               /\ written => acc[c].quick /\ acc[c].op = "write"
               /\ acc' = [acc EXCEPT ![c].written = written]
  /\ UNCHANGED <<opt, owner, session, kernel, notes>>

\* Mutant: a write does not detach what it attached.
Detaches_NotWrites(c) == acc[c].op # "write" /\ Attaches(acc[c].op, opt)

\* Whether PTRACE_DETACH is called.
Detaches(c) ==
  IF acc[c].quick /\ acc[c].op = "write" THEN acc[c].got # NoOne ELSE Attaches(acc[c].op, opt)

Detach(c) ==
  /\ at[c] = "detach"
  /\ LET t == acc[c].got
     IN IF Detaches(c) /\ t # NoOne /\ tracer[t] = c /\ stop[t] # "exited"
        THEN /\ tracer' = [tracer EXCEPT ![t] = NoOne]
             /\ stop' = [stop EXCEPT ![t] = "runs"]
        ELSE UNCHANGED <<tracer, stop>>
  /\ IF acc[c].quick /\ acc[c].op # "write" THEN Return(c) ELSE Goto(c, "unlock") /\ UNCHANGED acc
  /\ UNCHANGED <<opt, owner, offset, session, gone, notes>>

\* pthread_mutex_unlock, by whomever.  A quick write that wrote nothing goes on
\* with the other methods, under the mutex.
Unlock(c) ==
  /\ at[c] = "unlock"
  /\ owner' = NoOne
  /\ IF acc[c].quick /\ ~acc[c].written
     THEN /\ Goto(c, "lock")
          /\ acc' = [acc EXCEPT ![c] = NewAccess("write", acc[c].proc, FALSE)]
     ELSE Return(c)
  /\ notes' = notes \cup (IF owner # c THEN {"unlocked"} ELSE {})
  /\ UNCHANGED <<opt, offset, session, kernel>>

-----------------------------------------------------------------------------
(* Debug sessions, as far as they attach, collect stops and detach.         *)

StartDebug(c, p) ==
  /\ at[c] = "idle"
  /\ acc' = [acc EXCEPT ![c] = NewAccess("StartDebug", p, FALSE)]
  /\ Goto(c, "taskdir")
  /\ UNCHANGED <<opt, owner, offset, session, kernel, notes>>

\* Mutant: StartDebug does not take the mutex.
LockTask_NoWait(c) ==
  /\ at[c] = "taskdir"
  /\ Goto(c, "attachtask")
  /\ UNCHANGED <<opt, acc, owner, offset, session, kernel, notes>>

LockTask(c) ==
  /\ at[c] = "taskdir"
  /\ owner = NoOne
  /\ owner' = c
  /\ Goto(c, "attachtask")
  /\ UNCHANGED <<opt, acc, offset, session, kernel, notes>>

\* The first task that could be attached begins the session.
AttachTask(c) ==
  /\ at[c] = "attachtask"
  /\ LET p == acc[c].proc
         t == <<p, acc[c].n>>
     IN \/ /\ tracer[t] = NoOne /\ p \notin gone
           /\ tracer' = [tracer EXCEPT ![t] = c]
           /\ stop' = [stop EXCEPT ![t] = "sigstop"]
           /\ isDebugged' = [isDebugged EXCEPT ![p] = TRUE]
           /\ debuggerThread' = [debuggerThread EXCEPT ![p] = IF isDebugged[p] THEN @ ELSE c]
        \/ /\ tracer[t] # NoOne \/ p \in gone
           /\ UNCHANGED <<tracer, stop, session>>
  /\ Goto(c, "taskdone")
  /\ UNCHANGED <<opt, acc, owner, offset, gone, notes>>

\* Mutant: one turn too many.
MoreTasks_OneMore(c) == acc[c].n <= NT

MoreTasks(c) == acc[c].n < NT

UnlockTask(c) ==
  /\ at[c] = "taskdone"
  /\ owner' = NoOne
  /\ IF MoreTasks(c)
     THEN /\ acc' = [acc EXCEPT ![c].n = @ + 1]
          /\ Goto(c, "taskdir")
     ELSE Return(c)
  /\ UNCHANGED <<opt, offset, session, kernel, notes>>

Debugs(c) == at[c] = "idle" /\ \E p \in Proc : isDebugged[p] /\ debuggerThread[p] = c

\* WaitForDebugEventNative: its waitpid(-1) too gives anything there is.
WaitForDebugEvent(c) ==
  /\ Debugs(c)
  /\ \E t \in Task :
       /\ Waitable(t)
       /\ notes' = notes \cup (IF tracer[t] = c THEN {} ELSE {"mixed"})
       /\ IF stop[t] = "exited"
          THEN tracer' = [tracer EXCEPT ![t] = NoOne] /\ UNCHANGED stop
          ELSE stop' = [stop EXCEPT ![t] = "collected"] /\ UNCHANGED tracer
  /\ UNCHANGED <<opt, at, acc, owner, offset, session, gone>>

ContinueFromDebugEvent(c) ==
  /\ Debugs(c)
  /\ \E t \in Task :
       /\ tracer[t] = c /\ stop[t] = "collected"
       /\ stop' = [stop EXCEPT ![t] = "runs"]
  /\ UNCHANGED <<opt, at, acc, owner, offset, session, tracer, gone, notes>>

StopDebug(c, p) ==
  /\ at[c] = "idle"
  /\ isDebugged[p] /\ debuggerThread[p] = c
  /\ isDebugged' = [isDebugged EXCEPT ![p] = FALSE]
  /\ LET mine == {t \in Task : t[1] = p /\ tracer[t] = c}
     IN /\ tracer' = [t \in Task |-> IF t \in mine THEN NoOne ELSE tracer[t]]
        /\ stop' = [t \in Task |-> IF t \in mine /\ p \notin gone THEN "runs" ELSE stop[t]]
  /\ UNCHANGED <<opt, at, acc, owner, offset, debuggerThread, gone, notes>>

-----------------------------------------------------------------------------
(* The targets.                                                             *)

Signal(t) ==
  /\ tracer[t] # NoOne /\ stop[t] = "runs"
  /\ stop' = [stop EXCEPT ![t] = "signal"]
  /\ UNCHANGED <<opt, at, acc, owner, offset, session, tracer, gone, notes>>

Kill(p) ==
  /\ p \notin gone
  /\ gone' = gone \cup {p}
  /\ stop' = [t \in Task |-> IF t[1] = p THEN "exited" ELSE stop[t]]
  /\ UNCHANGED <<opt, at, acc, owner, offset, session, tracer, notes>>

-----------------------------------------------------------------------------
Accesses(c) ==
  Lock(c) \/ Attach(c) \/ Wait(c) \/ Seek(c) \/ TouchMemory(c) \/ Detach(c) \/ Unlock(c)
Debugging(c) == LockTask(c) \/ AttachTask(c) \/ UnlockTask(c)

Next ==
  \/ \E c \in Conn :
       \/ \E op \in Ops, p \in Proc : Begin(c, op, p)
       \/ Accesses(c)
       \/ c \in Debuggers /\ \E p \in Debuggees : StartDebug(c, p) \/ StopDebug(c, p)
       \/ Debugging(c)
       \/ WaitForDebugEvent(c) \/ ContinueFromDebugEvent(c)
  \/ \E t \in Task : Signal(t)
  \/ \E p \in Mortal : Kill(p)

Spec == Init /\ [][Next]_vars

\* A thread that can go on does.  The mutex need not be fair.
FairSpec ==
  Spec /\ \A c \in Conn : WF_vars((Accesses(c) /\ at[c] # "lock") \/ AttachTask(c) \/ UnlockTask(c))

-----------------------------------------------------------------------------
\* Types; the count of the tasks that StartDebug has reached stays in range.
TypeOK ==
  /\ opt \in Setting
  /\ at \in [Conn -> {"idle", "lock", "attach", "wait", "seek", "access", "detach", "unlock",
                      "taskdir", "attachtask", "taskdone"}]
  /\ acc \in [Conn -> Record]
  /\ owner \in Conn \cup {NoOne}
  /\ offset \in [Proc -> Conn \cup {NoOne}]
  /\ isDebugged \in [Proc -> BOOLEAN]
  /\ debuggerThread \in [Proc -> Conn \cup {NoOne}]
  /\ tracer \in [Task -> Conn \cup {NoOne}]
  /\ stop \in [Task -> {"runs", "sigstop", "signal", "both", "collected",
                       "exited"}]
  /\ gone \subseteq Proc
  /\ notes \subseteq {"unlocked", "strayed", "mixed"}

\* A quick attach of d is under way on the living process p.
Busy(d, p) ==
  /\ acc[d].op \in Access /\ acc[d].proc = p
  /\ at[d] = "wait" \/ acc[d].got # NoOne
  /\ p \notin gone /\ tracer[Main(p)] = d

Undisturbed == notes \subseteq {"strayed"}

\* As long as memorymutex is kept and no wait is given the stop of another,
\* StartDebug never comes upon a task that a read or a write has attached for a
\* moment, so that it attaches every task of the process.
NoAttachBusy ==
  Undisturbed =>
    \A c, d \in Conn : at[c] = "attachtask" => ~Busy(d, acc[c].proc)

\* And as long as that is so, a thread that waits for the task it attached can
\* only be given its own stop, one of a debug session, or the exit of a process that
\* was killed when another access had it stopped: no two accesses mix up their
\* stops, also of different processes.
WaitsForOwn ==
  Undisturbed =>
    \A c \in Conn, t \in Task :
      at[c] = "wait" /\ Waitable(t) => t = Main(acc[c].proc) \/ isDebugged[t[1]] \/ t[1] \in gone

\* When nobody accesses memory and no session is on, no task of a living
\* process is left attached or stopped.
NothingLeft ==
  "mixed" \notin notes /\ (\A c \in Conn : at[c] = "idle") =>
    \A t \in Task :
      ~isDebugged[t[1]] /\ t[1] \notin gone => tracer[t] = NoOne /\ stop[t] = "runs"

\* A read or write of p->mem happens at its own address: nobody moves the
\* offset between lseek64 and the access, unless an access took the mutex
\* after a debug session began, having seen isDebugged before.
OwnAddress ==
  "strayed" \notin notes =>
    \A c \in Conn : at[c] = "access" /\ UsesFile(acc[c], opt)
                      => offset[acc[c].proc] = c

\* ptrace_attach_andwait returns a task that this thread attached.
AttachedOwn ==
  \A c \in Conn :
    at[c] \in {"seek", "access", "detach"} /\ acc[c].got # NoOne => tracer[acc[c].got] = c

\* Whoever has memorymutex releases it, unless another thread collected the stop
\* it waits for.
MutexReleased ==
  \A c \in Conn :
    owner = c ~> \/ owner # c
                 \/ "mixed" \in notes
=============================================================================
