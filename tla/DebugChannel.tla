---------------------------- MODULE DebugChannel ----------------------------
(***************************************************************************)
(* How a command reaches the debugger thread of a process.  Every connection *)
(* is a thread in the loop of newconnection (ceserver.c).  The one that      *)
(* started a debug session also serves the socket pair of the session, from  *)
(* the loop or from within a timed wait for a debug event.  Any other        *)
(* connection whose command only the debugger thread may carry out takes     *)
(* debugsocketmutex, writes the command into the pair, posts the semaphore   *)
(* and reads the answer (api.c, extensionloader.c).                          *)
(***************************************************************************)
EXTENDS Integers, Sequences

CONSTANTS
  Conn,      \* connection threads (their pthread_t; a later thread may reuse one)
  Proc,      \* the ProcessData of the opened processes
  NoOne,     \* neither a thread nor a process
  Kinds,     \* the forwarded commands that clients use
  Debuggers, \* the connections whose client debugs
  Callers,   \* the connections whose client uses the forwarded commands
  MaxPairs,  \* bound on the socket pairs, one for each session
  MaxPosts   \* the semaphore's value saturates here

\* Commands that go to the debugger thread even if there is no session, those
\* whose answer has a second part, and the one DispatchCommand has no case for.
Unchecked == {"CMD_SETBREAKPOINT", "CMD_SUSPENDTHREAD", "CMD_RESUMETHREAD"}
TwoPart   == {"CMD_READPROCESSMEMORY", "CMD_GETTHREADCONTEXT"}
Unhandled == {"CMD_PTRACE_MMAP"}
Forwarded == Unchecked \cup TwoPart \cup Unhandled \cup
             {"CMD_REMOVEBREAKPOINT", "CMD_WRITEPROCESSMEMORY", "CMD_LOADEXTENSION"}

\* Commands that wait for the target without an end: untimed in waitpid, or as
\* long as the thread to suspend is not paused.
Unbounded == {"CMD_READPROCESSMEMORY", "CMD_WRITEPROCESSMEMORY", "CMD_LOADEXTENSION",
              "CMD_SUSPENDTHREAD"}

ASSUME ChannelAssumption ==
  /\ NoOne \notin Conn \cup Proc
  /\ Kinds \subseteq Forwarded
  /\ Debuggers \subseteq Conn /\ Callers \subseteq Conn
  /\ MaxPairs \in Nat
  /\ MaxPosts \in Nat

VARIABLES
  at,                \* where each connection thread is
  call,              \* the command each thread carries out or forwards
  isDebuggerThread,  \* thread-local: the process whose session it serves
  debugfd,           \* thread-local: the pair it reads commands from, 0 for -1
  lastRead,          \* newconnection's currentsocket: "s" or "debugfd"
  isDebugged, debuggerThreadID, debuggerClient,   \* fields of ProcessData
  pairs,             \* the number of socket pairs made so far
  open,              \* the pairs whose server end is open
  requests, replies, \* what is under way in each pair
  owner,             \* the holder of debugsocketmutex
  sem                \* sem_DebugThreadEvent

threadVars == <<at, call, isDebuggerThread, debugfd, lastRead>>
procVars   == <<isDebugged, debuggerThreadID, debuggerClient>>
pairVars   == <<pairs, open, requests, replies>>
vars       == <<threadVars, procVars, pairVars, owner, sem>>

Pair == 1 .. MaxPairs

\* `into` is the pair the answer goes into and `from` the connection that waits
\* for it (0 and NoOne for a command of the thread's own client); `nested` says
\* that the command was taken in a timed wait; `reads` is the pair in which a
\* forwarding thread waits for its answer.  History: `since`, the session when
\* the call began; `sent`, the pair the command went into; `ok`, the answer is
\* complete.
Call == [proc : Proc \cup {NoOne}, kind : Forwarded \cup {"none"}, from : Conn \cup {NoOne}, into : 0 .. MaxPairs,
         nested : BOOLEAN, since : 0 .. MaxPairs, sent : 0 .. MaxPairs,
         reads : 0 .. MaxPairs, ok : BOOLEAN]
NewCall(p, kind, from, into, nested, since) ==
  [proc |-> p, kind |-> kind, from |-> from, into |-> into, nested |-> nested,
   since |-> since, sent |-> 0, reads |-> 0, ok |-> FALSE]
NoCall == NewCall(NoOne, "none", NoOne, 0, FALSE, 0)

Request == [proc : Proc, kind : Forwarded, from : Conn]
Reply   == [from : Conn, more : BOOLEAN]   \* more: a second part follows

Forwarding == {"lock", "send", "bind", "recv", "unlock"}
Places     == Forwarding \cup {"ended", "loop", "wait", "exec", "stuck", "asleep"}

Session(p) == IF isDebugged[p] THEN debuggerClient[p] ELSE 0

-----------------------------------------------------------------------------
Init ==
  /\ at = [c \in Conn |-> "ended"]
  /\ call = [c \in Conn |-> NoCall]
  /\ isDebuggerThread = [c \in Conn |-> NoOne]
  /\ debugfd = [c \in Conn |-> 0]
  /\ lastRead = [c \in Conn |-> "s"]
  /\ isDebugged = [p \in Proc |-> FALSE]
  /\ debuggerThreadID = [p \in Proc |-> NoOne]
  /\ debuggerClient = [p \in Proc |-> 0]
  /\ pairs = 0
  /\ open = {}
  /\ requests = [k \in Pair |-> <<>>]
  /\ replies = [k \in Pair |-> <<>>]
  /\ owner = NoOne
  /\ sem = 0

Goto(c, place) == at' = [at EXCEPT ![c] = place]
sem_post == sem' = IF sem < MaxPosts THEN sem + 1 ELSE sem

\* A new connection: its thread may have the identity of one that ended.
newconnection(c) ==
  /\ at[c] = "ended"
  /\ Goto(c, "loop")
  /\ UNCHANGED <<call, isDebuggerThread, debugfd, lastRead, procVars, pairVars, owner, sem>>

\* The thread returns, and its thread-local variables go with it.
Ends(c) ==
  /\ Goto(c, "ended")
  /\ isDebuggerThread' = [isDebuggerThread EXCEPT ![c] = NoOne]
  /\ debugfd' = [debugfd EXCEPT ![c] = 0]
  /\ lastRead' = [lastRead EXCEPT ![c] = "s"]

-----------------------------------------------------------------------------
(* The loop of newconnection.                                               *)

Serves(c)   == isDebuggerThread[c] # NoOne /\ debugfd[c] # 0
BadFd(c)    == Serves(c) /\ debugfd[c] \notin open
Readable(c) == Serves(c) /\ debugfd[c] \in open /\ requests[debugfd[c]] # <<>>

\* Mutant: the client's socket is always looked at first.
ReadsClient_Prefers(c) == at[c] = "loop" /\ ~BadFd(c)

\* select returned and s is read: when debugfd is readable too, only if the
\* last command came from there.
ReadsClient(c) ==
  /\ at[c] = "loop"
  /\ ~BadFd(c)
  /\ Readable(c) => lastRead[c] = "debugfd"

FromClient(c) == lastRead' = [lastRead EXCEPT ![c] = "s"]

\* CMD_STARTDEBUG.  A session that is already there is entered: its threads
\* cannot be attached again, and isDebugged is returned.
StartDebug(c, p) ==
  /\ ReadsClient(c)
  /\ FromClient(c)
  /\ isDebuggerThread' = [isDebuggerThread EXCEPT ![c] = p]
  /\ \/ /\ ~isDebugged[p]
        /\ pairs < MaxPairs
        /\ pairs' = pairs + 1
        /\ open' = open \cup {pairs + 1}
        /\ isDebugged' = [isDebugged EXCEPT ![p] = TRUE]
        /\ debuggerThreadID' = [debuggerThreadID EXCEPT ![p] = c]
        /\ debuggerClient' = [debuggerClient EXCEPT ![p] = pairs + 1]
        /\ debugfd' = [debugfd EXCEPT ![c] = pairs + 1]
     \/ /\ isDebugged[p]
        /\ debugfd' = [debugfd EXCEPT ![c] = debuggerClient[p]]
        /\ UNCHANGED <<pairs, open, procVars>>
  /\ UNCHANGED <<at, call, requests, replies, owner, sem>>

\* CMD_WAITFORDEBUGEVENT with a timeout.
WaitForDebugEvent(c) ==
  /\ ReadsClient(c)
  /\ FromClient(c)
  /\ isDebuggerThread[c] # NoOne
  /\ Goto(c, "wait")
  /\ UNCHANGED <<call, isDebuggerThread, debugfd, procVars, pairVars, owner, sem>>

\* Thread c begins a command: it carries it out (or refuses it) itself if it is
\* the debugger thread or there is no session, and forwards it otherwise.  The
\* unchecked commands look for the thread id only, which a process has after its
\* first session; SuspendThread and ResumeThread find no thread before that.
Inline(c, p, kind) ==
  \/ debuggerThreadID[p] = c
  \/ debuggerThreadID[p] = NoOne /\ kind # "CMD_SETBREAKPOINT"
  \/ ~isDebugged[p] /\ kind \notin Unchecked

Begin(c, p, kind, from, into, nested) ==
  /\ Goto(c, IF Inline(c, p, kind) THEN "exec" ELSE "lock")
  /\ call' = [call EXCEPT ![c] = NewCall(p, kind, from, into, nested, Session(p))]

ClientCommand(c, p, kind) ==
  /\ ReadsClient(c)
  /\ FromClient(c)
  /\ Begin(c, p, kind, NoOne, 0, FALSE)
  /\ UNCHANGED <<isDebuggerThread, debugfd, procVars, pairVars, owner, sem>>

\* Thread c takes the next command of pair k.  One without a case in
\* DispatchCommand is skipped byte by byte; the next byte, the process handle
\* 1, is CMD_CLOSECONNECTION, which closes the server end.
Take(c, k, nested) ==
  LET r == Head(requests[k])
  IN IF r.kind \in Unhandled
     THEN /\ open' = open \ {k}
          /\ requests' = [requests EXCEPT ![k] = <<>>]
          /\ UNCHANGED <<at, call, pairs, replies>>
     ELSE /\ requests' = [requests EXCEPT ![k] = Tail(@)]
          /\ Begin(c, r.proc, r.kind, r.from, k, nested)
          /\ UNCHANGED <<pairs, open, replies>>

ReadsDebugfd(c) ==
  /\ at[c] = "loop"
  /\ Readable(c)
  /\ lastRead' = [lastRead EXCEPT ![c] = "debugfd"]
  /\ Take(c, debugfd[c], FALSE)
  /\ UNCHANGED <<isDebuggerThread, debugfd, procVars, owner, sem>>

\* select fails with EBADF, and the thread sleeps for ever.
SelectFails(c) ==
  /\ at[c] = "loop"
  /\ BadFd(c)
  /\ Goto(c, "asleep")
  /\ UNCHANGED <<call, isDebuggerThread, debugfd, lastRead, procVars, pairVars, owner, sem>>

\* CMD_CLOSECONNECTION on s: the next read of s fails with EBADF, or select
\* does.
CloseConnection(c) ==
  /\ ReadsClient(c)
  /\ \/ ~Serves(c) /\ Ends(c)
     \/ Serves(c) /\ Goto(c, "asleep") /\ UNCHANGED <<isDebuggerThread, debugfd, lastRead>>
  /\ UNCHANGED <<call, procVars, pairVars, owner, sem>>

\* r == -1: the thread ends, its session stays.
ReadError(c) ==
  /\ ReadsClient(c)
  /\ Ends(c)
  /\ UNCHANGED <<call, procVars, pairVars, owner, sem>>

\* What StopDebug does to the channel.
StopDebug(p) ==
  /\ isDebugged' = [isDebugged EXCEPT ![p] = FALSE]
  /\ debuggerClient' = [debuggerClient EXCEPT ![p] = 0]
  /\ open' = open \ {debuggerClient[p]}
  /\ requests' = [k \in Pair |-> IF k = debuggerClient[p] THEN <<>> ELSE requests[k]]

\* r == 0: the client closed its socket.  The thread that began a session has
\* a name; one that entered a session has one if its client gave it.
Disconnect(c) ==
  /\ ReadsClient(c)
  /\ Ends(c)
  /\ LET p == isDebuggerThread[c]
     IN \/ /\ p # NoOne
           /\ StopDebug(p)
        \/ /\ p # NoOne => debuggerThreadID[p] # c
           /\ UNCHANGED <<isDebugged, debuggerClient, open, requests>>
  /\ UNCHANGED <<call, debuggerThreadID, pairs, replies, owner, sem>>

-----------------------------------------------------------------------------
(* WaitForDebugEventNative with a timeout.                                  *)

\* Mutant: the result of sem_timedwait is not looked at.
WakesUp_AnyResult(c) ==
  /\ at[c] = "wait"
  /\ sem' = sem - 1
  /\ Goto(c, "wait") \/ Goto(c, "loop")
  /\ UNCHANGED <<call, isDebuggerThread, debugfd, lastRead, procVars, pairVars, owner>>

\* sem_timedwait took a post: CheckForAndDispatchCommand, then the events.
WakesUp(c) ==
  /\ at[c] = "wait"
  /\ sem > 0
  /\ sem' = sem - 1
  /\ LET k == debuggerClient[isDebuggerThread[c]]
         waiting == k \in open /\ requests[k] # <<>>
     IN \/ /\ waiting
           /\ Take(c, k, TRUE)
        \/ /\ ~waiting
           /\ Goto(c, "wait") \/ Goto(c, "loop")
           /\ UNCHANGED <<call, pairVars>>
  /\ UNCHANGED <<isDebuggerThread, debugfd, lastRead, procVars, owner>>

\* ETIMEDOUT.
TimesOut(c) ==
  /\ at[c] = "wait"
  /\ Goto(c, "loop")
  /\ UNCHANGED <<call, isDebuggerThread, debugfd, lastRead, procVars, pairVars, owner, sem>>

-----------------------------------------------------------------------------
(* The forwarding connection.                                               *)

\* Mutant: no lock around the exchange.
Lock_NoWait(c) ==
  /\ at[c] = "lock"
  /\ owner' = c
  /\ Goto(c, "send")
  /\ UNCHANGED <<call, isDebuggerThread, debugfd, lastRead, procVars, pairVars, sem>>

Lock(c) ==
  /\ at[c] = "lock"
  /\ owner = NoOne
  /\ owner' = c
  /\ Goto(c, "send")
  /\ UNCHANGED <<call, isDebuggerThread, debugfd, lastRead, procVars, pairVars, sem>>

\* sendall and WakeDebuggerThread.  An error of sendall is not looked at: the
\* field is 0 after StopDebug, and the server end may be closed.
Send(c) ==
  /\ at[c] = "send"
  /\ LET x == call[c]
         k == debuggerClient[x.proc]
     IN /\ call' = [call EXCEPT ![c].sent = IF k \in open THEN k ELSE 0]
        /\ requests' = IF k \in open
                       THEN [requests EXCEPT ![k] =
                               Append(@, [proc |-> x.proc, kind |-> x.kind, from |-> c])]
                       ELSE requests
  /\ sem_post
  /\ Goto(c, "bind")
  /\ UNCHANGED <<isDebuggerThread, debugfd, lastRead, procVars, pairs, open, replies, owner>>

\* recvall reads the field again; with 0 it fails at once.
Bind(c) ==
  /\ at[c] = "bind"
  /\ LET k == debuggerClient[call[c].proc]
     IN /\ call' = [call EXCEPT ![c].reads = k]
        /\ Goto(c, IF k = 0 THEN "unlock" ELSE "recv")
  /\ UNCHANGED <<isDebuggerThread, debugfd, lastRead, procVars, pairVars, owner, sem>>

\* Mutant: the read of the answer does not wait.
Receive_DontWait(c) ==
  /\ at[c] = "recv"
  /\ replies[call[c].reads] = <<>>
  /\ Goto(c, "unlock")
  /\ UNCHANGED <<call, isDebuggerThread, debugfd, lastRead, procVars, pairVars, owner, sem>>

\* What was written before the close is still read.
Receive(c) ==
  /\ at[c] = "recv"
  /\ LET k == call[c].reads
         r == Head(replies[k])
     IN \/ /\ replies[k] # <<>>
           /\ replies' = [replies EXCEPT ![k] = Tail(@)]
           /\ call' = [call EXCEPT ![c].ok = ~r.more]
           /\ Goto(c, IF r.more THEN "bind" ELSE "unlock")
        \/ /\ replies[k] = <<>>
           /\ k \notin open
           /\ Goto(c, "unlock")
           /\ UNCHANGED <<call, replies>>
  /\ UNCHANGED <<isDebuggerThread, debugfd, lastRead, procVars, pairs, open, requests, owner, sem>>

Unlock(c) ==
  /\ at[c] = "unlock"
  /\ owner' = NoOne
  /\ Goto(c, "exec")
  /\ LET x == call[c]
     IN call' = [call EXCEPT ![c] = NewCall(x.proc, x.kind, x.from, x.into, x.nested, 0)]
  /\ UNCHANGED <<isDebuggerThread, debugfd, lastRead, procVars, pairVars, sem>>

\* Mutant: an answer of one part is sent twice.
Answer_Twice(c, more) ==
  IF more THEN <<[from |-> call[c].from, more |-> TRUE], [from |-> call[c].from, more |-> FALSE]>>
          ELSE <<[from |-> call[c].from, more |-> FALSE], [from |-> call[c].from, more |-> FALSE]>>

Answer(c, more) ==
  IF more THEN <<[from |-> call[c].from, more |-> TRUE], [from |-> call[c].from, more |-> FALSE]>>
          ELSE <<[from |-> call[c].from, more |-> FALSE]>>

\* DispatchCommand has the result and sends it to where the command came from.
Finish(c) ==
  /\ at[c] = "exec"
  /\ LET x == call[c]
     IN /\ \E more \in BOOLEAN :
             /\ more => x.kind \in TwoPart
             /\ replies' = IF x.into \in open
                           THEN [replies EXCEPT ![x.into] = @ \o Answer(c, more)]
                           ELSE replies
        /\ Goto(c, IF x.nested THEN "wait" ELSE "loop")
  /\ call' = [call EXCEPT ![c] = NoCall]
  /\ UNCHANGED <<isDebuggerThread, debugfd, lastRead, procVars, pairs, open, requests, owner,
                 sem>>

\* The thread that the command waits for never stops, and nor does the wait: of the
\* debugger thread, or of a thread that attaches to a target without a session.
Blocks(c) ==
  /\ at[c] = "exec"
  /\ LET x == call[c]
     IN \/ debuggerThreadID[x.proc] = c /\ x.kind \in Unbounded
        \/ ~isDebugged[x.proc] /\ x.kind \in TwoPart \cup (Unbounded \ Unchecked)
  /\ Goto(c, "stuck")
  /\ UNCHANGED <<call, isDebuggerThread, debugfd, lastRead, procVars, pairVars, owner, sem>>

\* The SIGCHLD handler posts the semaphore too, whatever the target did.
mychildhandler ==
  /\ sem_post
  /\ UNCHANGED <<threadVars, procVars, pairVars, owner>>

-----------------------------------------------------------------------------
Client(c) ==
  \/ newconnection(c)
  \/ c \in Debuggers /\ \E p \in Proc : StartDebug(c, p)
  \/ WaitForDebugEvent(c)
  \/ c \in Callers /\ \E p \in Proc, kind \in Kinds : ClientCommand(c, p, kind)
  \/ CloseConnection(c)
  \/ ReadError(c)
  \/ Disconnect(c)

Forwards(c) == Lock(c) \/ Send(c) \/ Bind(c) \/ Receive(c) \/ Unlock(c)
Dispatches(c) == ReadsDebugfd(c) \/ SelectFails(c) \/ WakesUp(c) \/ TimesOut(c) \/ Finish(c)

Next ==
  \/ \E c \in Conn : Client(c) \/ Forwards(c) \/ Dispatches(c) \/ Blocks(c)
  \/ mychildhandler

Spec == Init /\ [][Next]_vars

\* A thread runs, sem_timedwait ends, a command ends unless it blocks, and the
\* holder of the lock goes on.  Nothing is asked of the clients, and a mutex need
\* not be fair.
FairSpec ==
  /\ Spec
  /\ \A c \in Conn : /\ WF_vars(Dispatches(c))
                     /\ WF_vars(Send(c) \/ Bind(c) \/ Receive(c) \/ Unlock(c))

-----------------------------------------------------------------------------
\* Threads, processes and pairs have the values the code can give them.
TypeOK ==
  /\ at \in [Conn -> Places]
  /\ call \in [Conn -> Call]
  /\ isDebuggerThread \in [Conn -> Proc \cup {NoOne}]
  /\ debugfd \in [Conn -> 0 .. MaxPairs]
  /\ lastRead \in [Conn -> {"s", "debugfd"}]
  /\ isDebugged \in [Proc -> BOOLEAN]
  /\ debuggerThreadID \in [Proc -> Conn \cup {NoOne}]
  /\ debuggerClient \in [Proc -> 0 .. MaxPairs]
  /\ pairs \in 0 .. MaxPairs
  /\ open \subseteq 1 .. pairs
  /\ requests \in [Pair -> Seq(Request)]
  /\ replies \in [Pair -> Seq(Reply)]
  /\ owner \in Conn \cup {NoOne}
  /\ sem \in 0 .. MaxPosts

\* What a forwarding connection reads is the answer to its own command, sent
\* into the pair it reads: an answer never goes to another connection, however
\* sessions end and begin while commands are under way.
AnswerIsOwn ==
  \A c \in Conn :
    at[c] = "recv" /\ replies[call[c].reads] # <<>>
      => Head(replies[call[c].reads]).from = c /\ call[c].sent = call[c].reads

\* Whoever takes debugsocketmutex finds the channel of every session empty: no
\* command and no part of an answer of an earlier exchange is left in it.
Drained ==
  owner = NoOne => \A k \in open : requests[k] = <<>> /\ replies[k] = <<>>

\* Why a holder of debugsocketmutex may never get its answer: the thread of
\* the session is gone (a read error), asleep (a closed descriptor) or stuck in a
\* command that waits for the target, or serves another process; a second
\* connection entered the session; the debugger thread itself waits for
\* debugsocketmutex; or the session was replaced between the write of the command
\* and the read of the answer.
Neglected(c) ==
  LET p == call[c].proc
      d == debuggerThreadID[p]
  IN \/ /\ isDebugged[p]
        /\ \/ at[d] \in {"ended", "asleep", "stuck"} \cup Forwarding
           \/ isDebuggerThread[d] # p
           \/ \E e \in Conn \ {d} : isDebuggerThread[e] = p /\ at[e] # "ended"
     \/ at[c] = "recv" /\ call[c].reads # call[c].sent

\* Unless it is neglected in one of these ways, a connection that forwards a
\* command releases debugsocketmutex: the debugger thread serves the pair from
\* its loop, however busy its own client keeps it, and from its waits, also when
\* another debugger thread took the post that was meant for it; and the end of
\* the session wakes whoever waits.
Answered == \A c \in Conn : owner = c ~> (owner # c \/ Neglected(c))

-----------------------------------------------------------------------------
(* The refinement: what a client sees of a forwarded command.               *)

\* The debugger thread has answered, and not all of it is read.
HasAnswer(c) ==
  /\ call[c].sent # 0
  /\ \E i \in DOMAIN replies[call[c].sent] : replies[call[c].sent][i].from = c

phaseOf(c) ==
  IF at[c] = "unlock" THEN IF call[c].ok THEN "answered" ELSE "failed"
  ELSE IF HasAnswer(c) THEN "executed" ELSE "asked"

callOf(c) ==
  IF at[c] \in Forwarding
  THEN [phase |-> phaseOf(c), proc |-> call[c].proc, since |-> call[c].since]
  ELSE [phase |-> "idle"]

Promise == INSTANCE ForwardedCall WITH
  calls <- [c \in Conn |-> callOf(c)],
  live  <- [p \in Proc |-> Session(p)]

\* The channel keeps the promise of ForwardedCall.
KeepsPromise == Promise!Spec
=============================================================================
