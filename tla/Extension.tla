------------------------------ MODULE Extension ------------------------------
(***************************************************************************)
(* The extension ceserver loads into a process: the calls of                *)
(* extensionfunctions.c, the part of loadCEServerExtension and loadExtension *)
(* that decides when to inject and keeps the connection (extensionloader.c), *)
(* and the server inside the target (extension/server.c), whose threads know *)
(* their connection by a descriptor number only.                            *)
(*                                                                           *)
(* A request and its answer are the number of the call.  How the library is  *)
(* injected is left out; the forwarding of a load to the debugger thread is  *)
(* DebugChannel.  A server thread closes its descriptor and then goes once   *)
(* more round its loop with the number; when accept gives that number away   *)
(* in between two threads have one connection and share what is sent on it   *)
(* ("reused"); of a recv under way, which keeps a connection that another    *)
(* thread closes, only the end is modelled.                                  *)
(***************************************************************************)
EXTENDS Integers, Sequences, FiniteSets, FiniteSetsExt

CONSTANTS
  Conn,      \* connection threads of ceserver that use this process
  NoOne,     \* no thread
  MaxSock,   \* bound: connections made to the extension
  MaxFd,     \* descriptors the target can have for them
  MaxCalls,  \* bound: calls
  MaxStarts  \* bound: times ceserver starts again or opens the process anew

Sock == 1 .. MaxSock
Fd   == 1 .. MaxFd

ASSUME ExtensionAssumption ==
  /\ NoOne \notin Conn
  /\ {MaxSock, MaxFd, MaxCalls, MaxStarts} \subseteq Nat

VARIABLES
  at, id, result,   \* of each thread: its place, the call's number, its answer
  probe,            \* the connection isExtensionLoaded made, 0 for none
  loaded, extensionFD, extensionMutex,  \* of ProcessData; FD 0 for none
  sock,             \* the connections: ceserver's end, and what is under way
  ext,              \* the extension: "absent", "listening", "deaf" (its accept
                    \* loop has ended), "gone" (the target has exited)
  frozen,           \* the target's threads are stopped
  backlog,          \* connections that wait for accept
  descr,            \* the target's descriptors: a connection, 0 when free
  srv,              \* the server threads, each named by its connection
  made, calls, starts, injections,   \* counters
  notes             \* history: "reused", accept gave a number that a thread of
                    \* an earlier connection still uses; "crowded", socket()
                    \* failed; "orphaned", ceserver was killed with a command
                    \* under way

caller  == <<at, id, result, probe>>
process == <<loaded, extensionFD, extensionMutex>>
target  == <<ext, frozen, backlog, descr, srv>>
counts  == <<calls, starts, injections>>
vars    == <<caller, process, sock, target, made, counts, notes>>

Unused    == [open |-> FALSE, requests |-> <<>>, answers |-> <<>>]
NoThread  == [at |-> "none", num |-> 0, call |-> 0]
NewThread(f) == [NoThread EXCEPT !.at = "recv", !.num = f]

\* Where a thread of ceserver is in loadCEServerExtension.
Loading  == {"load", "first", "second", "probe", "hangup", "inject", "dlopen", "open",
             "loadend", "answer"}

\* Where a server thread is: in recvall, at work on a command, about to close
\* after recvall gave 0 or -1.
Serving  == {"recv", "work", "close", "fail"}

-----------------------------------------------------------------------------
Init ==
  /\ at = [c \in Conn |-> "idle"]
  /\ id = [c \in Conn |-> 0]
  /\ result = [c \in Conn |-> 0]
  /\ probe = 0
  /\ loaded = FALSE /\ extensionFD = 0 /\ extensionMutex = NoOne
  /\ sock = [s \in Sock |-> Unused]
  /\ ext = "absent" /\ frozen = FALSE
  /\ backlog = <<>>
  /\ descr = [f \in Fd |-> 0]
  /\ srv = [s \in Sock |-> NoThread]
  /\ made = 0 /\ calls = 0 /\ starts = 0 /\ injections = 0
  /\ notes = {}

Goto(c, place) == at' = [at EXCEPT ![c] = place]
Return(c) == Goto(c, "idle") /\ id' = [id EXCEPT ![c] = 0] /\ result' = [result EXCEPT ![c] = 0]
Note(what, when) == notes' = IF when THEN notes \cup {what} ELSE notes

\* The extension's end of connection s is still open.
Peer(s) ==
  /\ ext # "gone"
  /\ \/ \E i \in DOMAIN backlog : backlog[i] = s
     \/ \E f \in Fd : descr[f] = s

\* OpenPipe without a timeout: the connection waits in the backlog.  It fails
\* when nobody listens, and when ceserver has no descriptor left.
Listens == ext \in {"listening", "deaf"}
Connects(s) ==
  /\ Listens /\ made < MaxSock
  /\ s = made + 1
  /\ made' = s
  /\ sock' = [sock EXCEPT ![s].open = TRUE]
  /\ backlog' = Append(backlog, s)
  /\ UNCHANGED notes
ConnectFails ==
  /\ ~Listens \/ made = MaxSock
  /\ Note("crowded", Listens)
  /\ UNCHANGED <<made, sock, backlog>>

\* Mutant: openExtension closes the pipe's handle instead of removing it.
openExtension_Closes ==
  \/ ConnectFails /\ loaded' = FALSE /\ UNCHANGED extensionFD
  \/ \E s \in Sock :
       /\ Listens /\ made < MaxSock /\ s = made + 1 /\ made' = s
       /\ backlog' = Append(backlog, s)
       /\ extensionFD' = s /\ loaded' = TRUE
       /\ UNCHANGED <<sock, notes>>

\* p->hasLoadedExtension = openExtension(p->pid, &p->extensionFD): the handle
\* is removed, the connection kept.
openExtension ==
  \/ ConnectFails /\ loaded' = FALSE /\ UNCHANGED extensionFD
  \/ \E s \in Sock : Connects(s) /\ extensionFD' = s /\ loaded' = TRUE

-----------------------------------------------------------------------------
(* A call of extensionfunctions.c, and the load it may begin with.           *)

\* hasLoadedExtension is read without the mutex.
Call(c) ==
  /\ at[c] = "idle" /\ calls < MaxCalls
  /\ calls' = calls + 1
  /\ id' = [id EXCEPT ![c] = calls + 1]
  /\ Goto(c, IF loaded THEN "lock" ELSE "load")
  /\ UNCHANGED <<result, probe, process, sock, target, made, starts, injections, notes>>

\* loadCEServerExtension.  While the process is debugged the debugger thread
\* runs it, and refuses while it holds an event.  That it runs one load at a
\* time is not used: it does not wait for one begun before the session.  Sessions
\* begin and end at any time, so isDebugged, which is read here and again before
\* the extension is looked for, can have any value.
Load(c) ==
  /\ at[c] = "load"
  /\ \/ Return(c)
     \/ /\ \E place \in IF loaded THEN {"answer"} ELSE {"first", "second"} : Goto(c, place)
        /\ UNCHANGED <<id, result>>
  /\ UNCHANGED <<probe, process, sock, target, made, counts, notes>>

\* Under a debugger: perhaps it is there already.
OpenFirst(c) ==
  /\ at[c] = "first" /\ extensionMutex = NoOne
  /\ openExtension
  /\ Goto(c, "second")
  /\ UNCHANGED <<id, result, probe, extensionMutex, ext, frozen, descr, srv, counts>>

\* Mutant: the mutex is not waited for.
LockLoad_NoWait(c) ==
  /\ at[c] = "second"
  /\ extensionMutex' = c
  /\ Goto(c, IF loaded THEN "loadend" ELSE "probe")
  /\ UNCHANGED <<id, result, probe, loaded, extensionFD, sock, target, made, counts, notes>>

\* "still 0"
LockLoad(c) ==
  /\ at[c] = "second" /\ extensionMutex = NoOne
  /\ extensionMutex' = c
  /\ Goto(c, IF loaded THEN "loadend" ELSE "probe")
  /\ UNCHANGED <<id, result, probe, loaded, extensionFD, sock, target, made, counts, notes>>

\* isExtensionLoaded connects
Probe(c) ==
  /\ at[c] = "probe"
  /\ \/ ConnectFails /\ Goto(c, "inject") /\ UNCHANGED probe
     \/ \E s \in Sock : Connects(s) /\ probe' = s /\ Goto(c, "hangup")
  /\ UNCHANGED <<id, result, process, ext, frozen, descr, srv, counts>>

\* and closes; loadExtension has then nothing to do.
HangUp(c) ==
  /\ at[c] = "hangup"
  /\ sock' = [sock EXCEPT ![probe].open = FALSE]
  /\ probe' = 0
  /\ loaded' = TRUE
  /\ Goto(c, "open")
  /\ UNCHANGED <<id, result, extensionFD, extensionMutex, target, made, counts, notes>>

\* The rest of loadExtension fails, or has the target call dlopen, which may
\* fail unnoticed; the constructor of the library listens.
Inject(c) ==
  /\ at[c] = "inject"
  /\ \/ loaded' = FALSE /\ Goto(c, "loadend") /\ UNCHANGED <<ext, injections>>
     \/ /\ ext # "gone"
        /\ Goto(c, "dlopen")
        /\ injections' = injections + 1
        /\ \/ UNCHANGED ext
           \/ ext = "absent" /\ ext' = "listening"
        /\ UNCHANGED loaded
  /\ UNCHANGED <<id, result, probe, extensionFD, extensionMutex, sock, frozen,
                 backlog, descr, srv, made, calls, starts, notes>>

\* waitpid gave the stop of the thread that called dlopen, or failed.
InjectEnds(c) ==
  /\ at[c] = "dlopen"
  /\ \/ loaded' = TRUE /\ Goto(c, "open")
     \/ loaded' = FALSE /\ Goto(c, "loadend")
  /\ UNCHANGED <<id, result, probe, extensionFD, extensionMutex, sock, target,
                 made, counts, notes>>

Open(c) ==
  /\ at[c] = "open"
  /\ openExtension
  /\ Goto(c, "loadend")
  /\ UNCHANGED <<id, result, probe, extensionMutex, ext, frozen, descr, srv, counts>>

UnlockLoad(c) ==
  /\ at[c] = "loadend"
  /\ extensionMutex' = NoOne
  /\ Goto(c, "answer")
  /\ UNCHANGED <<id, result, probe, loaded, extensionFD, sock, target, made, counts, notes>>

\* return p->hasLoadedExtension
LoadReturns(c) ==
  /\ at[c] = "answer"
  /\ IF loaded THEN Goto(c, "lock") /\ UNCHANGED <<id, result>> ELSE Return(c)
  /\ UNCHANGED <<probe, process, sock, target, made, counts, notes>>

Lock(c) ==
  /\ at[c] = "lock" /\ extensionMutex = NoOne
  /\ extensionMutex' = c
  /\ Goto(c, "send")
  /\ UNCHANGED <<id, result, probe, loaded, extensionFD, sock, target, made, counts, notes>>

Sends(c) ==
  /\ extensionFD # 0 /\ Peer(extensionFD)
  /\ sock' = [sock EXCEPT ![extensionFD].requests = Append(@, id[c])]
  /\ Goto(c, "receive")

\* Mutant: a failed send returns at once.
Send_Returns(c) ==
  /\ at[c] = "send"
  /\ \/ Sends(c) /\ UNCHANGED <<id, result>>
     \/ (extensionFD = 0 \/ ~Peer(extensionFD)) /\ Return(c) /\ UNCHANGED sock
  /\ UNCHANGED <<probe, process, target, made, counts, notes>>

\* sendall fails on descriptor 0 and on a connection whose other end is closed.
Send(c) ==
  /\ at[c] = "send"
  /\ \/ Sends(c)
     \/ (extensionFD = 0 \/ ~Peer(extensionFD)) /\ Goto(c, "unlock") /\ UNCHANGED sock
  /\ UNCHANGED <<id, result, probe, process, target, made, counts, notes>>

\* Mutant: an answer that does not come at once is given up, and the extension
\* with it.
Receive_Abandons(c) ==
  /\ at[c] = "receive"
  /\ LET got == sock[extensionFD].answers IN
       \/ /\ got # <<>>
          /\ result' = [result EXCEPT ![c] = Head(got)]
          /\ sock' = [sock EXCEPT ![extensionFD].answers = Tail(@)]
          /\ UNCHANGED loaded
       \/ got = <<>> /\ loaded' = FALSE /\ UNCHANGED <<result, sock>>
  /\ Goto(c, "unlock")
  /\ UNCHANGED <<id, probe, extensionFD, extensionMutex, target, made, counts, notes>>

\* recvall: the answer, or the end of the connection (the result stays 0).
Receive(c) ==
  /\ at[c] = "receive"
  /\ LET got == sock[extensionFD].answers IN
       \/ /\ got # <<>>
          /\ result' = [result EXCEPT ![c] = Head(got)]
          /\ sock' = [sock EXCEPT ![extensionFD].answers = Tail(@)]
       \/ got = <<>> /\ ~Peer(extensionFD) /\ UNCHANGED <<result, sock>>
  /\ Goto(c, "unlock")
  /\ UNCHANGED <<id, probe, process, target, made, counts, notes>>

Unlock(c) ==
  /\ at[c] = "unlock"
  /\ extensionMutex' = NoOne
  /\ Return(c)
  /\ UNCHANGED <<probe, loaded, extensionFD, sock, target, made, counts, notes>>

-----------------------------------------------------------------------------
(* The server in the target.                                                *)

Runs == ext \in {"listening", "deaf"} /\ ~frozen
Free == {f \in Fd : descr[f] = 0}

\* Some other thread goes on using descriptor number f.
InUse(f) == \E t \in Sock : srv[t].at \in Serving /\ srv[t].num = f

\* Mutant: what accept returned is not looked at.
Accept_NoCheck ==
  LET f == IF Free = {} THEN -1 ELSE Min(Free)
      s == Head(backlog)
  IN  /\ ext = "listening" /\ ~frozen /\ backlog # <<>>
      /\ backlog' = Tail(backlog)
      /\ descr' = IF f = -1 THEN descr ELSE [descr EXCEPT ![f] = s]
      /\ srv' = [srv EXCEPT ![s] = NewThread(f)]
      /\ Note("reused", InUse(f))
      /\ UNCHANGED <<caller, process, sock, ext, frozen, made, counts>>

\* ServerThread: accept gives the lowest free number; without one the loop ends.
Accept ==
  /\ ext = "listening" /\ ~frozen /\ backlog # <<>>
  /\ IF Free = {}
     THEN ext' = "deaf" /\ UNCHANGED <<backlog, descr, srv, notes>>
     ELSE LET f == Min(Free)
              s == Head(backlog)
          IN  /\ backlog' = Tail(backlog)
              /\ descr' = [descr EXCEPT ![f] = s]
              /\ srv' = [srv EXCEPT ![s] = NewThread(f)]
              /\ Note("reused", InUse(f))
              /\ UNCHANGED ext
  /\ UNCHANGED <<caller, process, sock, frozen, made, counts>>

\* newconnection: recvall gives a command, which DispatchCommand carries out.
Take(t) ==
  LET s == descr[srv[t].num] IN
  /\ Runs /\ srv[t].at = "recv" /\ s # 0 /\ sock[s].requests # <<>>
  /\ srv' = [srv EXCEPT ![t].at = "work", ![t].call = Head(sock[s].requests)]
  /\ sock' = [sock EXCEPT ![s].requests = Tail(@)]
  /\ UNCHANGED <<caller, process, ext, frozen, backlog, descr, made, counts, notes>>

\* Two threads on one connection share the bytes of a request; each finds a
\* command in its share, or none.
Given(thread, n) == IF n = 0 THEN thread ELSE [thread EXCEPT !.at = "work", !.call = n]
Split(t, u) ==
  LET s == descr[srv[t].num] IN
  /\ Runs /\ t # u /\ srv[t].num = srv[u].num
  /\ srv[t].at = "recv" /\ srv[u].at = "recv" /\ s # 0 /\ sock[s].requests # <<>>
  /\ \E n, m \in {0, Head(sock[s].requests)} :
       srv' = [srv EXCEPT ![t] = Given(@, n), ![u] = Given(@, m)]
  /\ sock' = [sock EXCEPT ![s].requests = Tail(@)]
  /\ UNCHANGED <<caller, process, ext, frozen, backlog, descr, made, counts, notes>>

\* recvall gives 0, when the other end is closed, or -1, when the number stands
\* for nothing.
RecvEnds(t) ==
  LET s == descr[srv[t].num] IN
  /\ Runs /\ srv[t].at = "recv"
  /\ \/ /\ s # 0 /\ ~sock[s].open /\ sock[s].requests = <<>>
        /\ srv' = [srv EXCEPT ![t].at = "close"]
     \/ s = 0 /\ srv' = [srv EXCEPT ![t].at = "fail"]
  /\ UNCHANGED <<caller, process, sock, ext, frozen, backlog, descr, made, counts, notes>>

\* close(sockethandle); the loop goes on when r is 0.
Close(t) ==
  /\ Runs /\ srv[t].at \in {"close", "fail"}
  /\ descr' = [descr EXCEPT ![srv[t].num] = 0]
  /\ srv' = [srv EXCEPT ![t] =
               IF @.at = "close" THEN [@ EXCEPT !.at = "recv"] ELSE [NoThread EXCEPT !.at = "gone"]]
  /\ UNCHANGED <<caller, process, sock, ext, frozen, backlog, made, counts, notes>>

\* Mutant: the result is sent before the work is done.
Answer_TooEarly(t) ==
  LET s == descr[srv[t].num] IN
  /\ Runs /\ srv[t].at = "work"
  /\ \/ /\ srv[t].call # 0 /\ s # 0 /\ sock[s].open
        /\ sock' = [sock EXCEPT ![s].answers = Append(@, srv[t].call)]
        /\ srv' = [srv EXCEPT ![t].call = 0]
     \/ srv[t].call = 0 /\ srv' = [srv EXCEPT ![t].at = "recv"] /\ UNCHANGED sock
  /\ UNCHANGED <<caller, process, ext, frozen, backlog, descr, made, counts, notes>>

\* The command is done and its result sent, if the number stands for something.
Answer(t) ==
  LET s == descr[srv[t].num] IN
  /\ Runs /\ srv[t].at = "work"
  /\ sock' = IF s # 0 /\ sock[s].open
             THEN [sock EXCEPT ![s].answers = Append(@, srv[t].call)] ELSE sock
  /\ srv' = [srv EXCEPT ![t].at = "recv", ![t].call = 0]
  /\ UNCHANGED <<caller, process, ext, frozen, backlog, descr, made, counts, notes>>

TargetEnds ==
  /\ ext # "gone"
  /\ ext' = "gone" /\ frozen' = FALSE
  /\ backlog' = <<>>
  /\ descr' = [f \in Fd |-> 0]
  /\ srv' = [s \in Sock |-> NoThread]
  /\ UNCHANGED <<caller, process, sock, made, counts, notes>>

\* send to a closed connection raises SIGPIPE, which ends a target that does
\* not ignore it.
AnswerKills(t) ==
  /\ Runs /\ srv[t].at = "work"
  /\ descr[srv[t].num] # 0 /\ ~sock[descr[srv[t].num]].open
  /\ TargetEnds

-----------------------------------------------------------------------------
(* Around them.                                                             *)

\* The target's threads are stopped (suspended, or held at debug events) and
\* go on.
Freeze ==
  /\ Listens
  /\ frozen' = ~frozen
  /\ UNCHANGED <<caller, process, sock, ext, backlog, descr, srv, made, counts, notes>>

Exit == TargetEnds

\* CloseHandle frees ProcessData with the connection still open, and a later
\* OpenProcess makes a new one.
Reopen ==
  /\ starts < MaxStarts /\ starts' = starts + 1
  /\ \A c \in Conn : at[c] = "idle"
  /\ loaded' = FALSE /\ extensionFD' = 0
  /\ UNCHANGED <<caller, extensionMutex, sock, target, made, calls, injections, notes>>

\* ceserver is killed and started again: its connections close.
Restart ==
  /\ starts < MaxStarts /\ starts' = starts + 1
  /\ at' = [c \in Conn |-> "idle"]
  /\ id' = [c \in Conn |-> 0]
  /\ result' = [c \in Conn |-> 0]
  /\ probe' = 0
  /\ loaded' = FALSE /\ extensionFD' = 0 /\ extensionMutex' = NoOne
  /\ Note("orphaned", \E s \in Sock : srv[s].at = "work" \/ sock[s].requests # <<>>)
  /\ sock' = [s \in Sock |-> [sock[s] EXCEPT !.open = FALSE, !.answers = <<>>]]
  /\ UNCHANGED <<target, made, calls, injections>>

-----------------------------------------------------------------------------
Steps(c) ==
  \/ Load(c) \/ OpenFirst(c) \/ LockLoad(c) \/ Probe(c) \/ HangUp(c)
  \/ Open(c) \/ UnlockLoad(c) \/ LoadReturns(c)
  \/ Lock(c) \/ Send(c) \/ Receive(c) \/ Unlock(c)

Serves(t) ==
  \/ Take(t) \/ RecvEnds(t) \/ Close(t) \/ Answer(t) \/ AnswerKills(t)
  \/ \E u \in Sock : Split(t, u)

Next ==
  \/ \E c \in Conn : Call(c) \/ Steps(c) \/ Inject(c) \/ InjectEnds(c)
  \/ Accept
  \/ \E t \in Sock : Serves(t)
  \/ Freeze \/ Exit \/ Reopen \/ Restart

Spec == Init /\ [][Next]_vars

\* Threads that can run do run.  The injection waits without a timeout for the
\* target to stop, before and after dlopen: it need not end.
FairSpec ==
  /\ Spec
  /\ \A c \in Conn : WF_vars(Steps(c))
  /\ WF_vars(Accept)
  /\ \A t \in Sock : WF_vars(Serves(t))

-----------------------------------------------------------------------------
(* Properties.                                                              *)

\* Types of all the variables.
TypeOK ==
  /\ at \in [Conn -> Loading \cup {"idle", "lock", "send", "receive", "unlock"}]
  /\ id \in [Conn -> 0 .. MaxCalls] /\ result \in [Conn -> 0 .. MaxCalls]
  /\ probe \in Sock \cup {0} /\ extensionFD \in Sock \cup {0}
  /\ loaded \in BOOLEAN /\ frozen \in BOOLEAN
  /\ extensionMutex \in Conn \cup {NoOne}
  /\ sock \in [Sock -> [open : BOOLEAN, requests : Seq(1 .. MaxCalls), answers : Seq(1 .. MaxCalls)]]
  /\ ext \in {"absent", "listening", "deaf", "gone"}
  /\ backlog \in Seq(Sock)
  /\ descr \in [Fd -> Sock \cup {0}]
  /\ srv \in [Sock -> [at : Serving \cup {"none", "gone"}, num : Fd \cup {0}, call : 0 .. MaxCalls]]
  /\ made \in 0 .. MaxSock /\ calls \in 0 .. MaxCalls /\ starts \in 0 .. MaxStarts
  /\ injections \in Nat
  /\ notes \subseteq {"reused", "crowded", "orphaned"}

\* What a call returns from the extension is the answer to that call, as long as
\* accept has not given a number away that a server thread still uses.
OwnAnswer == "reused" \notin notes => \A c \in Conn : result[c] \in {0, id[c]}

Readers(s) == {t \in Sock : srv[t].at \in Serving /\ descr[srv[t].num] = s}
Waiting(s) == \E i \in DOMAIN backlog : backlog[i] = s

\* A process that is marked as loaded, and not being loaded, is reached: the
\* connection kept in extensionFD is open at both ends, waits for accept or is
\* served by its own thread and by no other, as long as accept has not given a
\* number away that a server thread still uses.
Reachable ==
  loaded /\ Listens /\ (\A c \in Conn : at[c] # "open") /\ "reused" \notin notes =>
    /\ extensionFD # 0 /\ sock[extensionFD].open
    /\ Waiting(extensionFD) \/ Readers(extensionFD) = {extensionFD}

Working == {t \in Sock : srv[t].at = "work"}
\* The extension's list of blocks and its clocks have no lock.  Two threads are
\* at work at once only after ceserver was killed with a command under way, or
\* accept gave a number away that a thread still uses: a process that is opened
\* anew, whose old connection stays open, does not lead to it.
OneAtWork == notes \cap {"orphaned", "reused"} = {} => Cardinality(Working) <= 1

\* The library is injected where it is not yet loaded; elsewhere only when the
\* probe could not connect for want of descriptors.
InjectsAbsent ==
  [][injections' # injections => ext = "absent" \/ "crowded" \in notes]_vars

\* A call does not keep the mutex, and with it every other call, for ever:
\* only while the target's threads are stopped, while an injection waits for the
\* target, when its accept loop has ended with the connection in the backlog, or
\* once accept has given a number away that a server thread still uses.
Released ==
  \A c \in Conn :
    extensionMutex = c ~>
      \/ extensionMutex # c \/ frozen \/ at[c] \in {"inject", "dlopen"}
      \/ ext = "deaf" /\ Waiting(extensionFD)
      \/ "reused" \in notes
=============================================================================
