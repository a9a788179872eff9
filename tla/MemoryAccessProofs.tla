------------------------ MODULE MemoryAccessProofs ------------------------
(* Proofs that the accesses to memory keep out of each other's way and leave *)
(* no task attached, for every number of connections, processes and tasks    *)
(* and every setting of the options.                                         *)
EXTENDS MemoryAccess, TLAPS

-----------------------------------------------------------------------------
(* The inductive invariant.                                                 *)

Attacher == {"attach", "wait", "seek", "access", "detach", "unlock"}
Starting == {"taskdir", "attachtask", "taskdone"}
ReadWrite == {"read", "write"}

\* What the access of a thread is at each place: reads and writes without the
\* mutex are those of process_vm_readv and process_vm_writev, only what asked
\* for an attach waits for one, and nothing is returned before the wait.
CallsFollow ==
  \A c \in Conn :
    LET x == acc[c] IN
    /\ at[c] # "idle" => x.proc \in Proc
    /\ at[c] = "idle" <=> x.op = "none"
    /\ at[c] \in Starting <=> x.op = "StartDebug"
    /\ at[c] \in {"attach", "wait", "detach", "unlock"} => x.op \in Access
    /\ at[c] = "lock" => x.op \in ReadWrite /\ ~x.quick
    /\ at[c] = "seek" => opt.mso = 0 /\ (x.op = "debugread" \/ (x.op \in ReadWrite /\ ~x.quick))
    /\ at[c] = "unlock" /\ x.quick => x.op = "write"
    /\ x.op \in {"context", "debugread"} => x.quick
    /\ x.op \in ReadWrite /\ x.quick => opt.mso = 2
    /\ at[c] \in {"attach", "wait"} \/ x.got # NoOne => Attaches(x.op, opt)
    /\ at[c] \notin {"seek", "access", "detach", "unlock"} \/ x.op = "debugread" => x.got = NoOne

\* The threads that have locked memorymutex and not yet unlocked it.
InMutex(c) ==
  \/ at[c] \in {"attachtask", "taskdone"}
  \/ at[c] \in Attacher /\ acc[c].op \in ReadWrite /\ ~acc[c].quick

\* There is one, the owner, until a thread unlocks what it has not locked,
\* which only the writes of process_vm_writev do.
MutexKept ==
  "unlocked" \notin notes \/ opt.mso # 2 => \A c \in Conn : InMutex(c) <=> owner = c

\* Until then nobody attaches without it.
AttachLocked ==
  "unlocked" \notin notes =>
    \A c \in Conn : at[c] = "wait" \/ acc[c].got # NoOne => ~acc[c].quick

\* The tasks of a killed process, and no others, have exited; what nobody
\* traces is not stopped.
StopsFollow ==
  \A t \in Task :
    /\ stop[t] = "exited" <=> t[1] \in gone
    /\ tracer[t] = NoOne => stop[t] \in {"runs", "exited"}

\* Thread c has task t attached for its access.
AttachedFor(c, t) ==
  /\ c \in Conn /\ acc[c].op \in Access /\ t = Main(acc[c].proc)
  /\ at[c] = "wait" \/ (at[c] \in {"seek", "access", "detach"} /\ acc[c].got = t)

\* As long as no wait is given the stop of another: the task a thread waits
\* for or was given is its process's main one, traced by this thread unless
\* the process was killed.
OwnStops ==
  "mixed" \notin notes =>
    \A c \in Conn :
      /\ acc[c].got # NoOne => acc[c].got = Main(acc[c].proc)
      /\ at[c] = "wait" \/ (at[c] \in {"seek", "access", "detach"} /\ acc[c].got # NoOne)
           => tracer[Main(acc[c].proc)] = c \/ acc[c].proc \in gone

OneDebugger == \A c, d \in Debuggers : c = d

\* Who debugs, when one client does.
SessionOwned ==
  /\ \A c \in Conn : at[c] \in Starting => c \in Debuggers
  /\ \A p \in Proc : isDebugged[p] => debuggerThread[p] \in Debuggers

\* And then every traced task is that of an access, of the session or of a
\* process that was killed.
TracesFollow ==
  "mixed" \notin notes =>
    \A t \in Task : tracer[t] # NoOne =>
      \/ t[1] \in gone
      \/ AttachedFor(tracer[t], t)
      \/ isDebugged[t[1]] /\ tracer[t] = debuggerThread[t[1]]

\* Through p->mem only the debugger thread reads while a session is on, and
\* only the owner of the mutex while none is; each between its lseek64 and its
\* access finds the offset its own.
FileOwned ==
  "strayed" \notin notes /\ opt.mso = 0 =>
    \A c \in Conn :
      /\ acc[c].op = "debugread" => isDebugged[acc[c].proc] /\ debuggerThread[acc[c].proc] = c
      /\ InMutex(c) /\ acc[c].op \in ReadWrite => ~isDebugged[acc[c].proc]
      /\ at[c] = "access" /\ UsesFile(acc[c], opt) => offset[acc[c].proc] = c

IInv ==
  /\ TypeOK /\ CallsFollow
  /\ MutexKept /\ AttachLocked
  /\ StopsFollow /\ OwnStops
  /\ OneDebugger => SessionOwned /\ TracesFollow
  /\ FileOwned

-----------------------------------------------------------------------------
(* The parts of the type invariant, and facts about the operators.          *)

Places == {"idle", "lock", "attach", "wait", "seek", "access", "detach", "unlock",
           "taskdir", "attachtask", "taskdone"}

CallsOK   == at \in [Conn -> Places] /\ acc \in [Conn -> Record]
SharedOK  == owner \in Conn \cup {NoOne} /\ offset \in [Proc -> Conn \cup {NoOne}]
SessionOK == isDebugged \in [Proc -> BOOLEAN] /\ debuggerThread \in [Proc -> Conn \cup {NoOne}]
KernelOK  ==
  /\ tracer \in [Task -> Conn \cup {NoOne}]
  /\ stop \in [Task -> {"runs", "sigstop", "signal", "both", "collected", "exited"}]
  /\ gone \subseteq Proc
RestOK    == opt \in Setting /\ notes \subseteq {"unlocked", "strayed", "mixed"}

\* Together these say the same as TypeOK.
LEMMA TypeParts == TypeOK <=> CallsOK /\ SharedOK /\ SessionOK /\ KernelOK /\ RestOK
BY DEF TypeOK, CallsOK, SharedOK, SessionOK, KernelOK, RestOK, Places

\* And so they do of the next state.
LEMMA TypePartsNext == CallsOK' /\ SharedOK' /\ SessionOK' /\ KernelOK' /\ RestOK' => TypeOK'
BY DEF TypeOK, CallsOK, SharedOK, SessionOK, KernelOK, RestOK, Places

\* NoOne is neither a thread nor a task.
LEMMA NoOneApart == NoOne \notin Conn /\ NoOne \notin Task
BY AccessAssumption

\* The main task is a task of its process.
LEMMA MainTask == \A p \in Proc : Main(p) \in Task /\ Main(p)[1] = p
BY AccessAssumption DEF Main, Task

\* Every task is that of a process.
LEMMA TaskProc == \A t \in Task : t[1] \in Proc
BY DEF Task

\* What a new access is.
LEMMA NewFields ==
  ASSUME NEW op, NEW p, NEW q
  PROVE  /\ NewAccess(op, p, q).op = op /\ NewAccess(op, p, q).proc = p
         /\ NewAccess(op, p, q).quick = q /\ NewAccess(op, p, q).got = NoOne
         /\ NewAccess(op, p, q).written = FALSE /\ NewAccess(op, p, q).n = 1
BY DEF NewAccess

\* And that it is one.
LEMMA NewTyped ==
  ASSUME NEW op \in Access \cup {"debugread", "StartDebug", "none"},
         NEW p \in Proc \cup {NoOne}, NEW q \in BOOLEAN
  PROVE  NewAccess(op, p, q) \in Record
<1>1. 1 \in 1 .. NT
  BY AccessAssumption
<1> QED
  BY <1>1 DEF NewAccess, Record

\* A thread without an access.
LEMMA NothingAsked ==
  /\ NoAccess \in Record /\ NoAccess.op = "none" /\ NoAccess.proc = NoOne
  /\ NoAccess.quick = FALSE /\ NoAccess.got = NoOne
<1>1. NoAccess \in Record
  <2>1. "none" \in Access \cup {"debugread", "StartDebug", "none"}
    OBVIOUS
  <2>2. NoOne \in Proc \cup {NoOne} /\ FALSE \in BOOLEAN
    OBVIOUS
  <2> QED
    BY <2>1, <2>2, NewTyped DEF NoAccess
<1>2. /\ NoAccess.op = "none" /\ NoAccess.proc = NoOne
      /\ NoAccess.quick = FALSE /\ NoAccess.got = NoOne
  BY DEF NoAccess, NewAccess
<1> QED
  BY <1>1, <1>2

-----------------------------------------------------------------------------
(* The initial state.                                                       *)

\* Nobody accesses, debugs or traces anything at first.
LEMMA InitIInv == Init => IInv
<1> SUFFICES ASSUME Init PROVE IInv
  OBVIOUS
<1> USE DEF Init
<1>1. NoAccess \in Record /\ NoAccess.op = "none" /\ NoAccess.got = NoOne
  BY NothingAsked
<1>2. TypeOK
  <2>1. CallsOK
    BY <1>1 DEF CallsOK, Places
  <2>2. SharedOK /\ SessionOK
    BY DEF SharedOK, SessionOK
  <2>3. KernelOK
    BY DEF KernelOK
  <2>4. RestOK
    BY AccessAssumption DEF RestOK
  <2> QED
    BY <2>1, <2>2, <2>3, <2>4, TypeParts
<1>3. CallsFollow
  BY <1>1 DEF CallsFollow, Starting, ReadWrite
<1>4. MutexKept /\ AttachLocked
  BY <1>1, NoOneApart DEF MutexKept, AttachLocked, InMutex, Attacher
<1>5. StopsFollow /\ OwnStops
  BY <1>1 DEF StopsFollow, OwnStops
<1>6. SessionOwned /\ TracesFollow
  BY DEF SessionOwned, TracesFollow, Starting
<1>7. FileOwned
  BY <1>1 DEF FileOwned, InMutex, Attacher
<1> QED
  BY <1>2, <1>3, <1>4, <1>5, <1>6, <1>7 DEF IInv

-----------------------------------------------------------------------------
(* Steps that attach and detach nothing.                                    *)

Touching == {"seek", "access", "detach"}

\* A step of thread c that leaves the tasks and the sessions alone, and with
\* them the task that the thread may have attached.
Local(c) ==
  /\ UNCHANGED <<session, kernel>>
  /\ \A d \in Conn : d # c => at'[d] = at[d] /\ acc'[d] = acc[d]
  /\ notes \subseteq notes' /\ notes' \subseteq notes \cup {"unlocked", "strayed"}
  /\ at'[c] \in Starting => at[c] \in Starting \/ c \in Debuggers
  /\ at[c] # "wait" /\ at'[c] # "wait"
  /\ acc'[c].got # NoOne =>
       /\ acc'[c].got = acc[c].got /\ acc'[c].proc = acc[c].proc
       /\ at'[c] \in Touching => at[c] \in Touching
  /\ at[c] \in Touching /\ acc[c].got # NoOne =>
       /\ at'[c] \in Touching
       /\ acc'[c].op = acc[c].op /\ acc'[c].got = acc[c].got /\ acc'[c].proc = acc[c].proc

\* Then what is said of tasks and sessions stays.
LEMMA LocalKept ==
  ASSUME IInv, NEW c \in Conn, Local(c)
  PROVE  /\ SessionOK' /\ KernelOK' /\ notes' \subseteq {"unlocked", "strayed", "mixed"}
         /\ StopsFollow' /\ OwnStops'
         /\ OneDebugger => SessionOwned' /\ TracesFollow'
<1> USE TypeParts DEF IInv, Local, session, kernel
<1>1. SessionOK' /\ KernelOK' /\ notes' \subseteq {"unlocked", "strayed", "mixed"}
  BY DEF SessionOK, KernelOK, RestOK
<1>2. StopsFollow'
  BY DEF StopsFollow
<1>3. OwnStops'
  BY DEF OwnStops, Touching
<1>4. OneDebugger => SessionOwned'
  BY DEF SessionOwned
<1>5. OneDebugger => TracesFollow'
  <2> SUFFICES ASSUME OneDebugger PROVE TracesFollow'
    OBVIOUS
  <2>1. \A d \in Conn, t \in Task : AttachedFor(d, t) => AttachedFor(d, t)'
    BY NoOneApart DEF AttachedFor, Touching
  <2>2. \A t \in Task : tracer[t] # NoOne => tracer[t] \in Conn
    BY DEF KernelOK
  <2>3. ASSUME "mixed" \notin notes', NEW t \in Task, tracer'[t] # NoOne
        PROVE  \/ t[1] \in gone'
               \/ AttachedFor(tracer[t], t)'
               \/ isDebugged'[t[1]] /\ tracer'[t] = debuggerThread'[t[1]]
    <3>1. PICK d \in Conn : d = tracer[t] /\ d = tracer'[t]
      BY <2>2, <2>3
    <3>2. \/ t[1] \in gone
          \/ AttachedFor(d, t)
          \/ isDebugged[t[1]] /\ tracer[t] = debuggerThread[t[1]]
      BY <2>3, <3>1 DEF TracesFollow
    <3>3. AttachedFor(d, t)' => AttachedFor(tracer[t], t)'
      BY <3>1 DEF AttachedFor
    <3> QED
      BY <2>1, <3>2, <3>3
  <2> QED
    BY <2>3 DEF TracesFollow
<1> QED
  BY <1>1, <1>2, <1>3, <1>4, <1>5

\* The five ways an access begins.
LEMMA BeginStep ==
  ASSUME IInv, NEW c \in Conn, NEW op \in Ops, NEW p \in Proc, Begin(c, op, p)
  PROVE  IInv'
<1> USE TypeParts DEF IInv
<1>1. UNCHANGED <<opt, owner, offset, session, kernel, notes>> /\ at[c] = "idle"
  BY DEF Begin
<1>2. op \in Access /\ acc[c].op = "none" /\ acc[c].got = NoOne
  BY <1>1, AccessAssumption DEF CallsFollow
<1>3. PICK kind, q, place :
        /\ acc' = [acc EXCEPT ![c] = NewAccess(kind, p, q)]
        /\ at' = [at EXCEPT ![c] = place]
        /\ \/ /\ kind = op /\ q = TRUE /\ op \in ReadWrite /\ opt.mso = 2
              /\ place = IF Attaches(op, opt) THEN "attach" ELSE "access"
           \/ /\ kind = op /\ q = FALSE /\ op \in ReadWrite /\ ~isDebugged[p]
              /\ place = "lock"
           \/ /\ kind = "debugread" /\ q = TRUE /\ opt.mso = 0
              /\ isDebugged[p] /\ debuggerThread[p] = c /\ place = "seek"
           \/ kind = op /\ q = TRUE /\ op = "context" /\ place = "attach"
  BY DEF Begin, Goto, ReadsItself, ReadWrite, Attaches
<1>4. /\ acc'[c].op = kind /\ acc'[c].proc = p /\ acc'[c].quick = q /\ acc'[c].got = NoOne
      /\ at'[c] = place
      /\ \A d \in Conn : d # c => at'[d] = at[d] /\ acc'[d] = acc[d]
  <2>1. /\ acc'[c] = NewAccess(kind, p, q) /\ at'[c] = place
        /\ \A d \in Conn : d # c => at'[d] = at[d] /\ acc'[d] = acc[d]
    BY <1>3 DEF CallsOK
  <2> QED
    BY <2>1 DEF NewAccess
<1>5. kind \in Access \cup {"debugread"} /\ place \in {"attach", "access", "lock", "seek"}
  BY <1>2, <1>3
<1>6. Local(c)
  BY <1>1, <1>2, <1>4, <1>5 DEF Local, Starting, Touching
<1>7. TypeOK'
  <2>1. NewAccess(kind, p, q) \in Record
    BY <1>3, <1>5, NewTyped
  <2>2. CallsOK'
    BY <1>3, <1>5, <2>1 DEF CallsOK, Places
  <2>3. SharedOK' /\ RestOK'
    BY <1>1 DEF SharedOK, RestOK
  <2> QED
    BY <1>6, <2>2, <2>3, LocalKept, TypePartsNext
<1>8. CallsFollow'
  <2>1. Attaches("context", opt)
    BY DEF Attaches
  <2>2. place = "attach" => Attaches(kind, opt)
    BY <1>3, <2>1
  <2> QED
    BY <1>1, <1>2, <1>3, <1>4, <2>2 DEF CallsFollow, Starting, ReadWrite, Access
<1>9. MutexKept'
  <2>1. ~InMutex(c) /\ ~InMutex(c)'
    BY <1>1, <1>3, <1>4 DEF InMutex, Attacher, ReadWrite
  <2> QED
    BY <1>1, <1>4, <2>1 DEF MutexKept, InMutex
<1>10. AttachLocked'
  BY <1>1, <1>4, <1>5 DEF AttachLocked
<1>11. FileOwned'
  <2>1. InMutex(c)' => acc'[c].op = "context" \/ opt.mso = 2
    BY <1>3, <1>4 DEF InMutex, Attacher
  <2>2. at'[c] = "access" => opt.mso = 2
    BY <1>3, <1>4
  <2> QED
    BY <1>1, <1>2, <1>3, <1>4, <2>1, <2>2 DEF FileOwned, InMutex, UsesFile, session, Access, ReadWrite
<1> QED
  BY <1>6, <1>7, <1>8, <1>9, <1>10, <1>11, LocalKept

\* Two threads are never at the file of one process.
LEMMA FileAlone ==
  ASSUME IInv, "strayed" \notin notes, opt.mso = 0,
         NEW c \in Conn, NEW d \in Conn, acc[c].proc = acc[d].proc,
         at[c] = "seek" \/ (at[c] = "access" /\ UsesFile(acc[c], opt)),
         at[d] = "access" /\ UsesFile(acc[d], opt)
  PROVE  c = d
<1> USE TypeParts DEF IInv
<1>1. ASSUME NEW e \in Conn, at[e] = "seek" \/ (at[e] = "access" /\ UsesFile(acc[e], opt))
      PROVE  acc[e].op = "debugread" \/ (acc[e].op \in ReadWrite /\ InMutex(e))
  <2>1. CASE at[e] = "seek"
    BY <2>1 DEF CallsFollow, InMutex, Attacher
  <2>2. CASE at[e] = "access" /\ UsesFile(acc[e], opt)
    <3>1. acc[e].op \in {"read", "write", "debugread"} /\ opt.mso # 2
      BY <2>2 DEF UsesFile, CallsFollow, CallsOK, Record, Access, Starting
    <3> QED
      BY <2>2, <3>1 DEF CallsFollow, InMutex, Attacher, ReadWrite
  <2> QED
    BY <1>1, <2>1, <2>2
<1>2. InMutex(c) /\ InMutex(d) => c = d
  BY DEF MutexKept
<1> QED
  BY <1>1, <1>2 DEF FileOwned

\* lseek64 moves the offset of nobody who is about to use it.
LEMMA SeekStep ==
  ASSUME IInv, NEW c \in Conn, Seek(c)
  PROVE  IInv'
<1> USE TypeParts DEF IInv
<1>1. /\ at[c] = "seek" /\ at' = [at EXCEPT ![c] = "access"]
      /\ offset' = [offset EXCEPT ![acc[c].proc] = c]
      /\ UNCHANGED <<opt, acc, owner, session, kernel, notes>>
  BY DEF Seek, Goto
<1>2. at'[c] = "access" /\ \A d \in Conn : d # c => at'[d] = at[d]
  BY <1>1 DEF CallsOK
<1>3. Local(c)
  BY <1>1, <1>2 DEF Local, Starting, Touching
<1>4. acc[c].proc \in Proc
  BY <1>1 DEF CallsFollow
<1>5. TypeOK'
  <2>1. CallsOK' /\ SharedOK' /\ RestOK'
    BY <1>1, <1>4 DEF CallsOK, Places, SharedOK, RestOK
  <2> QED
    BY <1>3, <2>1, LocalKept, TypePartsNext
<1>6. CallsFollow'
  BY <1>1, <1>2 DEF CallsFollow, Starting
<1>7. \A d \in Conn : InMutex(d)' = InMutex(d)
  BY <1>1, <1>2 DEF InMutex, Attacher
<1>8. MutexKept' /\ AttachLocked'
  BY <1>1, <1>2, <1>7 DEF MutexKept, AttachLocked
<1>9. FileOwned'
  <2> SUFFICES ASSUME "strayed" \notin notes, opt.mso = 0 PROVE FileOwned'
    BY <1>1 DEF FileOwned
  <2>1. \A d \in Conn : at'[d] = "access" /\ UsesFile(acc[d], opt) => offset'[acc[d].proc] = d
    BY <1>1, <1>2, <1>4, FileAlone DEF FileOwned, SharedOK
  <2> QED
    BY <1>1, <1>7, <2>1 DEF FileOwned, session
<1> QED
  BY <1>3, <1>5, <1>6, <1>8, <1>9, LocalKept

\* And neither does the read or write itself.
LEMMA TouchMemoryStep ==
  ASSUME IInv, NEW c \in Conn, TouchMemory(c)
  PROVE  IInv'
<1> USE TypeParts DEF IInv
<1>1. /\ at[c] = "access" /\ UNCHANGED <<opt, owner, session, kernel, notes>>
      /\ offset' = IF UsesFile(acc[c], opt) THEN [offset EXCEPT ![acc[c].proc] = NoOne] ELSE offset
  BY DEF TouchMemory
<1>2. acc[c].op \in Access \cup {"debugread"} /\ acc[c].proc \in Proc
  BY <1>1 DEF CallsFollow, CallsOK, Record, Starting
<1>3. SharedOK' /\ RestOK'
  BY <1>1, <1>2 DEF SharedOK, RestOK
<1>4. \A d \in Conn : d # c => at'[d] = at[d] /\ acc'[d] = acc[d]
  BY DEF TouchMemory, Return, Goto, CallsOK
<1>5. ASSUME "strayed" \notin notes, opt.mso = 0, NEW d \in Conn, d # c,
             at[d] = "access", UsesFile(acc[d], opt)
      PROVE  offset'[acc[d].proc] = d
  <2>1. acc[d].proc \in Proc /\ offset[acc[d].proc] = d
    BY <1>5 DEF CallsFollow, FileOwned
  <2>2. UsesFile(acc[c], opt) => acc[c].proc # acc[d].proc
    BY <1>1, <1>5, FileAlone
  <2> QED
    BY <1>1, <2>1, <2>2 DEF SharedOK
<1>6. CASE acc[c].op = "debugread"
  <2>1. acc' = [acc EXCEPT ![c] = NoAccess] /\ at' = [at EXCEPT ![c] = "idle"]
    BY <1>6 DEF TouchMemory, Return, Goto
  <2>2. acc'[c] = NoAccess /\ at'[c] = "idle"
    BY <2>1 DEF CallsOK
  <2>3. acc[c].got = NoOne
    BY <1>6 DEF CallsFollow
  <2>4. Local(c)
    BY <1>1, <1>4, <2>2, <2>3, NothingAsked DEF Local, Starting, Touching
  <2>5. CallsOK'
    BY <2>1, NothingAsked DEF CallsOK, Places
  <2>6. CallsFollow'
    BY <1>1, <1>4, <2>2, NothingAsked DEF CallsFollow, Starting, ReadWrite
  <2>7. \A d \in Conn : InMutex(d)' = InMutex(d)
    BY <1>1, <1>4, <1>6, <2>2 DEF InMutex, ReadWrite, Attacher
  <2>8. MutexKept' /\ AttachLocked'
    BY <1>1, <1>4, <2>2, <2>7, NothingAsked DEF MutexKept, AttachLocked
  <2>9. FileOwned'
    BY <1>1, <1>4, <1>5, <2>2, <2>7, NothingAsked DEF FileOwned, session, ReadWrite
  <2> QED
    BY <1>3, <2>4, <2>5, <2>6, <2>8, <2>9, LocalKept, TypePartsNext
<1>7. CASE acc[c].op # "debugread"
  <2>1. PICK w \in BOOLEAN : /\ acc' = [acc EXCEPT ![c].written = w]
                             /\ at' = [at EXCEPT ![c] = "detach"]
    BY <1>7 DEF TouchMemory, Goto
  <2>2. /\ at'[c] = "detach" /\ acc'[c].op = acc[c].op /\ acc'[c].proc = acc[c].proc
        /\ acc'[c].quick = acc[c].quick /\ acc'[c].got = acc[c].got
    BY <2>1 DEF CallsOK, Record
  <2>3. Local(c)
    BY <1>1, <1>4, <2>2 DEF Local, Starting, Touching
  <2>4. CallsOK'
    BY <2>1 DEF CallsOK, Places, Record
  <2>5. CallsFollow'
    BY <1>1, <1>2, <1>4, <1>7, <2>2 DEF CallsFollow, Starting, ReadWrite
  <2>6. \A d \in Conn : InMutex(d)' = InMutex(d)
    BY <1>1, <1>4, <2>2 DEF InMutex, Attacher
  <2>7. MutexKept' /\ AttachLocked'
    BY <1>1, <1>4, <2>2, <2>6 DEF MutexKept, AttachLocked
  <2>8. FileOwned'
    BY <1>1, <1>4, <1>5, <2>2, <2>6 DEF FileOwned, session
  <2> QED
    BY <1>3, <2>3, <2>4, <2>5, <2>7, <2>8, LocalKept, TypePartsNext
<1> QED
  BY <1>6, <1>7

\* A lock is taken when it is free; only ATTACH_TO_WRITE_MEMORY changes.
LEMMA LockStep ==
  ASSUME IInv, NEW c \in Conn, Lock(c)
  PROVE  IInv'
<1> USE TypeParts DEF IInv
<1>1. /\ at[c] = "lock" /\ owner = NoOne /\ owner' = c
      /\ UNCHANGED <<acc, offset, session, kernel>>
  BY DEF Lock
<1>2. /\ opt' = [opt EXCEPT !.atwm = @ \/ (acc[c].op = "write" /\ ~opt.memrw)]
      /\ at' = [at EXCEPT ![c] = IF Attaches(acc[c].op, opt') THEN "attach" ELSE Ready(acc[c], opt)]
      /\ notes' = notes \cup (IF isDebugged[acc[c].proc] THEN {"strayed"} ELSE {})
  BY DEF Lock, Goto
<1>3. /\ opt' \in Setting
      /\ opt'.mso = opt.mso /\ opt'.atam = opt.atam /\ opt'.memrw = opt.memrw
      /\ opt.atwm => opt'.atwm
  BY <1>2 DEF RestOK, Setting
<1>4. \A op \in Access : Attaches(op, opt) => Attaches(op, opt')
  BY <1>3 DEF Attaches, Access
<1>5. \A d \in Conn : UsesFile(acc[d], opt') = UsesFile(acc[d], opt)
  BY <1>3 DEF UsesFile
<1>6. acc[c].op \in ReadWrite /\ ~acc[c].quick /\ acc[c].got = NoOne /\ acc[c].proc \in Proc
  BY <1>1 DEF CallsFollow
<1>7. /\ at'[c] \in {"attach", "seek", "access"}
      /\ at'[c] = "attach" => Attaches(acc[c].op, opt')
      /\ at'[c] = "seek" => UsesFile(acc[c], opt)
      /\ at'[c] = "access" => ~UsesFile(acc[c], opt)
      /\ \A d \in Conn : d # c => at'[d] = at[d]
  BY <1>2 DEF CallsOK, Ready
<1>8. Local(c)
  BY <1>1, <1>2, <1>6, <1>7 DEF Local, Starting, Touching
<1>9. TypeOK'
  <2>1. CallsOK'
    BY <1>1, <1>2, <1>7 DEF CallsOK, Places
  <2>2. SharedOK' /\ RestOK'
    BY <1>1, <1>3, <1>8, LocalKept DEF SharedOK, RestOK
  <2> QED
    BY <1>8, <2>1, <2>2, LocalKept, TypePartsNext
<1>10. CallsFollow'
  <2>1. \A d \in Conn : acc[d].got # NoOne \/ at[d] \in {"attach", "wait"} => acc[d].op \in Access
    BY DEF CallsFollow, CallsOK, Record, Starting
  <2>2. UsesFile(acc[c], opt) => opt.mso = 0
    BY DEF UsesFile
  <2>3. \A d \in Conn : at'[d] \in {"attach", "wait"} \/ acc[d].got # NoOne => Attaches(acc[d].op, opt')
    BY <1>4, <1>6, <1>7, <2>1 DEF CallsFollow
  <2> QED
    BY <1>1, <1>3, <1>6, <1>7, <2>2, <2>3 DEF CallsFollow, Starting, ReadWrite, Access
<1>11. MutexKept'
  <2>1. InMutex(c)' /\ \A d \in Conn : d # c => InMutex(d)' = InMutex(d)
    BY <1>1, <1>6, <1>7 DEF InMutex, Attacher
  <2> QED
    BY <1>1, <1>2, <1>3, <2>1, NoOneApart DEF MutexKept
<1>12. AttachLocked'
  BY <1>1, <1>2, <1>6, <1>7 DEF AttachLocked
<1>13. FileOwned'
  <2> SUFFICES ASSUME "strayed" \notin notes', opt.mso = 0 PROVE FileOwned'
    BY <1>3 DEF FileOwned
  <2>1. ~isDebugged[acc[c].proc] /\ "strayed" \notin notes
    BY <1>2
  <2>2. acc[c].op # "debugread"
    BY <1>6 DEF ReadWrite
  <2>3. \A d \in Conn : d # c => InMutex(d)' = InMutex(d)
    BY <1>1, <1>7 DEF InMutex
  <2> QED
    BY <1>1, <1>5, <1>7, <2>1, <2>2, <2>3 DEF FileOwned, session
<1> QED
  BY <1>8, <1>9, <1>10, <1>11, <1>12, <1>13, LocalKept

\* A thread that unlocks what it has not locked is one of the quick writes.
LEMMA UnlockStep ==
  ASSUME IInv, NEW c \in Conn, Unlock(c)
  PROVE  IInv'
<1> USE TypeParts DEF IInv
<1>1. /\ at[c] = "unlock" /\ owner' = NoOne
      /\ notes' = notes \cup (IF owner # c THEN {"unlocked"} ELSE {})
      /\ UNCHANGED <<opt, offset, session, kernel>>
  BY DEF Unlock
<1>2. acc[c].op \in Access /\ acc[c].proc \in Proc
  BY <1>1 DEF CallsFollow
<1>3. PICK x, place :
        /\ x \in Record
        /\ acc' = [acc EXCEPT ![c] = x] /\ at' = [at EXCEPT ![c] = place]
        /\ \/ place = "idle" /\ x.op = "none" /\ x.got = NoOne
           \/ /\ place = "lock" /\ x.op = "write" /\ x.quick = FALSE
              /\ x.got = NoOne /\ x.proc = acc[c].proc
  <2>1. CASE acc[c].quick /\ ~acc[c].written
    <3>1. /\ acc' = [acc EXCEPT ![c] = NewAccess("write", acc[c].proc, FALSE)]
          /\ at' = [at EXCEPT ![c] = "lock"]
      BY <2>1 DEF Unlock, Goto
    <3>2. NewAccess("write", acc[c].proc, FALSE) \in Record
      BY <1>2, NewTyped DEF Access
    <3>3. PICK x : x = NewAccess("write", acc[c].proc, FALSE)
      OBVIOUS
    <3>4. x.op = "write" /\ x.quick = FALSE /\ x.got = NoOne /\ x.proc = acc[c].proc
      BY <3>3 DEF NewAccess
    <3> QED
      BY <3>1, <3>2, <3>3, <3>4
  <2>2. CASE ~(acc[c].quick /\ ~acc[c].written)
    BY <2>2, NothingAsked DEF Unlock, Return, Goto
  <2> QED
    BY <2>1, <2>2
<1>4. /\ acc'[c] = x /\ at'[c] = place
      /\ \A d \in Conn : d # c => at'[d] = at[d] /\ acc'[d] = acc[d]
  BY <1>3 DEF CallsOK
<1>5. Local(c)
  BY <1>1, <1>3, <1>4 DEF Local, Starting, Touching
<1>6. TypeOK'
  <2>1. CallsOK'
    BY <1>3 DEF CallsOK, Places
  <2>2. SharedOK' /\ RestOK'
    BY <1>1, <1>5, LocalKept DEF SharedOK, RestOK
  <2> QED
    BY <1>5, <2>1, <2>2, LocalKept, TypePartsNext
<1>7. CallsFollow'
  BY <1>1, <1>2, <1>3, <1>4 DEF CallsFollow, Starting, ReadWrite
<1>8. ~InMutex(c)' /\ \A d \in Conn : d # c => InMutex(d)' = InMutex(d)
  BY <1>3, <1>4 DEF InMutex, Attacher
<1>9. MutexKept'
  <2> SUFFICES ASSUME "unlocked" \notin notes' \/ opt.mso # 2
               PROVE  \A d \in Conn : InMutex(d)' <=> owner' = d
    BY <1>1 DEF MutexKept
  <2>1. CASE opt.mso # 2
    <3>1. InMutex(c)
      BY <1>1, <1>2, <2>1 DEF CallsFollow, InMutex, Attacher, ReadWrite, Access
    <3> QED
      BY <1>1, <1>8, <2>1, <3>1, NoOneApart DEF MutexKept
  <2>2. CASE "unlocked" \notin notes'
    BY <1>1, <1>8, <2>2, NoOneApart DEF MutexKept
  <2> QED
    BY <2>1, <2>2
<1>10. AttachLocked'
  BY <1>1, <1>3, <1>4 DEF AttachLocked
<1>11. FileOwned'
  BY <1>1, <1>3, <1>4, <1>8 DEF FileOwned, session, ReadWrite
<1> QED
  BY <1>5, <1>6, <1>7, <1>9, <1>10, <1>11, LocalKept

\* A client begins to debug.
LEMMA StartDebugStep ==
  ASSUME IInv, NEW c \in Conn, c \in Debuggers, NEW p \in Proc, StartDebug(c, p)
  PROVE  IInv'
<1> USE TypeParts DEF IInv
<1>1. /\ at[c] = "idle" /\ at' = [at EXCEPT ![c] = "taskdir"]
      /\ acc' = [acc EXCEPT ![c] = NewAccess("StartDebug", p, FALSE)]
  BY DEF StartDebug, Goto
<1>2. at[c] = "idle" /\ UNCHANGED <<opt, owner, offset, session, kernel, notes>>
  BY DEF StartDebug
<1>3. NewAccess("StartDebug", p, FALSE) \in Record
  BY NewTyped
<1>4. /\ acc'[c].op = "StartDebug" /\ acc'[c].proc = p /\ acc'[c].got = NoOne /\ at'[c] = "taskdir"
      /\ \A d \in Conn : d # c => at'[d] = at[d] /\ acc'[d] = acc[d]
  BY <1>1 DEF CallsOK, NewAccess
<1>5. Local(c)
  BY <1>2, <1>4 DEF Local, Touching
<1>6. TypeOK'
  <2>1. CallsOK' /\ SharedOK' /\ RestOK'
    BY <1>2, <1>1, <1>3 DEF CallsOK, Places, SharedOK, RestOK
  <2> QED
    BY <1>5, <2>1, LocalKept, TypePartsNext
<1>7. CallsFollow'
  BY <1>2, <1>4 DEF CallsFollow, Starting, ReadWrite
<1>8. \A d \in Conn : InMutex(d)' = InMutex(d)
  BY <1>2, <1>4 DEF InMutex, Attacher
<1>9. MutexKept' /\ AttachLocked'
  BY <1>2, <1>4, <1>8 DEF MutexKept, AttachLocked
<1>10. FileOwned'
  BY <1>2, <1>4, <1>8 DEF FileOwned, session, ReadWrite
<1> QED
  BY <1>5, <1>6, <1>7, <1>9, <1>10, LocalKept

\* It takes the mutex for each task
LEMMA LockTaskStep ==
  ASSUME IInv, NEW c \in Conn, LockTask(c)
  PROVE  IInv'
<1> USE TypeParts DEF IInv
<1>1. /\ at[c] = "taskdir" /\ at' = [at EXCEPT ![c] = "attachtask"]
      /\ owner = NoOne /\ owner' = c
      /\ UNCHANGED <<opt, acc, offset, session, kernel, notes>>
  BY DEF LockTask, Goto
<1>2. at'[c] = "attachtask" /\ \A d \in Conn : d # c => at'[d] = at[d]
  BY <1>1 DEF CallsOK
<1>3. acc[c].got = NoOne /\ acc[c].op = "StartDebug"
  BY <1>1 DEF CallsFollow, Starting
<1>4. Local(c)
  BY <1>1, <1>2, <1>3 DEF Local, Touching, Starting
<1>5. TypeOK'
  <2>1. CallsOK' /\ SharedOK' /\ RestOK'
    BY <1>1 DEF CallsOK, Places, SharedOK, RestOK
  <2> QED
    BY <1>4, <2>1, LocalKept, TypePartsNext
<1>6. CallsFollow'
  BY <1>1, <1>2 DEF CallsFollow, Starting
<1>7. InMutex(c)' /\ \A d \in Conn : d # c => InMutex(d)' = InMutex(d)
  BY <1>1, <1>2 DEF InMutex
<1>8. MutexKept' /\ AttachLocked'
  BY <1>1, <1>2, <1>7, NoOneApart DEF MutexKept, AttachLocked
<1>9. FileOwned'
  BY <1>1, <1>2, <1>3, <1>7 DEF FileOwned, session, ReadWrite
<1> QED
  BY <1>4, <1>5, <1>6, <1>8, <1>9, LocalKept

\* and gives it back after each.
LEMMA UnlockTaskStep ==
  ASSUME IInv, NEW c \in Conn, UnlockTask(c)
  PROVE  IInv'
<1> USE TypeParts DEF IInv
<1>1. /\ at[c] = "taskdone" /\ owner' = NoOne
      /\ UNCHANGED <<opt, offset, session, kernel, notes>>
  BY DEF UnlockTask
<1>2. acc[c].got = NoOne /\ acc[c].op = "StartDebug" /\ acc[c].proc \in Proc
  BY <1>1 DEF CallsFollow, Starting
<1>3. PICK x, place :
        /\ x \in Record
        /\ acc' = [acc EXCEPT ![c] = x] /\ at' = [at EXCEPT ![c] = place]
        /\ \/ place = "idle" /\ x.op = "none" /\ x.got = NoOne
           \/ place = "taskdir" /\ x.op = "StartDebug" /\ x.got = NoOne /\ x.proc = acc[c].proc
  <2>1. CASE MoreTasks(c)
    <3>1. /\ acc' = [acc EXCEPT ![c].n = @ + 1]
          /\ at' = [at EXCEPT ![c] = "taskdir"]
      BY <2>1 DEF UnlockTask, Goto
    <3>2. PICK x \in Record : x = [acc[c] EXCEPT !.n = @ + 1]
      <4>1. acc[c] \in Record /\ acc[c].n + 1 \in 1 .. NT
        BY <2>1, AccessAssumption DEF MoreTasks, CallsOK, Record
      <4> QED
        BY <4>1 DEF Record
    <3>3. acc' = [acc EXCEPT ![c] = x]
      BY <3>1, <3>2
    <3>4. x.op = acc[c].op /\ x.got = acc[c].got /\ x.proc = acc[c].proc
      BY <3>2 DEF CallsOK, Record
    <3> QED
      BY <1>2, <3>1, <3>3, <3>4
  <2>2. CASE ~MoreTasks(c)
    BY <2>2, NothingAsked DEF UnlockTask, Return, Goto
  <2> QED
    BY <2>1, <2>2
<1>4. /\ acc'[c] = x /\ at'[c] = place
      /\ \A d \in Conn : d # c => at'[d] = at[d] /\ acc'[d] = acc[d]
  BY <1>3 DEF CallsOK
<1>5. Local(c)
  BY <1>1, <1>3, <1>4 DEF Local, Starting, Touching
<1>6. TypeOK'
  <2>1. CallsOK'
    BY <1>3 DEF CallsOK, Places
  <2>2. SharedOK' /\ RestOK'
    BY <1>1 DEF SharedOK, RestOK
  <2> QED
    BY <1>5, <2>1, <2>2, LocalKept, TypePartsNext
<1>7. CallsFollow'
  BY <1>1, <1>2, <1>3, <1>4 DEF CallsFollow, Starting, ReadWrite
<1>8. ~InMutex(c)' /\ InMutex(c) /\ \A d \in Conn : d # c => InMutex(d)' = InMutex(d)
  BY <1>1, <1>3, <1>4 DEF InMutex, Attacher
<1>9. MutexKept' /\ AttachLocked'
  BY <1>1, <1>3, <1>4, <1>8, NoOneApart DEF MutexKept, AttachLocked
<1>10. FileOwned'
  BY <1>1, <1>3, <1>4, <1>8 DEF FileOwned, session, ReadWrite
<1> QED
  BY <1>5, <1>6, <1>7, <1>9, <1>10, LocalKept

-----------------------------------------------------------------------------
(* Steps of the tasks.                                                      *)

\* The threads and the mutex are left alone.
TasksOnly ==
  /\ UNCHANGED <<opt, at, acc, owner, offset>>
  /\ notes \subseteq notes' /\ notes' \subseteq notes \cup {"mixed"}

\* Then what is said of them stays.
LEMMA TasksOnlyKept ==
  ASSUME IInv, TasksOnly
  PROVE  /\ CallsOK' /\ SharedOK' /\ RestOK' /\ CallsFollow' /\ MutexKept' /\ AttachLocked'
         /\ UNCHANGED session => FileOwned' /\ SessionOK'
<1> USE TypeParts DEF IInv, TasksOnly
<1>1. CallsOK' /\ SharedOK' /\ RestOK'
  BY DEF CallsOK, SharedOK, RestOK
<1>2. CallsFollow' /\ AttachLocked'
  BY DEF CallsFollow, AttachLocked
<1>3. MutexKept'
  BY DEF MutexKept, InMutex
<1>4. UNCHANGED session => FileOwned' /\ SessionOK'
  BY DEF FileOwned, InMutex, session, SessionOK
<1> QED
  BY <1>1, <1>2, <1>3, <1>4

\* No task is attached or detached, but that one which has exited is collected.
Traced == \A u \in Task : tracer'[u] = tracer[u] \/ (tracer'[u] = NoOne /\ u[1] \in gone)

\* Then the attached tasks are still those of accesses, of sessions or of
\* processes that were killed.
LEMMA TracedKept ==
  ASSUME IInv, TasksOnly, UNCHANGED session, gone \subseteq gone', Traced
  PROVE  OwnStops' /\ (OneDebugger => SessionOwned' /\ TracesFollow')
<1> USE TypeParts DEF IInv, TasksOnly, session, Traced
<1>1. OwnStops'
  <2> SUFFICES ASSUME "mixed" \notin notes', NEW c \in Conn
               PROVE  /\ acc[c].got # NoOne => acc[c].got = Main(acc[c].proc)
                      /\ at[c] = "wait" \/ (at[c] \in {"seek", "access", "detach"} /\ acc[c].got # NoOne)
                           => tracer'[Main(acc[c].proc)] = c \/ acc[c].proc \in gone'
    BY DEF OwnStops
  <2>1. at[c] # "idle" => Main(acc[c].proc) \in Task /\ Main(acc[c].proc)[1] = acc[c].proc
    BY MainTask DEF CallsFollow
  <2> QED
    BY <2>1 DEF OwnStops
<1>2. OneDebugger => SessionOwned'
  BY DEF SessionOwned
<1>3. OneDebugger => TracesFollow'
  BY DEF TracesFollow, AttachedFor
<1> QED
  BY <1>1, <1>2, <1>3

\* A step that only stops, continues or collects tasks.
LEMMA TasksStep ==
  ASSUME IInv, TasksOnly, UNCHANGED session, gone \subseteq gone', Traced,
         KernelOK', StopsFollow'
  PROVE  IInv'
BY TasksOnlyKept, TracedKept, TypePartsNext DEF IInv

\* The debugger thread collects a stop, of whatever task.
LEMMA WaitForDebugEventStep ==
  ASSUME IInv, NEW c \in Conn, WaitForDebugEvent(c)
  PROVE  IInv'
<1> USE TypeParts DEF IInv
<1>1. PICK t \in Task :
        /\ Waitable(t)
        /\ notes' = notes \cup (IF tracer[t] = c THEN {} ELSE {"mixed"})
        /\ IF stop[t] = "exited"
           THEN tracer' = [tracer EXCEPT ![t] = NoOne] /\ UNCHANGED stop
           ELSE stop' = [stop EXCEPT ![t] = "collected"] /\ UNCHANGED tracer
  BY DEF WaitForDebugEvent
<1>2. TasksOnly /\ UNCHANGED session /\ UNCHANGED gone
  BY <1>1 DEF WaitForDebugEvent, TasksOnly, session
<1>3. CASE stop[t] = "exited"
  BY <1>1, <1>2, <1>3, TasksStep DEF Traced, KernelOK, StopsFollow
<1>4. CASE stop[t] # "exited"
  BY <1>1, <1>2, <1>4, TasksStep DEF Traced, KernelOK, StopsFollow, Waitable
<1> QED
  BY <1>3, <1>4

\* And continues one of its own.
LEMMA ContinueFromDebugEventStep ==
  ASSUME IInv, NEW c \in Conn, ContinueFromDebugEvent(c)
  PROVE  IInv'
<1> USE TypeParts DEF IInv
<1>1. PICK t \in Task : tracer[t] = c /\ stop[t] = "collected" /\ stop' = [stop EXCEPT ![t] = "runs"]
  BY DEF ContinueFromDebugEvent
<1>2. TasksOnly /\ UNCHANGED <<session, tracer, gone>>
  BY DEF ContinueFromDebugEvent, TasksOnly
<1> QED
  BY <1>1, <1>2, TasksStep DEF Traced, KernelOK, StopsFollow

\* A traced task stops at a signal.
LEMMA SignalStep ==
  ASSUME IInv, NEW t \in Task, Signal(t)
  PROVE  IInv'
<1> USE TypeParts DEF IInv
<1>1. tracer[t] # NoOne /\ stop[t] = "runs" /\ stop' = [stop EXCEPT ![t] = "signal"]
  BY DEF Signal
<1>2. TasksOnly /\ UNCHANGED <<session, tracer, gone>>
  BY DEF Signal, TasksOnly
<1> QED
  BY <1>1, <1>2, TasksStep DEF Traced, KernelOK, StopsFollow

\* A process is killed.
LEMMA KillStep ==
  ASSUME IInv, NEW p \in Proc, Kill(p)
  PROVE  IInv'
<1> USE TypeParts DEF IInv
<1>1. gone' = gone \cup {p} /\ stop' = [t \in Task |-> IF t[1] = p THEN "exited" ELSE stop[t]]
  BY DEF Kill
<1>2. TasksOnly /\ UNCHANGED <<session, tracer>>
  BY DEF Kill, TasksOnly
<1>3. KernelOK'
  BY <1>1, <1>2 DEF KernelOK
<1>4. StopsFollow'
  BY <1>1, <1>2 DEF StopsFollow
<1> QED
  BY <1>1, <1>2, <1>3, <1>4, TasksStep DEF Traced

\* The debugger detaches from all it traces of the process.
LEMMA StopDebugStep ==
  ASSUME IInv, NEW c \in Conn, NEW p \in Proc, StopDebug(c, p)
  PROVE  IInv'
<1> USE TypeParts DEF IInv
<1>1. at[c] = "idle" /\ isDebugged[p] /\ debuggerThread[p] = c /\ TasksOnly /\ UNCHANGED notes
  BY DEF StopDebug, TasksOnly
<1>2. /\ isDebugged' = [isDebugged EXCEPT ![p] = FALSE]
      /\ UNCHANGED <<debuggerThread, gone>>
  BY DEF StopDebug
<1>3. \A t \in Task :
        /\ tracer'[t] = IF t[1] = p /\ tracer[t] = c THEN NoOne ELSE tracer[t]
        /\ stop'[t] = IF t[1] = p /\ tracer[t] = c /\ p \notin gone THEN "runs" ELSE stop[t]
  BY DEF StopDebug
<1>4. KernelOK' /\ SessionOK'
  <2>1. SessionOK'
    BY <1>2 DEF SessionOK
  <2>2. KernelOK'
    BY <1>2 DEF StopDebug, KernelOK
  <2> QED
    BY <2>1, <2>2
<1>5. StopsFollow'
  BY <1>2, <1>3 DEF StopsFollow
<1>6. OwnStops'
  <2> SUFFICES ASSUME "mixed" \notin notes', NEW d \in Conn
               PROVE  /\ acc[d].got # NoOne => acc[d].got = Main(acc[d].proc)
                      /\ at[d] = "wait" \/ (at[d] \in {"seek", "access", "detach"} /\ acc[d].got # NoOne)
                           => tracer'[Main(acc[d].proc)] = d \/ acc[d].proc \in gone'
    BY <1>1 DEF OwnStops, TasksOnly
  <2>1. at[d] # "idle" => d # c /\ Main(acc[d].proc) \in Task
    BY <1>1, MainTask DEF CallsFollow
  <2> QED
    BY <1>1, <1>2, <1>3, <2>1 DEF OwnStops
<1>7. ASSUME OneDebugger PROVE SessionOwned' /\ TracesFollow'
  <2>1. SessionOwned'
    BY <1>1, <1>2, <1>7 DEF SessionOwned, TasksOnly, SessionOK
  <2>2. ASSUME "mixed" \notin notes, NEW t \in Task, tracer'[t] # NoOne
        PROVE  \/ t[1] \in gone'
               \/ AttachedFor(tracer[t], t)'
               \/ isDebugged'[t[1]] /\ tracer'[t] = debuggerThread'[t[1]]
    <3>1. tracer'[t] = tracer[t] /\ ~(t[1] = p /\ tracer[t] = c)
      BY <1>3, <2>2
    <3>2. \/ t[1] \in gone
          \/ AttachedFor(tracer[t], t)
          \/ isDebugged[t[1]] /\ tracer[t] = debuggerThread[t[1]]
      BY <1>7, <2>2, <3>1 DEF TracesFollow
    <3>3. AttachedFor(tracer[t], t) => AttachedFor(tracer[t], t)'
      BY <1>1, <3>1 DEF AttachedFor, TasksOnly
    <3>4. isDebugged[t[1]] /\ tracer[t] = debuggerThread[t[1]] => t[1] # p /\ isDebugged'[t[1]]
      BY <1>1, <1>2, <3>1, TaskProc DEF SessionOK
    <3> QED
      BY <1>2, <3>1, <3>2, <3>3, <3>4
  <2> QED
    BY <1>1, <2>1, <2>2 DEF TracesFollow
<1>8. FileOwned'
  <2> SUFFICES ASSUME "strayed" \notin notes, opt.mso = 0 PROVE FileOwned'
    BY <1>1 DEF FileOwned, TasksOnly
  <2>1. \A d \in Conn : InMutex(d)' = InMutex(d)
    BY <1>1 DEF InMutex, TasksOnly
  <2>2. \A d \in Conn : acc[d].op = "debugread" => acc[d].proc \in Proc /\ d # c
    BY <1>1 DEF CallsFollow
  <2>3. \A d \in Conn : InMutex(d) => acc[d].proc \in Proc
    BY DEF CallsFollow, InMutex, Attacher
  <2> QED
    BY <1>1, <1>2, <2>1, <2>2, <2>3 DEF FileOwned, TasksOnly, SessionOK
<1> QED
  BY <1>1, <1>4, <1>5, <1>6, <1>7, <1>8, TasksOnlyKept, TypePartsNext

\* StartDebug attaches a task that nobody traces, holding the mutex.
LEMMA AttachTaskStep ==
  ASSUME IInv, NEW c \in Conn, AttachTask(c)
  PROVE  IInv'
<1> USE TypeParts DEF IInv
<1>1. /\ at[c] = "attachtask" /\ at' = [at EXCEPT ![c] = "taskdone"]
      /\ UNCHANGED <<opt, acc, owner, offset, gone, notes>>
  BY DEF AttachTask, Goto
<1>2. at'[c] = "taskdone" /\ \A d \in Conn : d # c => at'[d] = at[d]
  BY <1>1 DEF CallsOK
<1>3. acc[c].op = "StartDebug" /\ acc[c].proc \in Proc /\ acc[c].got = NoOne
  BY <1>1 DEF CallsFollow, Starting
<1>4. CallsOK' /\ SharedOK' /\ RestOK'
  BY <1>1 DEF CallsOK, Places, SharedOK, RestOK
<1>5. CallsFollow'
  BY <1>1, <1>2 DEF CallsFollow, Starting
<1>6. \A d \in Conn : InMutex(d)' = InMutex(d)
  BY <1>1, <1>2 DEF InMutex
<1>7. MutexKept' /\ AttachLocked'
  BY <1>1, <1>2, <1>6 DEF MutexKept, AttachLocked
<1>8. CASE UNCHANGED <<tracer, stop, session>>
  <2>1. Local(c)
    BY <1>1, <1>2, <1>3, <1>8 DEF Local, kernel, Starting, Touching
  <2>2. FileOwned'
    BY <1>1, <1>2, <1>6, <1>8 DEF FileOwned, session
  <2> QED
    BY <1>4, <1>5, <1>7, <2>1, <2>2, LocalKept, TypePartsNext
<1>9. CASE ~(UNCHANGED <<tracer, stop, session>>)
  <2>1. PICK p \in Proc, t \in Task :
          /\ p = acc[c].proc /\ t[1] = p /\ tracer[t] = NoOne /\ p \notin gone
          /\ tracer' = [tracer EXCEPT ![t] = c]
          /\ stop' = [stop EXCEPT ![t] = "sigstop"]
          /\ isDebugged' = [isDebugged EXCEPT ![p] = TRUE]
          /\ debuggerThread' = [debuggerThread EXCEPT ![p] = IF isDebugged[p] THEN @ ELSE c]
    <3>1. acc[c].n \in 1 .. NT
      BY DEF CallsOK, Record
    <3>2. PICK t : t = <<acc[c].proc, acc[c].n>>
      OBVIOUS
    <3>3. t \in Task /\ t[1] = acc[c].proc
      BY <1>3, <3>1, <3>2 DEF Task
    <3> QED
      BY <1>3, <1>9, <3>2, <3>3 DEF AttachTask
  <2>2. /\ tracer'[t] = c /\ stop'[t] = "sigstop"
        /\ \A u \in Task : u # t => tracer'[u] = tracer[u] /\ stop'[u] = stop[u]
    BY <2>1 DEF KernelOK
  <2>3. /\ isDebugged'[p] = TRUE /\ debuggerThread'[p] = IF isDebugged[p] THEN debuggerThread[p] ELSE c
        /\ \A q \in Proc : q # p => isDebugged'[q] = isDebugged[q] /\ debuggerThread'[q] = debuggerThread[q]
    BY <2>1 DEF SessionOK
  <2>4. KernelOK' /\ SessionOK'
    BY <1>1, <2>1 DEF KernelOK, SessionOK
  <2>5. StopsFollow'
    BY <1>1, <2>1, <2>2, NoOneApart DEF StopsFollow
  <2>6. OwnStops'
    <3> SUFFICES ASSUME "mixed" \notin notes, NEW d \in Conn
                 PROVE  /\ acc[d].got # NoOne => acc[d].got = Main(acc[d].proc)
                        /\ at'[d] = "wait" \/ (at'[d] \in {"seek", "access", "detach"} /\ acc[d].got # NoOne)
                             => tracer'[Main(acc[d].proc)] = d \/ acc[d].proc \in gone
      BY <1>1 DEF OwnStops
    <3>1. at[d] # "idle" => Main(acc[d].proc) \in Task
      BY MainTask DEF CallsFollow
    <3>2. tracer[t] # d
      BY <2>1, NoOneApart
    <3>3. Main(acc[d].proc) = t => acc[d].proc \notin gone \/ at[d] = "idle"
      BY <2>1, MainTask DEF CallsFollow
    <3> QED
      BY <1>2, <2>2, <3>1, <3>2, <3>3 DEF OwnStops
  <2>7. ASSUME OneDebugger PROVE SessionOwned' /\ TracesFollow'
    <3>1. c \in Debuggers
      BY <1>1, <2>7 DEF SessionOwned, Starting
    <3>2. SessionOwned'
      BY <1>1, <1>2, <2>3, <2>7, <3>1 DEF SessionOwned, Starting
    <3>3. debuggerThread'[p] = c
      BY <2>3, <2>7, <3>1 DEF SessionOwned, OneDebugger
    <3>4. \A d \in Conn, u \in Task : AttachedFor(d, u) => AttachedFor(d, u)'
      BY <1>1, <1>2, <1>3 DEF AttachedFor
    <3>5. ASSUME "mixed" \notin notes, NEW u \in Task, tracer'[u] # NoOne
          PROVE  \/ u[1] \in gone
                 \/ AttachedFor(tracer[u], u)'
                 \/ isDebugged'[u[1]] /\ tracer'[u] = debuggerThread'[u[1]]
      <4>1. CASE u = t
        BY <2>1, <2>2, <2>3, <3>3, <4>1
      <4>2. CASE u # t
        <5>1. tracer'[u] = tracer[u] /\ u[1] \in Proc
          BY <2>2, <4>2, TaskProc
        <5>2. PICK d \in Conn : d = tracer[u] /\ d = tracer'[u]
          BY <3>5, <5>1 DEF KernelOK
        <5>3. \/ u[1] \in gone
              \/ AttachedFor(d, u)
              \/ isDebugged[u[1]] /\ tracer[u] = debuggerThread[u[1]]
          BY <2>7, <3>5, <5>1, <5>2 DEF TracesFollow
        <5>4. AttachedFor(d, u)' => AttachedFor(tracer[u], u)'
          BY <5>2 DEF AttachedFor
        <5> QED
          BY <2>3, <3>4, <5>1, <5>3, <5>4
      <4> QED
        BY <4>1, <4>2
    <3> QED
      BY <1>1, <3>2, <3>5 DEF TracesFollow
  <2>8. FileOwned'
    <3> SUFFICES ASSUME "strayed" \notin notes, opt.mso = 0 PROVE FileOwned'
      BY <1>1 DEF FileOwned
    <3>1. InMutex(c)
      BY <1>1 DEF InMutex
    <3>2. \A d \in Conn : InMutex(d) => d = c
      BY <3>1 DEF MutexKept
    <3>3. \A d \in Conn : ~(InMutex(d) /\ acc[d].op \in ReadWrite)
      BY <1>3, <3>2 DEF ReadWrite
    <3>4. \A d \in Conn : acc[d].op = "debugread" => acc[d].proc \in Proc
      BY DEF CallsFollow
    <3> QED
      BY <1>1, <1>2, <1>6, <2>3, <3>3, <3>4 DEF FileOwned
  <2> QED
    BY <1>4, <1>5, <1>7, <2>4, <2>5, <2>6, <2>7, <2>8, TypePartsNext
<1> QED
  BY <1>8, <1>9

-----------------------------------------------------------------------------
(* Attaching for an access, waiting and detaching.                          *)

\* What an attach that failed leaves: the thread has no task, and unlocks if
\* it has locked.
LEMMA FailedLeaves ==
  ASSUME IInv, NEW c \in Conn, at[c] \in {"attach", "wait"}, Failed(c),
         UNCHANGED <<opt, owner, offset, session>>,
         notes \subseteq notes', notes' \subseteq notes \cup {"mixed"}
  PROVE  /\ CallsOK' /\ SharedOK' /\ SessionOK' /\ RestOK'
         /\ \A d \in Conn : d # c => at'[d] = at[d] /\ acc'[d] = acc[d]
         /\ at'[c] \in {"unlock", "access", "idle"} /\ acc'[c].got = NoOne /\ acc[c].got = NoOne
         /\ CallsFollow' /\ MutexKept' /\ AttachLocked' /\ FileOwned'
<1> USE TypeParts DEF IInv
<1>1. acc[c].op \in Access /\ acc[c].got = NoOne /\ acc[c].proc \in Proc
  BY DEF CallsFollow
<1>2. PICK x, place :
        /\ x \in Record
        /\ acc' = [acc EXCEPT ![c] = x] /\ at' = [at EXCEPT ![c] = place]
        /\ \/ place = "unlock" /\ x = acc[c] /\ ~acc[c].quick
           \/ place = "access" /\ x = acc[c] /\ acc[c].quick /\ acc[c].op = "write"
           \/ place = "idle" /\ x = NoAccess /\ acc[c].quick
  <2>1. acc[c] \in Record /\ NoAccess \in Record
    BY NothingAsked DEF CallsOK
  <2>2. acc = [acc EXCEPT ![c] = acc[c]]
    BY DEF CallsOK
  <2> QED
    BY <2>1, <2>2 DEF Failed, Return, Goto
<1>3. /\ acc'[c] = x /\ at'[c] = place
      /\ \A d \in Conn : d # c => at'[d] = at[d] /\ acc'[d] = acc[d]
  BY <1>2 DEF CallsOK
<1>4. at'[c] \in {"unlock", "access", "idle"} /\ acc'[c].got = NoOne
  BY <1>1, <1>2, <1>3, NothingAsked
<1>5. CallsOK' /\ SharedOK' /\ SessionOK' /\ RestOK'
  <2>1. CallsOK'
    BY <1>2 DEF CallsOK, Places
  <2> QED
    BY <2>1 DEF SharedOK, SessionOK, RestOK, session
<1>6. CallsFollow'
  <2>1. NoAccess.op = "none" /\ NoAccess.got = NoOne
    BY NothingAsked
  <2> QED
    BY <1>1, <1>2, <1>3, <2>1 DEF CallsFollow, Starting, ReadWrite
<1>7. \A d \in Conn : InMutex(d)' = InMutex(d)
  <2>1. InMutex(c) <=> ~acc[c].quick
    BY <1>1 DEF InMutex, Attacher, CallsFollow, Access, ReadWrite
  <2>2. InMutex(c)' <=> ~acc[c].quick
    BY <1>1, <1>2, <1>3, NothingAsked DEF InMutex, Attacher, CallsFollow, Access, ReadWrite
  <2> QED
    BY <1>3, <2>1, <2>2 DEF InMutex
<1>8. MutexKept' /\ AttachLocked'
  BY <1>3, <1>4, <1>7 DEF MutexKept, AttachLocked
<1>9. FileOwned'
  <2>1. at'[c] = "access" => opt.mso = 2
    BY <1>2, <1>3 DEF CallsFollow, ReadWrite
  <2>2. acc'[c].op # "debugread" /\ (InMutex(c)' => acc'[c] = acc[c])
    BY <1>1, <1>2, <1>3, NothingAsked DEF Access, InMutex, Attacher
  <2> QED
    BY <1>3, <1>7, <2>1, <2>2 DEF FileOwned, session
<1> QED
  BY <1>1, <1>3, <1>4, <1>5, <1>6, <1>8, <1>9

\* PTRACE_ATTACH.
LEMMA AttachStep ==
  ASSUME IInv, NEW c \in Conn, Attach(c)
  PROVE  IInv'
<1> USE TypeParts DEF IInv
<1>1. at[c] = "attach" /\ UNCHANGED <<opt, owner, offset, session, gone>>
  BY DEF Attach
<1>2. acc[c].op \in Access /\ acc[c].got = NoOne /\ acc[c].proc \in Proc
  BY <1>1 DEF CallsFollow
<1>3. PICK p \in Proc, t \in Task : p = acc[c].proc /\ t = Main(p) /\ t[1] = p
  BY <1>2, MainTask
<1>4. CASE Failed(c) /\ UNCHANGED <<tracer, stop, notes>>
  <2>1. /\ CallsOK' /\ SharedOK' /\ SessionOK' /\ RestOK'
        /\ \A d \in Conn : d # c => at'[d] = at[d] /\ acc'[d] = acc[d]
        /\ at'[c] \in {"unlock", "access", "idle"} /\ acc'[c].got = NoOne
        /\ CallsFollow' /\ MutexKept' /\ AttachLocked' /\ FileOwned'
    BY <1>1, <1>4, FailedLeaves
  <2>2. Local(c)
    BY <1>1, <1>2, <1>4, <2>1 DEF Local, kernel, Starting, Touching
  <2> QED
    BY <2>1, <2>2, LocalKept, TypePartsNext
<1>5. CASE ~(Failed(c) /\ UNCHANGED <<tracer, stop, notes>>)
  <2>1. PICK first \in {"sigstop", "both"} :
          /\ tracer[t] = NoOne /\ p \notin gone
          /\ tracer' = [tracer EXCEPT ![t] = c]
          /\ stop' = [stop EXCEPT ![t] = first]
          /\ notes' = notes \cup (IF acc[c].quick THEN {"unlocked"} ELSE {})
          /\ at' = [at EXCEPT ![c] = "wait"]
          /\ UNCHANGED acc
    BY <1>3, <1>5 DEF Attach, Goto
  <2>2. /\ tracer'[t] = c /\ stop'[t] = first
        /\ \A u \in Task : u # t => tracer'[u] = tracer[u] /\ stop'[u] = stop[u]
    BY <2>1 DEF KernelOK
  <2>3. at'[c] = "wait" /\ \A d \in Conn : d # c => at'[d] = at[d]
    BY <2>1 DEF CallsOK
  <2>4. CallsOK' /\ SharedOK' /\ SessionOK' /\ KernelOK' /\ RestOK'
    <3>1. KernelOK'
      BY <1>1, <2>1 DEF KernelOK
    <3>2. CallsOK'
      BY <2>1 DEF CallsOK, Places
    <3>3. SharedOK' /\ SessionOK'
      BY <1>1 DEF SharedOK, SessionOK, session
    <3>4. RestOK'
      BY <1>1, <2>1 DEF RestOK
    <3> QED
      BY <3>1, <3>2, <3>3, <3>4
  <2>5. CallsFollow'
    BY <1>1, <1>2, <2>1, <2>3 DEF CallsFollow, Starting
  <2>6. \A d \in Conn : InMutex(d)' = InMutex(d)
    BY <1>1, <2>1, <2>3 DEF InMutex, Attacher
  <2>7. MutexKept' /\ AttachLocked'
    BY <1>1, <2>1, <2>3, <2>6 DEF MutexKept, AttachLocked
  <2>8. StopsFollow'
    BY <1>1, <1>3, <2>1, <2>2, NoOneApart DEF StopsFollow
  <2>9. OwnStops'
    <3> SUFFICES ASSUME "mixed" \notin notes, NEW d \in Conn
                 PROVE  /\ acc[d].got # NoOne => acc[d].got = Main(acc[d].proc)
                        /\ at'[d] = "wait" \/ (at'[d] \in {"seek", "access", "detach"} /\ acc[d].got # NoOne)
                             => tracer'[Main(acc[d].proc)] = d \/ acc[d].proc \in gone
      BY <1>1, <2>1 DEF OwnStops
    <3>1. at[d] # "idle" => Main(acc[d].proc) \in Task
      BY MainTask DEF CallsFollow
    <3>2. tracer[t] # d
      BY <2>1, NoOneApart
    <3>3. Main(acc[d].proc) = t => acc[d].proc \notin gone \/ at[d] = "idle"
      BY <1>3, <2>1, MainTask DEF CallsFollow
    <3>4. CASE d = c
      BY <1>2, <1>3, <2>2, <2>3, <3>4
    <3>5. CASE d # c
      BY <2>2, <2>3, <3>1, <3>2, <3>3, <3>5 DEF OwnStops
    <3> QED
      BY <3>4, <3>5
  <2>10. ASSUME OneDebugger PROVE SessionOwned' /\ TracesFollow'
    <3>1. SessionOwned'
      BY <1>1, <2>3, <2>10 DEF SessionOwned, Starting, session
    <3>2. \A d \in Conn, u \in Task : AttachedFor(d, u) => AttachedFor(d, u)'
      BY <1>1, <2>1, <2>3 DEF AttachedFor
    <3>3. ASSUME "mixed" \notin notes, NEW u \in Task, tracer'[u] # NoOne
          PROVE  \/ u[1] \in gone
                 \/ AttachedFor(tracer[u], u)'
                 \/ isDebugged[u[1]] /\ tracer'[u] = debuggerThread[u[1]]
      <4>1. PICK d \in Conn : d = tracer'[u]
        BY <2>4, <3>3 DEF KernelOK
      <4>2. AttachedFor(d, u)' => AttachedFor(tracer[u], u)'
        BY <4>1 DEF AttachedFor
      <4>3. CASE u = t
        BY <1>2, <1>3, <2>1, <2>2, <2>3, <4>1, <4>2, <4>3 DEF AttachedFor
      <4>4. CASE u # t
        <5>1. d = tracer[u]
          BY <2>2, <4>1, <4>4
        <5>2. \/ u[1] \in gone
              \/ AttachedFor(d, u)
              \/ isDebugged[u[1]] /\ tracer[u] = debuggerThread[u[1]]
          BY <2>10, <3>3, <4>1, <5>1 DEF TracesFollow
        <5> QED
          BY <3>2, <4>1, <4>2, <5>1, <5>2
      <4> QED
        BY <4>3, <4>4
    <3> QED
      BY <1>1, <2>1, <3>1, <3>3 DEF TracesFollow, session
  <2>11. FileOwned'
    BY <1>1, <2>1, <2>3, <2>6 DEF FileOwned, session
  <2> QED
    BY <2>4, <2>5, <2>7, <2>8, <2>9, <2>10, <2>11, TypePartsNext
<1> QED
  BY <1>4, <1>5

\* What is given after an error of the wait: the task it waited for has exited,
\* or nobody traces anything.
LEMMA FailedWait ==
  ASSUME IInv, NEW c \in Conn, at[c] = "wait", Failed(c),
         UNCHANGED <<opt, owner, offset, session, gone, stop>>,
         notes \subseteq notes', notes' \subseteq notes \cup {"mixed"},
         KernelOK', Traced,
         "mixed" \notin notes' =>
            \/ acc[c].proc \in gone
            \/ tracer'[Main(acc[c].proc)] = NoOne
  PROVE  IInv'
<1> USE TypeParts DEF IInv
<1>1. /\ CallsOK' /\ SharedOK' /\ SessionOK' /\ RestOK'
      /\ \A d \in Conn : d # c => at'[d] = at[d] /\ acc'[d] = acc[d]
      /\ at'[c] \in {"unlock", "access", "idle"} /\ acc'[c].got = NoOne /\ acc[c].got = NoOne
      /\ CallsFollow' /\ MutexKept' /\ AttachLocked' /\ FileOwned'
  BY FailedLeaves
<1>2. StopsFollow'
  BY DEF StopsFollow, Traced
<1>3. acc[c].op \in Access /\ acc[c].proc \in Proc
  BY DEF CallsFollow
<1>4. OwnStops'
  <2> SUFFICES ASSUME "mixed" \notin notes', NEW d \in Conn, d # c
               PROVE  /\ acc[d].got # NoOne => acc[d].got = Main(acc[d].proc)
                      /\ at[d] = "wait" \/ (at[d] \in {"seek", "access", "detach"} /\ acc[d].got # NoOne)
                           => tracer'[Main(acc[d].proc)] = d \/ acc[d].proc \in gone
    BY <1>1 DEF OwnStops
  <2>1. at[d] # "idle" => Main(acc[d].proc) \in Task /\ Main(acc[d].proc)[1] = acc[d].proc
    BY MainTask DEF CallsFollow
  <2> QED
    BY <2>1 DEF OwnStops, Traced
<1>5. ASSUME OneDebugger PROVE SessionOwned' /\ TracesFollow'
  <2>1. SessionOwned'
    BY <1>1, <1>5 DEF SessionOwned, Starting, session
  <2>2. \A d \in Conn, u \in Task : d # c /\ AttachedFor(d, u) => AttachedFor(d, u)'
    BY <1>1 DEF AttachedFor
  <2>3. ASSUME "mixed" \notin notes', NEW u \in Task, tracer'[u] # NoOne
        PROVE  \/ u[1] \in gone
               \/ AttachedFor(tracer[u], u)'
               \/ isDebugged[u[1]] /\ tracer'[u] = debuggerThread[u[1]]
    <3>1. PICK d \in Conn : d = tracer'[u]
      BY <2>3 DEF KernelOK
    <3>2. AttachedFor(d, u)' => AttachedFor(tracer[u], u)'
      BY <3>1 DEF AttachedFor
    <3>3. tracer[u] = d
      BY <2>3, <3>1 DEF Traced
    <3>4. \/ u[1] \in gone
          \/ AttachedFor(d, u)
          \/ isDebugged[u[1]] /\ tracer[u] = debuggerThread[u[1]]
      BY <1>5, <2>3, <3>1, <3>3, NoOneApart DEF TracesFollow
    <3>5. AttachedFor(c, u) => u[1] \in gone
      BY <1>3, <2>3, MainTask DEF AttachedFor
    <3> QED
      BY <2>2, <3>1, <3>2, <3>3, <3>4, <3>5
  <2> QED
    BY <2>1, <2>3 DEF TracesFollow, session
<1> QED
  BY <1>1, <1>2, <1>4, <1>5, TypePartsNext

\* The stop that the SIGSTOP of an attach makes is given to a thread that waits.
LEMMA WaitGiven ==
  ASSUME IInv, NEW c \in Conn, at[c] = "wait", NEW t \in Task,
         tracer[t] # NoOne, stop[t] = "sigstop",
         notes' = notes \cup (IF t = Main(acc[c].proc) THEN {} ELSE {"mixed"}),
         stop' = [stop EXCEPT ![t] = "collected"],
         acc' = [acc EXCEPT ![c].got = t],
         at' = [at EXCEPT ![c] = IF acc[c].quick THEN "access" ELSE Ready(acc[c], opt)],
         UNCHANGED <<tracer, opt, owner, offset, session, gone>>
  PROVE  IInv'
<1> USE TypeParts DEF IInv
<1>1. /\ acc[c].op \in Access /\ acc[c].proc \in Proc /\ acc[c].got = NoOne
      /\ Attaches(acc[c].op, opt)
      /\ acc[c].quick => acc[c].op = "context" \/ opt.mso = 2
      /\ ~acc[c].quick => acc[c].op \in ReadWrite
  BY DEF CallsFollow, ReadWrite, Access
<1>2. /\ acc'[c].op = acc[c].op /\ acc'[c].proc = acc[c].proc
      /\ acc'[c].quick = acc[c].quick /\ acc'[c].got = t
      /\ \A d \in Conn : d # c => at'[d] = at[d] /\ acc'[d] = acc[d]
  BY DEF CallsOK, Record
<1>3. /\ at'[c] \in {"seek", "access"}
      /\ at'[c] = "seek" => opt.mso = 0 /\ ~acc[c].quick
      /\ at'[c] = "access" => ~UsesFile(acc[c], opt)
  <2>1. at'[c] = IF acc[c].quick THEN "access" ELSE Ready(acc[c], opt)
    BY DEF CallsOK
  <2>2. acc[c].quick => ~UsesFile(acc[c], opt)
    BY <1>1 DEF UsesFile
  <2>3. UsesFile(acc[c], opt) => opt.mso = 0
    BY DEF UsesFile
  <2> QED
    BY <2>1, <2>2, <2>3 DEF Ready
<1>4. CallsOK' /\ SharedOK' /\ SessionOK' /\ KernelOK' /\ RestOK'
  <2>1. CallsOK'
    BY <1>3 DEF CallsOK, Places, Record
  <2>2. SharedOK' /\ SessionOK' /\ KernelOK'
    BY DEF SharedOK, SessionOK, KernelOK, session
  <2>3. RestOK'
    BY DEF RestOK
  <2> QED
    BY <2>1, <2>2, <2>3
<1>5. CallsFollow'
  BY <1>1, <1>2, <1>3 DEF CallsFollow, Starting, Access
<1>6. \A d \in Conn : InMutex(d)' = InMutex(d)
  BY <1>2, <1>3 DEF InMutex, Attacher
<1>7. MutexKept' /\ AttachLocked'
  BY <1>2, <1>3, <1>6 DEF MutexKept, AttachLocked
<1>8. StopsFollow'
  BY DEF StopsFollow, KernelOK
<1>9. OwnStops'
  <2> SUFFICES ASSUME "mixed" \notin notes', NEW d \in Conn
               PROVE  /\ acc'[d].got # NoOne => acc'[d].got = Main(acc'[d].proc)
                      /\ at'[d] = "wait" \/ (at'[d] \in {"seek", "access", "detach"} /\ acc'[d].got # NoOne)
                           => tracer'[Main(acc'[d].proc)] = d \/ acc'[d].proc \in gone
    BY DEF OwnStops
  <2>1. t = Main(acc[c].proc) /\ "mixed" \notin notes
    OBVIOUS
  <2>2. CASE d = c
    BY <1>2, <2>1, <2>2 DEF OwnStops
  <2>3. CASE d # c
    BY <1>2, <2>1, <2>3 DEF OwnStops
  <2> QED
    BY <2>2, <2>3
<1>10. ASSUME OneDebugger PROVE SessionOwned' /\ TracesFollow'
  <2>1. SessionOwned'
    BY <1>2, <1>3, <1>10 DEF SessionOwned, Starting, session
  <2>2. ASSUME "mixed" \notin notes', NEW u \in Task, tracer'[u] # NoOne
        PROVE  \/ u[1] \in gone
               \/ AttachedFor(tracer[u], u)'
               \/ isDebugged[u[1]] /\ tracer'[u] = debuggerThread[u[1]]
    <3>1. PICK d \in Conn : d = tracer[u] /\ d = tracer'[u]
      BY <2>2 DEF KernelOK
    <3>2. AttachedFor(d, u)' => AttachedFor(tracer[u], u)'
      BY <3>1 DEF AttachedFor
    <3>3. \/ u[1] \in gone
          \/ AttachedFor(d, u)
          \/ isDebugged[u[1]] /\ tracer[u] = debuggerThread[u[1]]
      BY <1>10, <2>2, <3>1, NoOneApart DEF TracesFollow
    <3>4. t = Main(acc[c].proc)
      BY <2>2
    <3>5. AttachedFor(d, u) => AttachedFor(d, u)'
      BY <1>1, <1>2, <1>3, <3>4 DEF AttachedFor
    <3> QED
      BY <3>1, <3>2, <3>3, <3>5
  <2> QED
    BY <2>1, <2>2 DEF TracesFollow, session
<1>11. FileOwned'
  <2>1. acc[c].op # "debugread"
    BY <1>1 DEF Access
  <2>2. UsesFile(acc'[c], opt) = UsesFile(acc[c], opt)
    BY <1>2 DEF UsesFile
  <2> QED
    BY <1>2, <1>3, <1>6, <2>1, <2>2 DEF FileOwned, session
<1> QED
  BY <1>4, <1>5, <1>7, <1>8, <1>9, <1>10, <1>11, TypePartsNext

\* One turn of the loop of ptrace_attach_andwait.
LEMMA WaitStep ==
  ASSUME IInv, NEW c \in Conn, Wait(c)
  PROVE  IInv'
<1> USE TypeParts DEF IInv
<1>1. at[c] = "wait" /\ UNCHANGED <<opt, owner, offset, session, gone>>
  BY DEF Wait
<1>2. acc[c].proc \in Proc /\ Main(acc[c].proc) \in Task /\ Main(acc[c].proc)[1] = acc[c].proc
  BY <1>1, MainTask DEF CallsFollow
<1>3. CASE /\ \A t \in Task : tracer[t] = NoOne
           /\ Failed(c) /\ UNCHANGED <<tracer, stop, notes>>
  <2>1. KernelOK'
    BY <1>1, <1>3 DEF KernelOK
  <2> QED
    BY <1>1, <1>2, <1>3, <2>1, FailedWait DEF Traced
<1>4. ASSUME NEW t \in Task,
             Waitable(t),
             notes' = notes \cup (IF t = Main(acc[c].proc) THEN {} ELSE {"mixed"}),
             \/ /\ stop[t] = "sigstop"
                /\ stop' = [stop EXCEPT ![t] = "collected"]
                /\ acc' = [acc EXCEPT ![c].got = t]
                /\ Goto(c, IF acc[c].quick THEN "access" ELSE Ready(acc[c], opt))
                /\ UNCHANGED tracer
             \/ /\ stop[t] \in {"signal", "both"}
                /\ stop' = [stop EXCEPT ![t] = IF tracer[t] # c THEN "collected"
                                               ELSE IF @ = "both" THEN "sigstop" ELSE "runs"]
                /\ UNCHANGED <<at, acc, tracer>>
             \/ /\ stop[t] = "exited"
                /\ tracer' = [tracer EXCEPT ![t] = NoOne]
                /\ Failed(c)
                /\ UNCHANGED stop
      PROVE  IInv'
  <2>1. tracer[t] # NoOne
    BY <1>4 DEF Waitable
  <2>2. CASE stop[t] = "sigstop"
    BY <1>1, <1>4, <2>1, <2>2, WaitGiven DEF Goto
  <2>3. CASE stop[t] \in {"signal", "both"}
    <3>1. TasksOnly
      BY <1>1, <1>4, <2>3 DEF TasksOnly
    <3>2. UNCHANGED <<session, gone, tracer>>
      BY <1>1, <1>4, <2>3
    <3>3. KernelOK' /\ StopsFollow'
      BY <1>4, <2>1, <2>3, <3>2 DEF KernelOK, StopsFollow
    <3> QED
      BY <3>1, <3>2, <3>3, TasksStep DEF Traced
  <2>4. CASE stop[t] = "exited"
    <3>1. /\ tracer' = [tracer EXCEPT ![t] = NoOne]
          /\ Failed(c)
          /\ UNCHANGED stop
      BY <1>4, <2>4
    <3>2. t[1] \in gone
      BY <2>4 DEF StopsFollow
    <3>3. KernelOK' /\ Traced
      BY <1>1, <3>1, <3>2 DEF KernelOK, Traced
    <3>4. "mixed" \notin notes' => acc[c].proc \in gone
      BY <1>2, <1>4, <3>2
    <3> QED
      BY <1>1, <1>4, <3>1, <3>3, <3>4, FailedWait
  <2> QED
    BY <1>4, <2>2, <2>3, <2>4
<1> QED
  BY <1>3, <1>4 DEF Wait

\* PTRACE_DETACH is called for every task that an access has attached.
LEMMA DetachStep ==
  ASSUME IInv, NEW c \in Conn, Detach(c)
  PROVE  IInv'
<1> USE TypeParts DEF IInv
<1>1. at[c] = "detach" /\ UNCHANGED <<opt, owner, offset, session, gone, notes>>
  BY DEF Detach
<1>2. acc[c].op \in Access /\ acc[c].proc \in Proc
  BY <1>1 DEF CallsFollow
<1>3. PICK x, place :
        /\ x \in Record
        /\ acc' = [acc EXCEPT ![c] = x] /\ at' = [at EXCEPT ![c] = place]
        /\ \/ place = "unlock" /\ x = acc[c] /\ (acc[c].quick => acc[c].op = "write")
           \/ place = "idle" /\ x = NoAccess /\ acc[c].quick
  <2>1. acc[c] \in Record /\ NoAccess \in Record
    BY NothingAsked DEF CallsOK
  <2>2. acc = [acc EXCEPT ![c] = acc[c]]
    BY DEF CallsOK
  <2> QED
    BY <2>1, <2>2 DEF Detach, Return, Goto
<1>4. /\ acc'[c] = x /\ at'[c] = place
      /\ \A d \in Conn : d # c => at'[d] = at[d] /\ acc'[d] = acc[d]
  BY <1>3 DEF CallsOK
<1>5. /\ acc'[c].got # NoOne => acc'[c] = acc[c]
      /\ at'[c] \in {"unlock", "idle"}
  BY <1>3, <1>4, NothingAsked
<1>6. PICK t : t = acc[c].got
  OBVIOUS
<1>7. t # NoOne => t \in Task /\ Detaches(c)
  BY <1>6 DEF CallsFollow, CallsOK, Record, Detaches
<1>8. \/ /\ t \in Task /\ tracer[t] = c /\ stop[t] # "exited"
         /\ tracer' = [tracer EXCEPT ![t] = NoOne]
         /\ stop' = [stop EXCEPT ![t] = "runs"]
      \/ /\ t # NoOne => tracer[t] # c \/ stop[t] = "exited"
         /\ UNCHANGED <<tracer, stop>>
  BY <1>6, <1>7 DEF Detach
<1>9. /\ \A u \in Task : tracer'[u] = tracer[u] \/ (tracer'[u] = NoOne /\ tracer[u] = c)
      /\ t # NoOne => tracer'[t] # c \/ t[1] \in gone
  <2>1. t # NoOne /\ stop[t] = "exited" => t[1] \in gone
    BY <1>7 DEF StopsFollow
  <2> QED
    BY <1>7, <1>8, <2>1, NoOneApart DEF KernelOK
<1>10. CallsOK' /\ SharedOK' /\ SessionOK' /\ KernelOK' /\ RestOK'
  <2>1. CallsOK'
    BY <1>3 DEF CallsOK, Places
  <2>2. KernelOK'
    BY <1>1, <1>8 DEF KernelOK
  <2> QED
    BY <1>1, <2>1, <2>2 DEF SharedOK, SessionOK, RestOK, session
<1>11. CallsFollow'
  <2>1. NoAccess.op = "none" /\ NoAccess.got = NoOne
    BY NothingAsked
  <2> QED
    BY <1>1, <1>2, <1>3, <1>4, <2>1 DEF CallsFollow, Starting, ReadWrite
<1>12. \A d \in Conn : InMutex(d)' = InMutex(d)
  <2>1. InMutex(c)' = InMutex(c)
    BY <1>1, <1>3, <1>4 DEF InMutex, Attacher
  <2> QED
    BY <1>4, <2>1 DEF InMutex
<1>13. MutexKept' /\ AttachLocked'
  BY <1>1, <1>4, <1>5, <1>12 DEF MutexKept, AttachLocked
<1>14. StopsFollow'
  BY <1>1, <1>8 DEF StopsFollow, KernelOK
<1>15. OwnStops'
  <2> SUFFICES ASSUME "mixed" \notin notes, NEW d \in Conn
               PROVE  /\ acc'[d].got # NoOne => acc'[d].got = Main(acc'[d].proc)
                      /\ at'[d] = "wait" \/ (at'[d] \in {"seek", "access", "detach"} /\ acc'[d].got # NoOne)
                           => tracer'[Main(acc'[d].proc)] = d \/ acc'[d].proc \in gone
    BY <1>1 DEF OwnStops
  <2>1. CASE d = c
    BY <1>5, <2>1 DEF OwnStops
  <2>2. CASE d # c
    <3>1. at[d] # "idle" => Main(acc[d].proc) \in Task
      BY MainTask DEF CallsFollow
    <3> QED
      BY <1>4, <1>9, <2>2, <3>1 DEF OwnStops
  <2> QED
    BY <2>1, <2>2
<1>16. ASSUME OneDebugger PROVE SessionOwned' /\ TracesFollow'
  <2>1. SessionOwned'
    BY <1>1, <1>4, <1>5, <1>16 DEF SessionOwned, Starting, session
  <2>2. ASSUME "mixed" \notin notes, NEW u \in Task, tracer'[u] # NoOne
        PROVE  \/ u[1] \in gone
               \/ AttachedFor(tracer[u], u)'
               \/ isDebugged[u[1]] /\ tracer'[u] = debuggerThread[u[1]]
    <3>1. PICK d \in Conn : d = tracer[u] /\ d = tracer'[u]
      BY <1>9, <2>2, <1>10 DEF KernelOK
    <3>2. AttachedFor(d, u)' => AttachedFor(tracer[u], u)'
      BY <3>1 DEF AttachedFor
    <3>3. \/ u[1] \in gone
          \/ AttachedFor(d, u)
          \/ isDebugged[u[1]] /\ tracer[u] = debuggerThread[u[1]]
      BY <1>16, <2>2, <3>1, NoOneApart DEF TracesFollow
    <3>4. d # c /\ AttachedFor(d, u) => AttachedFor(d, u)'
      BY <1>4 DEF AttachedFor
    <3>5. d = c /\ AttachedFor(d, u) => u[1] \in gone
      BY <1>1, <1>6, <1>9, <3>1, NoOneApart DEF AttachedFor
    <3> QED
      BY <3>1, <3>2, <3>3, <3>4, <3>5
  <2> QED
    BY <1>1, <2>1, <2>2 DEF TracesFollow, session
<1>17. FileOwned'
  <2>1. acc'[c].op # "debugread" /\ (InMutex(c) /\ acc'[c].op \in ReadWrite => acc'[c] = acc[c])
    BY <1>2, <1>3, <1>4, NothingAsked DEF Access, ReadWrite
  <2> QED
    BY <1>1, <1>4, <1>5, <1>12, <2>1 DEF FileOwned, session
<1> QED
  BY <1>10, <1>11, <1>13, <1>14, <1>15, <1>16, <1>17, TypePartsNext

-----------------------------------------------------------------------------
(* The theorems.                                                            *)

\* Every step keeps the invariant.
LEMMA NextIInv == IInv /\ [Next]_vars => IInv'
<1> SUFFICES ASSUME IInv, [Next]_vars PROVE IInv'
  OBVIOUS
<1>1. CASE UNCHANGED vars
  <2>1. TasksOnly /\ UNCHANGED <<session, kernel>>
    BY <1>1 DEF vars, TasksOnly
  <2>2. KernelOK' /\ StopsFollow'
    BY <2>1, TypeParts DEF IInv, KernelOK, StopsFollow, kernel
  <2> QED
    BY <2>1, <2>2, TasksStep DEF Traced, kernel
<1>2. ASSUME NEW c \in Conn, NEW op \in Ops, NEW p \in Proc, Begin(c, op, p) PROVE IInv'
  BY <1>2, BeginStep
<1>3. ASSUME NEW c \in Conn, Accesses(c) PROVE IInv'
  BY <1>3, LockStep, AttachStep, WaitStep, SeekStep, TouchMemoryStep, DetachStep, UnlockStep
     DEF Accesses
<1>4. ASSUME NEW c \in Conn, c \in Debuggers, NEW p \in Debuggees,
             StartDebug(c, p) \/ StopDebug(c, p)
      PROVE  IInv'
  <2>1. p \in Proc
    BY AccessAssumption
  <2> QED
    BY <1>4, <2>1, StartDebugStep, StopDebugStep
<1>5. ASSUME NEW c \in Conn, Debugging(c) PROVE IInv'
  BY <1>5, LockTaskStep, AttachTaskStep, UnlockTaskStep DEF Debugging
<1>6. ASSUME NEW c \in Conn, WaitForDebugEvent(c) \/ ContinueFromDebugEvent(c) PROVE IInv'
  BY <1>6, WaitForDebugEventStep, ContinueFromDebugEventStep
<1>7. ASSUME NEW t \in Task, Signal(t) PROVE IInv'
  BY <1>7, SignalStep
<1>8. ASSUME NEW p \in Mortal, Kill(p) PROVE IInv'
  BY <1>8, AccessAssumption, KillStep
<1> QED
  BY <1>1, <1>2, <1>3, <1>4, <1>5, <1>6, <1>7, <1>8 DEF Next

\* So it holds of every state that the server reaches.
LEMMA Invariant == Spec => []IInv
BY InitIInv, NextIInv, PTL DEF Spec

\* Types, among them the count of the tasks that StartDebug has come to, which
\* stays within the tasks the process has.
THEOREM TypeCorrect == Spec => []TypeOK
<1>1. IInv => TypeOK
  BY DEF IInv
<1> QED
  BY <1>1, Invariant, PTL

\* StartDebug never comes upon a task that a read or a write has attached for
\* a moment, as long as nobody attaches without memorymutex and no wait is
\* given the stop of another: whoever has attached holds the mutex, which
\* StartDebug holds, too.
THEOREM AttachesApart == Spec => []NoAttachBusy
<1>1. IInv => NoAttachBusy
  <2> SUFFICES ASSUME IInv, Undisturbed, NEW c \in Conn, NEW d \in Conn,
                      at[c] = "attachtask", Busy(d, acc[c].proc)
               PROVE  FALSE
    BY DEF NoAttachBusy
  <2>1. "unlocked" \notin notes
    BY DEF Undisturbed
  <2>2. ~acc[d].quick /\ acc[d].op \in ReadWrite /\ acc[c].op = "StartDebug"
    BY <2>1 DEF IInv, Busy, AttachLocked, CallsFollow, Access, ReadWrite, Starting
  <2>3. at[d] \in Attacher
    BY <2>2 DEF IInv, Busy, CallsFollow, Attacher, ReadWrite
  <2>4. InMutex(c) /\ InMutex(d)
    BY <2>2, <2>3 DEF InMutex
  <2> QED
    BY <2>1, <2>2, <2>4 DEF IInv, MutexKept, ReadWrite
<1> QED
  BY <1>1, Invariant, PTL

\* A read or write of p->mem is made at its own address: between lseek64 and
\* the access nobody moves the offset of the file, as long as no access takes
\* the mutex after a session began.
THEOREM AddressesOwn == Spec => []OwnAddress
<1>1. IInv => OwnAddress
  BY DEF IInv, OwnAddress, FileOwned, UsesFile
<1> QED
  BY <1>1, Invariant, PTL

\* With one client that debugs, a thread that waits for the task it attached
\* can only be given its own stop, one of the session, or the exit of a process
\* that was killed, as long as memorymutex is kept and no wait was given
\* another's before.
THEOREM StopsApart ==
  ASSUME OneDebugger
  PROVE  Spec => []WaitsForOwn
<1>1. IInv => WaitsForOwn
  <2> SUFFICES ASSUME IInv, Undisturbed, NEW c \in Conn, NEW t \in Task,
                      at[c] = "wait", Waitable(t), t[1] \notin gone, ~isDebugged[t[1]]
               PROVE  t = Main(acc[c].proc)
    BY DEF WaitsForOwn
  <2>1. "unlocked" \notin notes /\ "mixed" \notin notes
    BY DEF Undisturbed
  <2>2. PICK d \in Conn : d = tracer[t]
    BY TypeParts DEF IInv, KernelOK, Waitable
  <2>3. AttachedFor(d, t)
    BY <2>1, <2>2, NoOneApart DEF IInv, TracesFollow
  <2>4. \A e \in {c, d} : acc[e].op \in ReadWrite /\ ~acc[e].quick /\ at[e] \in Attacher
    BY <2>1, <2>3, NoOneApart DEF IInv, AttachedFor, AttachLocked, CallsFollow, Access, ReadWrite, Attacher
  <2>5. InMutex(c) /\ InMutex(d)
    BY <2>4 DEF InMutex
  <2>6. c = d
    BY <2>1, <2>5 DEF IInv, MutexKept
  <2> QED
    BY <2>3, <2>6 DEF AttachedFor
<1> QED
  BY <1>1, Invariant, PTL

\* With one client that debugs, no task of a living process is left attached
\* or stopped when nobody accesses memory and no session is on: every access
\* detaches, on its error paths too, and StopDebug detaches the rest.
THEOREM NoneLeftAttached ==
  ASSUME OneDebugger
  PROVE  Spec => []NothingLeft
<1>1. IInv => NothingLeft
  <2> SUFFICES ASSUME IInv, "mixed" \notin notes, \A c \in Conn : at[c] = "idle",
                      NEW t \in Task, ~isDebugged[t[1]], t[1] \notin gone
               PROVE  tracer[t] = NoOne /\ stop[t] = "runs"
    BY DEF NothingLeft
  <2>1. tracer[t] = NoOne
    BY DEF IInv, TracesFollow, AttachedFor
  <2>2. stop[t] = "runs"
    BY <2>1 DEF IInv, StopsFollow
  <2> QED
    BY <2>1, <2>2
<1> QED
  BY <1>1, Invariant, PTL
=============================================================================
