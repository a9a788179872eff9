--------------------------- MODULE DebuggerProofs ---------------------------
(* Proofs that the debugger keeps its types, forgets no collected stop,      *)
(* leaves no thread traced, resumes no trap or suspended thread behind the   *)
(* client's back and continues only stops it has collected, for every number *)
(* of threads, attempts, signals and commands, and for every value an        *)
(* unwritten DebugEvent may hold.                                            *)
EXTENDS Debugger, TLAPS, WellFoundedInduction

-----------------------------------------------------------------------------
(* The queue.                                                               *)

\* A scan from the front finds a first match whenever there is a match.
LEMMA LowestIn ==
  ASSUME NEW S, S \subseteq Nat, S # {}
  PROVE  Lowest(S) \in S /\ \A j \in S : Lowest(S) <= j
<1> DEFINE R == OpToRel(<, Nat)
<1>1. \E x \in S : \A y \in S : ~ (<<y, x>> \in R)
  <2>1. IsWellFoundedOn(R, Nat)
    BY NatLessThanWellFounded
  <2> HIDE DEF R
  <2> QED
    BY <2>1, WFMin
<1>2. PICK x \in S : \A y \in S : ~ (<<y, x>> \in R)
  BY <1>1
<1>3. \A y \in S : x <= y
  <2> TAKE y \in S
  <2>1. ~ (y < x)
    BY <1>2 DEF OpToRel
  <2> QED
    BY <2>1, SMT
<1> QED
  BY <1>3 DEF Lowest

\* FindThreadDebugEventInQueue returns an event of the queue for the thread
\* asked for, RemoveThreadDebugEventFromQueue a queue, and what the second
\* takes out is what the first returns.
LEMMA FindAndRemove ==
  ASSUME NEW q \in Seq(Event), NEW tid \in 0 .. N, EventsFor(q, tid) # {}
  PROVE  /\ FindThreadDebugEventInQueue(q, tid) \in Event
         /\ tid # 0 => FindThreadDebugEventInQueue(q, tid).tid = tid
         /\ RemoveThreadDebugEventFromQueue(q, tid) \in Seq(Event)
         /\ \A t \in Tid : InQueue(q, t) =>
              \/ InQueue(RemoveThreadDebugEventFromQueue(q, tid), t)
              \/ For(FindThreadDebugEventInQueue(q, tid), t)
<1> DEFINE i == Lowest(EventsFor(q, tid))
           rest == [j \in 1 .. (Len(q) - 1) |-> IF j < i THEN q[j] ELSE q[j + 1]]
<1>1. i \in EventsFor(q, tid)
  <2>1. EventsFor(q, tid) \subseteq Nat
    BY DEF EventsFor
  <2> QED
    BY <2>1, LowestIn
<1>2. i \in 1 .. Len(q) /\ (tid # 0 => q[i].tid = tid)
  BY <1>1 DEF EventsFor
<1>3. FindThreadDebugEventInQueue(q, tid) = q[i]
  BY DEF FindThreadDebugEventInQueue
<1>4. RemoveThreadDebugEventFromQueue(q, tid) = rest
  BY DEF RemoveThreadDebugEventFromQueue
<1> HIDE DEF i
<1>5. rest \in Seq(Event)
  BY <1>2
<1>6. ASSUME NEW t \in Tid, InQueue(q, t), ~For(q[i], t)
      PROVE  InQueue(rest, t)
  <2>1. PICK j \in 1 .. Len(q) : For(q[j], t)
    BY <1>6 DEF InQueue
  <2>2. j # i
    BY <1>6, <2>1
  <2>3. CASE j < i
    <3>1. j \in DOMAIN rest /\ rest[j] = q[j]
      BY <2>3, <1>2
    <3> QED
      BY <3>1, <2>1 DEF InQueue
  <2>4. CASE j > i
    <3>1. j - 1 \in DOMAIN rest /\ rest[j - 1] = q[j]
      BY <2>4, <1>2
    <3> QED
      BY <3>1, <2>1 DEF InQueue
  <2> QED
    BY <2>2, <2>3, <2>4, <1>2
<1> QED
  BY <1>2, <1>3, <1>4, <1>5, <1>6

\* AddDebugEventToQueue keeps the events that are there.
LEMMA AppendKeeps ==
  ASSUME NEW q \in Seq(Event), NEW e \in Event
  PROVE  /\ Append(q, e) \in Seq(Event)
         /\ \A t \in Tid : InQueue(q, t) \/ For(e, t) => InQueue(Append(q, e), t)
<1>1. Append(q, e) \in Seq(Event)
  OBVIOUS
<1>2. ASSUME NEW t \in Tid, InQueue(q, t)
      PROVE  InQueue(Append(q, e), t)
  <2>1. PICK j \in 1 .. Len(q) : For(q[j], t)
    BY <1>2 DEF InQueue
  <2>2. j \in DOMAIN Append(q, e) /\ Append(q, e)[j] = q[j]
    OBVIOUS
  <2> QED
    BY <2>1, <2>2 DEF InQueue
<1>3. ASSUME NEW t \in Tid, For(e, t)
      PROVE  InQueue(Append(q, e), t)
  <2>1. Len(q) + 1 \in DOMAIN Append(q, e) /\ Append(q, e)[Len(q) + 1] = e
    OBVIOUS
  <2> QED
    BY <2>1, <1>3 DEF InQueue
<1> QED
  BY <1>1, <1>2, <1>3

\* Taking the first event leaves all the others.
LEMMA TailKeeps ==
  ASSUME NEW q \in Seq(Event), q # <<>>
  PROVE  /\ Head(q) \in Event /\ Tail(q) \in Seq(Event)
         /\ \A t \in Tid : InQueue(q, t) => For(Head(q), t) \/ InQueue(Tail(q), t)
<1>1. Head(q) \in Event /\ Tail(q) \in Seq(Event)
  OBVIOUS
<1>2. ASSUME NEW t \in Tid, InQueue(q, t), ~For(Head(q), t)
      PROVE  InQueue(Tail(q), t)
  <2>1. PICK j \in 1 .. Len(q) : For(q[j], t)
    BY <1>2 DEF InQueue
  <2>2. j # 1
    BY <1>2, <2>1
  <2>3. j - 1 \in DOMAIN Tail(q) /\ Tail(q)[j - 1] = q[j]
    BY <2>2
  <2> QED
    BY <2>1, <2>3 DEF InQueue
<1> QED
  BY <1>1, <1>2

-----------------------------------------------------------------------------
(* The inductive invariant.                                                 *)

\* An event stored in a suspended thread is an event of that thread: without
\* this ResumeThread could continue, or queue, the stop of another one.
StoredIsOwn ==
  \A t \in Tid : Real(suspendedDevent[t]) => suspendedDevent[t].tid = t

\* How calls nest.  WaitForDebugEvent waits only without a current event, so
\* that the event it returns replaces none, not even one that was reported
\* while it was interrupted.
CallsNest ==
  /\ interrupted = NoCall \/ Timed(interrupted)
  /\ call.op \in {"none", "StartDebug", "StopDebug", "WaitForDebugEvent"} =>
       interrupted = NoCall
  /\ call.op \notin {"none", "StartDebug"} => isDebugged
  /\ "WaitForDebugEvent" \in {call.op, interrupted.op} => Current = 0

\* A traced thread is in the thread list, which is all that StopDebug and
\* ContinueFromDebugEvent look at, and the two loops over the threads have
\* traced threads only on one side of the thread they are at.
TracedListed ==
  /\ \A t \in Tid : Traced(t) => t \in threadlist
  /\ call.op = "StartDebug" => \A t \in Tid : t >= call.tid \/ ~isDebugged => ~Traced(t)
  /\ call.op = "StopDebug"  => \A t \in Tid : t < call.tid => ~Traced(t)

IInv == /\ TypeOK /\ StoredIsOwn /\ CallsNest /\ TracedListed
        /\ NothingLeftTraced /\ NoStopForgotten

-----------------------------------------------------------------------------
(* Types.                                                                   *)

\* What a frame of a call holds.
LEMMA FrameShape ==
  ASSUME NEW f \in Frames
  PROVE  /\ f.op \in AnyOps \cup ThreadOps \cup {"none"}
         /\ f.tid \in 0 .. N /\ f.k \in Tries /\ f.at \in Places
         /\ f.op \in AnyOps => f.tid = 0
         /\ f.op \in ThreadOps => f.tid \in Tid
         /\ f.op = "none" <=> f = NoCall
<1> USE DebuggerAssumption
<1>1. CASE f \in [op : AnyOps, tid : {0}, k : Tries, at : Places]
  BY <1>1 DEF AnyOps, ThreadOps, MemOps, TempOps, NoCall, Frame, Tid
<1>2. CASE f \in [op : ThreadOps, tid : Tid, k : Tries, at : Places]
  BY <1>2 DEF AnyOps, ThreadOps, MemOps, TempOps, NoCall, Frame, Tid
<1>3. CASE f = NoCall
  BY <1>3 DEF AnyOps, ThreadOps, MemOps, TempOps, NoCall, Frame, Tries, Places, Tid
<1> QED
  BY <1>1, <1>2, <1>3 DEF Frames

\* The frames the calls push.
LEMMA FrameType ==
  /\ NoCall \in Frames
  /\ \A o \in AnyOps, n \in Tries, a \in Places : Frame(o, 0, n, a) \in Frames
  /\ \A o \in ThreadOps, t \in Tid, n \in Tries, a \in Places :
       Frame(o, t, n, a) \in Frames
  /\ 0 \in Tries
BY DebuggerAssumption DEF Frames, Frame, Tries

\* A frame stays one at another place or, of a thread, in another attempt.
LEMMA FrameMoved ==
  ASSUME NEW f \in Frames, f # NoCall, NEW a \in Places
  PROVE  /\ Frame(f.op, f.tid, f.k, a) \in Frames
         /\ f.op \in TempOps =>
              \A n \in Tries : Frame(f.op, f.tid, n, a) \in Frames
<1>1. TempOps \subseteq ThreadOps
  BY DEF ThreadOps
<1> QED
  BY FrameShape, FrameType, <1>1

\* Interrupting a call leaves a frame.
LEMMA CheckingType ==
  ASSUME call \in Frames
  PROVE  Checking \in Frames
<1>1. "check" \in Places
  BY DEF Places
<1> QED
  BY <1>1, FrameMoved, FrameType DEF Checking, Idle

\* ptrace and tkill keep the types of the kernel's state.
LEMMA KernelType ==
  ASSUME TypeOK
  PROVE  /\ \A t : Resumed(t) \in [Tid -> {"free", "run", "dead"} \cup Signals]
         /\ \A t : Collected(t) \in [Tid -> BOOLEAN]
         /\ \A t : ContCollected(t) \in [Tid -> BOOLEAN]
         /\ \A t : Tkill(t) \in [Tid -> BOOLEAN]
         /\ \A o, t, w : Written(o, t, w) \in [Tid -> {"none", "given", "stray"}]
<1> USE DEF TypeOK
<1>1. \A t : Resumed(t) \in [Tid -> {"free", "run", "dead"} \cup Signals]
  BY DEF Resumed
<1>2. \A t : Collected(t) \in [Tid -> BOOLEAN]
  BY DEF Collected
<1>3. \A t : ContCollected(t) \in [Tid -> BOOLEAN]
  BY DEF ContCollected
<1>4. \A t : Tkill(t) \in [Tid -> BOOLEAN]
  BY DEF Tkill
<1>5. \A o, t, w : Written(o, t, w) \in [Tid -> {"none", "given", "stray"}]
  BY DEF Written
<1> QED
  BY <1>1, <1>2, <1>3, <1>4, <1>5

\* The events that calls make up.
LEMMA EventType ==
  /\ \A t \in 0 .. N, e \in Signals \cup Virtual : Ev(t, e) \in Event
  /\ \A t \in 0 .. N, e \in Signals \cup Virtual : Ev(t, e).tid = t /\ Ev(t, e).ev = e
  /\ Tid \subseteq 0 .. N
  /\ \A t \in Tid : GetStopSignalFromThread(t) \in Signals \cup Virtual
BY DebuggerAssumption DEF Event, Ev, Tid, GetStopSignalFromThread, Stopped, Virtual

\* An event is a thread and a signal.
LEMMA EventShape ==
  ASSUME NEW e \in Event
  PROVE  e.tid \in 0 .. N /\ e.ev \in Signals \cup Virtual /\ (e.tid # 0 => e.tid \in Tid)
BY DebuggerAssumption DEF Event, Tid

\* What a wait returns with keeps the types.
LEMMA ReturnTrueType ==
  ASSUME TypeOK, NEW de \in Event, de.tid \in Tid, NEW q \in Seq(Event),
         NEW unrep \in [Tid -> BOOLEAN], ReturnTrue(de, q, unrep), UNCHANGED requests
  PROVE  TypeOK'
<1> USE DEF TypeOK
<1>1. call' \in Frames /\ interrupted' \in Frames
  BY FrameType DEF ReturnTrue, Return
<1>2. UNCHANGED <<pending, procStop, traps, isDebugged, threadlist, requests>>
  BY DEF ReturnTrue
<1>3. CASE EventReported(de, q, unrep)
  BY <1>1, <1>2, <1>3 DEF EventReported
<1>4. CASE ThreadSuspended(de, q, unrep)
  <2>1. call.tid \in Tid
    BY <1>4, FrameShape DEF ThreadSuspended, ThreadOps
  <2>2. suspendCount' \in [Tid -> Nat] /\ suspendedDevent' \in [Tid -> Event]
    BY <1>4, <2>1 DEF ThreadSuspended
  <2> QED
    BY <1>1, <1>2, <1>4, <2>2 DEF ThreadSuspended
<1>5. CASE TempStopDone(de, q, unrep)
  <2>1. breakpoint' \in [Tid -> {"none", "given", "stray"}]
    BY <1>5, KernelType DEF TempStopDone
  <2>2. UNCHANGED <<debuggedThreadEvent, suspendCount, suspendedDevent>>
    BY <1>5 DEF TempStopDone
  <2>3. CASE TempStopContinues(de, q, unrep)
    <3>1. task' \in [Tid -> {"free", "run", "dead"} \cup Signals]
      BY <2>3, KernelType DEF TempStopContinues
    <3> QED
      BY <1>1, <1>2, <2>1, <2>2, <2>3, <3>1 DEF TempStopContinues
  <2>4. CASE TempStopQueues(de, q, unrep)
    BY <1>1, <1>2, <2>1, <2>2, <2>4, AppendKeeps DEF TempStopQueues
  <2> QED
    BY <1>5, <2>3, <2>4 DEF TempStopDone
<1> QED
  BY <1>3, <1>4, <1>5 DEF ReturnTrue

\* A step of the target keeps the types.
LEMMA TargetType ==
  ASSUME TypeOK, Target, UNCHANGED requests
  PROVE  TypeOK'
<1> USE DEF TypeOK, process, threads, calls, Signals
<1>1. CASE Kill
  BY <1>1 DEF Kill
<1>2. ASSUME NEW t \in Tid, Trap(t)
      PROVE  TypeOK'
  BY <1>2 DEF Trap
<1>3. ASSUME NEW t \in Tid, DeliverStop(t)
      PROVE  TypeOK'
  BY <1>3 DEF DeliverStop
<1>4. ASSUME NEW t \in Tid, Exit(t)
      PROVE  TypeOK'
  BY <1>4 DEF Exit
<1> QED
  BY <1>1, <1>2, <1>3, <1>4 DEF Target

\* StartDebug and its attach loop keep the types.
LEMMA StartType ==
  ASSUME TypeOK, StartDebug \/ (AttachTask /\ UNCHANGED requests)
  PROVE  TypeOK'
<1> USE DebuggerAssumption DEF TypeOK, kernel, process, threads
<1> USE DEF Now
<1>p. "wait" \in Places /\ "StartDebug" \in ThreadOps /\ 1 \in Tid
  BY DEF Places, ThreadOps, Tid
<1>1. CASE StartDebug
  <2>1. call' \in Frames /\ interrupted' \in Frames
    BY <1>1, <1>p, FrameType DEF StartDebug
  <2> QED
    BY <1>1, <2>1 DEF StartDebug, Served
<1>2. CASE AttachTask /\ UNCHANGED requests
  <2> DEFINE t == call.tid
  <2>1. t \in Tid
    BY <1>2, <1>p, FrameShape DEF AttachTask
  <2>2. NextTask(t) \in Frames
    <3>1. t # N => t + 1 \in Tid
      BY <2>1 DEF Tid
    <3> QED
      BY <3>1, <1>p, FrameType DEF NextTask
  <2>3. call' \in Frames /\ interrupted' \in Frames
    BY <1>2, <2>2 DEF AttachTask
  <2>4. AddThreadToProcess(t) =>
          /\ threadlist' \subseteq Tid /\ isPaused' \in [Tid -> BOOLEAN]
          /\ suspendCount' \in [Tid -> Nat] /\ suspendedDevent' \in [Tid -> Event]
    <3>1. NoEvent \in Event
      BY EventType DEF NoEvent, Virtual
    <3> QED
      BY <2>1, <3>1 DEF AddThreadToProcess
  <2>5. CASE AttachDead(t)
    BY <1>2, <2>3, <2>5 DEF AttachDead
  <2>6. CASE AttachFails(t)
    BY <1>2, <2>3, <2>4, <2>6 DEF AttachFails
  <2>7. CASE Attach(t)
    <3>1. /\ Ev(1, "-2") \in Event /\ Ev(t, "-1") \in Event
          /\ Ev(0, debuggedThreadEvent.ev) \in Event
      <4>1. 0 \in 0 .. N /\ 1 \in 0 .. N /\ t \in 0 .. N
        BY <2>1, <1>p DEF Tid
      <4>2. debuggedThreadEvent.ev \in Signals \cup Virtual
        BY EventShape
      <4> HIDE DEF t
      <4> QED
        BY <4>1, <4>2, EventType DEF Virtual
    <3>2. debugEventQueue' \in Seq(Event) /\ debuggedThreadEvent' \in Event
      BY <2>7, <3>1 DEF Attach
    <3> QED
      BY <1>2, <2>3, <2>4, <2>7, <3>2 DEF Attach
  <2> QED
    BY <1>2, <2>5, <2>6, <2>7 DEF AttachTask
<1> QED
  BY <1>1, <1>2

\* The waits keep the types.
LEMMA WaitType ==
  ASSUME TypeOK, Wait, UNCHANGED requests
  PROVE  TypeOK'
<1>1. CASE TakeQueued
  <2> DEFINE tid == call.tid
             t   == FindThreadDebugEventInQueue(debugEventQueue, tid).tid
             q   == RemoveThreadDebugEventFromQueue(debugEventQueue, tid)
  <2>1. /\ tid \in 0 .. N /\ EventsFor(debugEventQueue, tid) # {}
        /\ debugEventQueue \in Seq(Event)
    BY <1>1, FrameShape DEF TakeQueued, QueueFirst, TypeOK
  <2>2. t \in 0 .. N /\ (t # 0 => t \in Tid) /\ q \in Seq(Event)
    BY <2>1, FindAndRemove, EventShape
  <2>3. CASE t # 0 /\ ReturnTrue(Ev(t, GetStopSignalFromThread(t)), q, unreported)
    <3> HIDE DEF t, q
    <3>1. Ev(t, GetStopSignalFromThread(t)) \in Event
          /\ Ev(t, GetStopSignalFromThread(t)).tid = t
      BY <2>2, <2>3, EventType
    <3>2. unreported \in [Tid -> BOOLEAN]
      BY DEF TypeOK
    <3> QED
      BY <3>1, <3>2, <2>2, <2>3, ReturnTrueType
  <2>4. CASE /\ debugEventQueue' = q
             /\ UNCHANGED <<kernel, isDebugged, threads, debuggedThreadEvent, calls>>
    <3> HIDE DEF t, q
    <3> QED
      BY <2>2, <2>4 DEF TypeOK, kernel, threads, calls
  <2> QED
    BY <1>1, <2>3, <2>4 DEF TakeQueued
<1>2. CASE NothingYet
  <2>1. call' \in Frames /\ interrupted' \in Frames
    BY <1>2, FrameMoved DEF NothingYet, Now, TypeOK, Idle, Places
  <2> QED
    BY <1>2, <2>1 DEF NothingYet, TypeOK, kernel, process, threads
<1>3. ASSUME NEW t \in Tid, Waitpid(t)
      PROVE  TypeOK'
  <2>1. Ev(t, GetStopSignalFromThread(t)) \in Event
        /\ Ev(t, GetStopSignalFromThread(t)).tid = t
    BY EventType
  <2>2. Collected(t) \in [Tid -> BOOLEAN] /\ debugEventQueue \in Seq(Event)
    BY KernelType DEF TypeOK
  <2> QED
    BY <1>3, <2>1, <2>2, ReturnTrueType DEF Waitpid
<1> QED
  BY <1>1, <1>2, <1>3 DEF Wait

\* WaitForDebugEvent and ContinueFromDebugEvent keep the types.
LEMMA LoopType ==
  ASSUME TypeOK, WaitForDebugEvent \/ ContinueFromDebugEvent, UNCHANGED requests
  PROVE  TypeOK'
<1> USE DEF TypeOK, kernel, threads, calls
<1>1. CASE WaitForDebugEvent
  <2>1. CASE ReturnQueued
    <3>1. debuggedThreadEvent' \in Event /\ debugEventQueue' \in Seq(Event)
      BY <2>1, TailKeeps DEF ReturnQueued
    <3> QED
      BY <1>1, <2>1, <3>1 DEF WaitForDebugEvent, ReturnQueued
  <2>2. CASE WaitForAny
    <3>1. call' \in Frames /\ interrupted' \in Frames
      BY <2>2, FrameType DEF WaitForAny, Now, AnyOps, Places
    <3> QED
      BY <1>1, <2>2, <3>1 DEF WaitForDebugEvent, WaitForAny
  <2> QED
    BY <1>1, <2>1, <2>2 DEF WaitForDebugEvent
<1>2. CASE ContinueFromDebugEvent
  <2>1. Ev(0, debuggedThreadEvent.ev) \in Event
    BY EventType, EventShape, DebuggerAssumption
  <2>2. CASE ContinueVirtual \/ ContinueUnlisted
    BY <1>2, <2>1, <2>2 DEF ContinueFromDebugEvent, ContinueVirtual, ContinueUnlisted
  <2>3. CASE ContinueStopped
    <3>1. /\ task' \in [Tid -> {"free", "run", "dead"} \cup Signals]
          /\ unreported' \in [Tid -> BOOLEAN]
      BY <2>3, KernelType DEF ContinueStopped
    <3> QED
      BY <1>2, <2>1, <2>3, <3>1 DEF ContinueFromDebugEvent, ContinueStopped
  <2>4. CASE ContinueKilled
    BY <1>2, <2>1, <2>4 DEF ContinueFromDebugEvent, ContinueKilled
  <2> QED
    BY <1>2, <2>2, <2>3, <2>4 DEF ContinueFromDebugEvent
<1> QED
  BY <1>1, <1>2

\* The calls that any connection may have dispatched keep the types.
LEMMA RequestsType ==
  ASSUME TypeOK, Requests
  PROVE  TypeOK'
<1> USE DEF TypeOK, kernel, process, threads
<1>p. "first" \in Places /\ "wait" \in Places
  BY DEF Places
<1>c. Checking \in Frames
  BY CheckingType
<1>s. Served => requests' \in Nat
  BY DEF Served
<1>d. Dispatch => call' \in Frames /\ interrupted' \in Frames
  BY <1>c DEF Dispatch
<1>1. ASSUME NEW t \in Tid, NEW op \in TempOps, StopForOp(op, t)
      PROVE  TypeOK'
  <2>1. call' \in Frames /\ interrupted' \in Frames
    BY <1>1, <1>c, <1>p, FrameType DEF StopForOp, Enter, ThreadOps
  <2>2. pending' \in [Tid -> BOOLEAN] /\ requests' \in Nat
    BY <1>1, <1>s, KernelType DEF StopForOp, TempDispatched, Dispatched
  <2> QED
    BY <1>1, <2>1, <2>2 DEF StopForOp
<1>2. ASSUME NEW t \in Tid, NEW op \in TempOps, ActOnPaused(op, t)
      PROVE  TypeOK'
  <2>1. breakpoint' \in [Tid -> {"none", "given", "stray"}] /\ requests' \in Nat
    BY <1>2, <1>s, KernelType DEF ActOnPaused, TempDispatched, Dispatched
  <2> QED
    BY <1>2, <1>d, <2>1 DEF ActOnPaused
<1>3. ASSUME NEW t \in Tid, SuspendRunning(t)
      PROVE  TypeOK'
  <2>1. call' \in Frames /\ interrupted' \in Frames
    BY <1>3, <1>c, <1>p, FrameType DEF SuspendRunning, Enter, ThreadOps
  <2>2. pending' \in [Tid -> BOOLEAN] /\ requests' \in Nat
    BY <1>3, <1>s, KernelType DEF SuspendRunning, CanSuspend, Dispatched
  <2> QED
    BY <1>3, <2>1, <2>2 DEF SuspendRunning
<1>4. ASSUME NEW t \in Tid, SuspendPaused(t)
      PROVE  TypeOK'
  <2>1. /\ requests' \in Nat
        /\ UNCHANGED <<kernel, isDebugged, threadlist, isPaused, debuggedThreadEvent>>
    BY <1>4, <1>s DEF SuspendPaused, CanSuspend, Dispatched
  <2>2. Counted(t) => suspendCount' \in [Tid -> Nat]
    BY DEF Counted
  <2>3. CASE SuspendAgain(t) \/ SuspendCurrent(t)
    BY <2>1, <2>2, <2>3, <1>d DEF SuspendAgain, SuspendCurrent
  <2>4. CASE SuspendQueued(t)
    <3>1. t \in 0 .. N
      BY DebuggerAssumption DEF Tid
    <3>2. debugEventQueue' \in Seq(Event) /\ suspendedDevent' \in [Tid -> Event]
      BY <2>4, <3>1, FindAndRemove DEF SuspendQueued
    <3> QED
      BY <2>1, <2>2, <2>4, <3>2, <1>d DEF SuspendQueued
  <2>5. CASE SuspendCrash(t)
    <3>1. call' \in Frames /\ interrupted' \in Frames
      BY <2>5, <1>p, FrameType DEF SuspendCrash, Now, ThreadOps
    <3> QED
      BY <2>1, <2>5, <3>1 DEF SuspendCrash
  <2> QED
    BY <1>4, <2>3, <2>4, <2>5 DEF SuspendPaused
<1>5. ASSUME NEW t \in Tid, ResumeThread(t)
      PROVE  TypeOK'
  <2>1. /\ requests' \in Nat /\ suspendCount' \in [Tid -> Nat]
        /\ UNCHANGED <<pending, procStop, breakpoint, traps, isDebugged, threadlist,
                       suspendedDevent, debuggedThreadEvent>>
    BY <1>5, <1>s DEF ResumeThread, Dispatched
  <2>2. call' \in Frames /\ interrupted' \in Frames
    BY <1>5, <1>d DEF ResumeThread
  <2>3. CASE ResumeCounts(t)
    BY <2>1, <2>2, <2>3 DEF ResumeCounts
  <2>4. CASE ResumeContinues(t)
    <3>1. /\ task' \in [Tid -> {"free", "run", "dead"} \cup Signals]
          /\ unreported' \in [Tid -> BOOLEAN]
      BY <2>4, KernelType DEF ResumeContinues
    <3> QED
      BY <2>1, <2>2, <2>4, <3>1 DEF ResumeContinues
  <2>5. CASE ResumeQueues(t)
    BY <2>1, <2>2, <2>5, AppendKeeps DEF ResumeQueues
  <2> QED
    BY <1>5, <2>3, <2>4, <2>5 DEF ResumeThread
<1>6. ASSUME NEW op \in MemOps, StopForMemory(op)
      PROVE  TypeOK'
  <2>1. call' \in Frames /\ interrupted' \in Frames
    BY <1>6, <1>c, <1>p, FrameType DEF StopForMemory, Enter, AnyOps
  <2> QED
    BY <1>6, <2>1, <1>s DEF StopForMemory, Dispatched
<1> QED
  BY <1>1, <1>2, <1>3, <1>4, <1>5, <1>6 DEF Requests

\* The ends of the waits keep the types: the attempts of a temporary stop stay
\* within their limit.
LEMMA ExpireType ==
  ASSUME TypeOK, Expire, UNCHANGED requests
  PROVE  TypeOK'
<1> USE DEF TypeOK, kernel, process, threads
<1>p. "first" \in Places /\ "wait" \in Places
  BY DEF Places
<1>r. Return => call' \in Frames /\ interrupted' \in Frames
  BY FrameType DEF Return
<1>g. Garbage \subseteq Event
  BY DebuggerAssumption DEF Event, Signals, Virtual
<1>1. CASE WaitTimeout
  BY <1>1, <1>r DEF WaitTimeout
<1>2. CASE Retry
  <2>1. call.op \in TempOps /\ call # NoCall /\ call.k \in Tries
    BY <1>2, FrameShape DEF Retry, TimedOut, Idle
  <2>2. call.k + 1 \in Tries
    BY <1>2, <2>1, DebuggerAssumption DEF Retry, Tries
  <2>3. call' \in Frames /\ interrupted' \in Frames
    BY <1>2, <1>p, <2>1, <2>2, FrameMoved DEF Retry, Now
  <2>4. pending' \in [Tid -> BOOLEAN]
    BY <1>2, KernelType DEF Retry
  <2> QED
    BY <1>2, <2>3, <2>4 DEF Retry
<1>3. CASE SuspendRetry
  <2>1. call.tid \in Tid
    BY <1>3, FrameShape DEF SuspendRetry, TimedOut, ThreadOps
  <2>2. call' \in Frames /\ interrupted' \in Frames
    <3>1. Frame("SuspendThread", call.tid, 0, "first") \in Frames
      BY <1>p, <2>1, FrameType DEF ThreadOps
    <3> QED
      BY <1>3, <1>r, <3>1 DEF SuspendRetry, Now
  <2>3. pending' \in [Tid -> BOOLEAN] /\ suspendCount' \in [Tid -> Nat]
    BY <1>3, <2>1, KernelType DEF SuspendRetry, Counted
  <2> QED
    BY <1>3, <2>2, <2>3 DEF SuspendRetry
<1>4. ASSUME NEW de \in Garbage, GiveUp(de)
      PROVE  TypeOK'
  <2>1. call' \in Frames /\ interrupted' \in Frames
    BY <1>4, <1>r DEF GiveUp
  <2>2. /\ task' \in [Tid -> {"free", "run", "dead"} \cup Signals]
        /\ unreported' \in [Tid -> BOOLEAN]
        /\ breakpoint' \in [Tid -> {"none", "given", "stray"}]
    BY <1>4, KernelType DEF GiveUp
  <2>3. debugEventQueue' \in Seq(Event)
    BY <1>4, <1>g, AppendKeeps DEF GiveUp
  <2> QED
    BY <1>4, <2>1, <2>2, <2>3 DEF GiveUp
<1>5. ASSUME NEW de \in Garbage, MemoryFails(de.ev)
      PROVE  TypeOK'
  <2>1. call' \in Frames /\ interrupted' \in Frames
    BY <1>5, <1>r DEF MemoryFails
  <2>2. Ev(0, de.ev) \in Event
    <3>1. de.ev \in Signals \cup Virtual /\ 0 \in 0 .. N
      BY <1>g, EventShape, DebuggerAssumption
    <3> QED
      BY <3>1, EventType
  <2>3. debugEventQueue' \in Seq(Event)
    BY <1>5, <2>2, AppendKeeps DEF MemoryFails
  <2> QED
    BY <1>5, <2>1, <2>3 DEF MemoryFails
<1> QED
  BY <1>1, <1>2, <1>3, <1>4, <1>5 DEF Expire

\* StopDebug asks the next thread of the list to stop, or is done.
LEMMA StopFromType ==
  ASSUME TypeOK, NEW S \in SUBSET Tid, StopFrom(S)
  PROVE  /\ call' \in Frames /\ interrupted' \in Frames
         /\ pending' \in [Tid -> BOOLEAN] /\ isDebugged' \in BOOLEAN
<1>1. S # {} => Lowest(S) \in Tid
  <2>1. S \subseteq Nat
    BY DEF Tid
  <2> QED
    BY <2>1, LowestIn
<1>2. "StopDebug" \in ThreadOps /\ "wait" \in Places
  BY DEF ThreadOps, Places
<1> QED
  BY <1>1, <1>2, FrameType, KernelType DEF StopFrom, Now, TypeOK

\* StopDebug keeps the types.
LEMMA StopType ==
  ASSUME TypeOK, StopDebug \/ (StopStep /\ UNCHANGED requests)
  PROVE  TypeOK'
<1> USE DEF TypeOK
<1>1. CASE StopDebug
  <2>1. /\ call' \in Frames /\ interrupted' \in Frames
        /\ pending' \in [Tid -> BOOLEAN] /\ isDebugged' \in BOOLEAN
    BY <1>1, StopFromType DEF StopDebug
  <2> QED
    BY <1>1, <2>1 DEF StopDebug, StopUnchanged, Served, threads
<1>2. ASSUME NEW t \in Tid, StopDetaches(t), UNCHANGED requests
      PROVE  TypeOK'
  <2>1. /\ call' \in Frames /\ interrupted' \in Frames
        /\ pending' \in [Tid -> BOOLEAN] /\ isDebugged' \in BOOLEAN
    BY <1>2, StopFromType DEF StopDetaches, After
  <2>2. unreported' \in [Tid -> BOOLEAN]
    BY <1>2, KernelType DEF StopDetaches
  <2> QED
    BY <1>2, <2>1, <2>2 DEF StopDetaches, StopUnchanged, threads
<1>3. ASSUME NEW t \in Tid, StopOtherSignal(t), UNCHANGED requests
      PROVE  TypeOK'
  <2>1. /\ task' \in [Tid -> {"free", "run", "dead"} \cup Signals]
        /\ unreported' \in [Tid -> BOOLEAN] /\ pending' \in [Tid -> BOOLEAN]
    BY <1>3, KernelType DEF StopOtherSignal
  <2> QED
    BY <1>3, <2>1 DEF StopOtherSignal, StopUnchanged, threads, calls
<1>4. ASSUME NEW t \in Tid, StopGone(t), UNCHANGED requests
      PROVE  TypeOK'
  <2>1. /\ call' \in Frames /\ interrupted' \in Frames
        /\ pending' \in [Tid -> BOOLEAN] /\ isDebugged' \in BOOLEAN
    BY <1>4, StopFromType DEF StopGone, After
  <2>2. unreported' \in [Tid -> BOOLEAN]
    BY <1>4, KernelType DEF StopGone
  <2> QED
    BY <1>4, <2>1, <2>2 DEF StopGone, StopUnchanged, threads
<1>5. ASSUME NEW t \in Tid, StopSpins(t), UNCHANGED requests
      PROVE  TypeOK'
  <2>1. call' \in Frames /\ interrupted' \in Frames
    BY <1>5, FrameType DEF StopSpins, Now, ThreadOps, Places
  <2> QED
    BY <1>5, <2>1 DEF StopSpins, kernel, process, threads
<1> QED
  BY <1>1, <1>2, <1>3, <1>4, <1>5 DEF StopStep

\* Every step keeps the types.
LEMMA TypeStep ==
  ASSUME TypeOK, [Next]_vars
  PROVE  TypeOK'
<1>1. CASE UNCHANGED vars
  BY <1>1 DEF TypeOK, vars, kernel, process, threads, calls
<1> QED
  BY <1>1, TargetType, StartType, WaitType, LoopType, RequestsType, ExpireType,
     StopType DEF Next, Steps

\* The initial state has the types.
LEMMA InitType == Init => TypeOK
<1>1. NoEvent \in Event
  BY DebuggerAssumption DEF NoEvent, Event, Ev, Virtual
<1>2. NoCall \in Frames
  BY FrameType
<1>3. Init => /\ task \in [Tid -> {"free", "run", "dead"} \cup Signals]
              /\ breakpoint \in [Tid -> {"none", "given", "stray"}]
              /\ unreported \in [Tid -> BOOLEAN] /\ pending \in [Tid -> BOOLEAN]
              /\ isPaused \in [Tid -> BOOLEAN] /\ suspendCount \in [Tid -> Nat]
  BY DEF Init
<1>4. Init => suspendedDevent \in [Tid -> Event] /\ debugEventQueue \in Seq(Event)
  BY <1>1 DEF Init
<1>5. Init => /\ procStop \in BOOLEAN /\ isDebugged \in BOOLEAN
              /\ debuggedThreadEvent = NoEvent /\ call = NoCall /\ interrupted = NoCall
  BY Zenon DEF Init
<1>6. Init => traps \in Nat /\ requests \in Nat /\ threadlist \subseteq Tid
  BY DEF Init
<1> QED
  BY <1>1, <1>2, <1>3, <1>4, <1>5, <1>6 DEF TypeOK

\* The type invariant, for any number of threads: the attempts of a temporary
\* stop never exceed their limit, a call always has the thread it is for, and
\* only events of threads (or of none) enter the queue.
THEOREM TypeCorrect == Spec => []TypeOK
<1>1. TypeOK /\ [Next]_vars => TypeOK'
  BY TypeStep
<1> QED
  BY InitType, <1>1, PTL DEF Spec

-----------------------------------------------------------------------------
(* What a wait returns.                                                     *)

\* The innermost call returns with thread t, whose event left the queue (q is
\* what remains) or whose stop was collected (unrep is what remains).
Returns(t, q, unrep) ==
  /\ call \in Frames /\ call # NoCall /\ WaitsFor(call, t)
  /\ \A u \in Tid : u # t => /\ unrep[u] = unreported[u]
                             /\ InQueue(debugEventQueue, u) => InQueue(q, u)
  /\ ReturnTrue(Ev(t, GetStopSignalFromThread(t)), q, unrep)

\* An event of no thread is dropped from the queue.
Drops(q) ==
  /\ \A u \in Tid : InQueue(debugEventQueue, u) => InQueue(q, u)
  /\ debugEventQueue' = q
  /\ UNCHANGED <<kernel, isDebugged, threads, debuggedThreadEvent, calls>>

\* A step of a wait returns with a thread, drops an event or waits on.
LEMMA WaitCases ==
  ASSUME TypeOK, Wait
  PROVE  \/ \E t \in Tid, q \in Seq(Event), unrep \in [Tid -> BOOLEAN] :
              Returns(t, q, unrep)
         \/ \E q \in Seq(Event) : Drops(q)
         \/ NothingYet
<1>0. call \in Frames /\ debugEventQueue \in Seq(Event) /\ unreported \in [Tid -> BOOLEAN]
  BY DEF TypeOK
<1>1. CASE TakeQueued
  <2> DEFINE e == FindThreadDebugEventInQueue(debugEventQueue, call.tid)
             q == RemoveThreadDebugEventFromQueue(debugEventQueue, call.tid)
  <2>1. call.tid \in 0 .. N /\ EventsFor(debugEventQueue, call.tid) # {}
    BY <1>0, <1>1, FrameShape DEF TakeQueued, QueueFirst
  <2>2. /\ e \in Event /\ (call.tid # 0 => e.tid = call.tid) /\ q \in Seq(Event)
        /\ \A u \in Tid : InQueue(debugEventQueue, u) => InQueue(q, u) \/ For(e, u)
    BY <1>0, <2>1, FindAndRemove
  <2>3. call # NoCall
    BY <1>1 DEF TakeQueued, Idle
  <2>4. \/ e.tid # 0 /\ ReturnTrue(Ev(e.tid, GetStopSignalFromThread(e.tid)), q, unreported)
        \/ /\ e.tid = 0 /\ debugEventQueue' = q
           /\ UNCHANGED <<kernel, isDebugged, threads, debuggedThreadEvent, calls>>
    BY <1>1 DEF TakeQueued
  <2> HIDE DEF e, q
  <2>5. \A u \in Tid : u # e.tid => ~For(e, u)
    BY DEF For
  <2>6. CASE /\ e.tid = 0 /\ debugEventQueue' = q
             /\ UNCHANGED <<kernel, isDebugged, threads, debuggedThreadEvent, calls>>
    <3>1. \A u \in Tid : u # 0
      BY DEF Tid
    <3>2. Drops(q)
      BY <2>2, <2>5, <2>6, <3>1 DEF Drops
    <3> QED
      BY <2>2, <3>2
  <2>7. CASE e.tid # 0 /\ ReturnTrue(Ev(e.tid, GetStopSignalFromThread(e.tid)), q, unreported)
    <3>1. e.tid \in Tid
      BY <2>2, <2>7, EventShape
    <3>2. Returns(e.tid, q, unreported)
      BY <1>0, <2>2, <2>3, <2>5, <2>7 DEF Returns, WaitsFor
    <3> QED
      BY <1>0, <2>2, <3>1, <3>2
  <2> QED
    BY <2>4, <2>6, <2>7
<1>2. ASSUME NEW t \in Tid, Waitpid(t)
      PROVE  \E tt \in Tid, q \in Seq(Event), unrep \in [Tid -> BOOLEAN] :
               Returns(tt, q, unrep)
  <2>1. call # NoCall /\ WaitsFor(call, t)
    BY <1>2 DEF Waitpid, Idle, Waiting
  <2>2. /\ Collected(t) \in [Tid -> BOOLEAN]
        /\ \A u \in Tid : u # t => Collected(t)[u] = unreported[u]
    BY <1>0 DEF Collected
  <2>3. Returns(t, debugEventQueue, Collected(t))
    BY <1>0, <1>2, <2>1, <2>2 DEF Returns, Waitpid
  <2> QED
    BY <1>0, <2>2, <2>3
<1> QED
  BY <1>1, <1>2 DEF Wait

\* The call that returns is one of those that wait.
LEMMA ReturnsOps ==
  ASSUME NEW t \in Tid, NEW q, NEW unrep, Returns(t, q, unrep)
  PROVE  /\ call.op \in TempOps \cup MemOps \cup {"WaitForDebugEvent", "SuspendThread"}
         /\ call.op = "SuspendThread" => call.tid = t
<1>1. call.op \in TempOps \cup MemOps \cup {"WaitForDebugEvent", "SuspendThread"}
  BY DEF Returns, ReturnTrue, EventReported, ThreadSuspended, TempStopDone
<1>2. call.op = "SuspendThread" => call.tid \in Tid
  BY FrameShape DEF Returns, ThreadOps
<1> QED
  BY <1>1, <1>2 DEF Returns, WaitsFor, Tid

-----------------------------------------------------------------------------
(* The events stored in suspended threads.                                  *)

\* SuspendThread stores events of its own thread only.
LEMMA StoredStep ==
  ASSUME TypeOK, StoredIsOwn, [Next]_vars
  PROVE  StoredIsOwn'
<1>1. CASE UNCHANGED suspendedDevent
  BY <1>1 DEF StoredIsOwn, Real
<1>2. ASSUME NEW t \in Tid, NEW e \in Event, ~Real(e) \/ e.tid = t,
             suspendedDevent' = [suspendedDevent EXCEPT ![t] = e]
      PROVE  StoredIsOwn'
  BY <1>2 DEF StoredIsOwn, Real, TypeOK
<1> USE DEF kernel, process, threads
<1>3. CASE UNCHANGED vars
  BY <1>3, <1>1 DEF vars
<1>4. CASE Target \/ StartDebug \/ WaitForDebugEvent \/ ContinueFromDebugEvent
  BY <1>4, <1>1 DEF Target, Kill, Trap, DeliverStop, Exit, StartDebug,
     WaitForDebugEvent, ContinueFromDebugEvent, ContinueVirtual, ContinueUnlisted,
     ContinueStopped, ContinueKilled
<1>5. CASE AttachTask
  <2>1. call.tid \in Tid
    BY <1>5, FrameShape DEF AttachTask, ThreadOps, TypeOK
  <2>2. NoEvent \in Event /\ ~Real(NoEvent)
    BY DebuggerAssumption DEF NoEvent, Event, Ev, Virtual, Real, Signals
  <2> QED
    BY <1>5, <1>1, <1>2, <2>1, <2>2 DEF AttachTask, AttachDead, AttachFails, Attach,
       AddThreadToProcess
<1>6. CASE Wait
  <2>1. ASSUME NEW t \in Tid, NEW q, NEW unrep, Returns(t, q, unrep)
        PROVE  StoredIsOwn'
    <3> DEFINE e == Ev(t, GetStopSignalFromThread(t))
    <3>1. e \in Event /\ e.tid = t
      BY EventType
    <3> HIDE DEF e
    <3>2. \/ UNCHANGED suspendedDevent
          \/ suspendedDevent' = [suspendedDevent EXCEPT ![t] = e]
      BY <2>1, ReturnsOps DEF Returns, ReturnTrue, EventReported, ThreadSuspended,
         TempStopDone, e
    <3> QED
      BY <1>1, <1>2, <3>1, <3>2
  <2> QED
    BY <1>6, <1>1, <2>1, WaitCases DEF Drops, NothingYet
<1>7. CASE Expire \/ StopDebug \/ StopStep
  BY <1>7, <1>1 DEF Expire, WaitTimeout, Retry, SuspendRetry, GiveUp, MemoryFails,
     StopDebug, StopStep, StopDetaches, StopOtherSignal, StopGone, StopSpins, StopUnchanged
<1>8. ASSUME NEW t \in Tid, SuspendPaused(t)
      PROVE  StoredIsOwn'
  <2>1. CASE SuspendAgain(t) \/ SuspendCrash(t)
    BY <2>1, <1>1 DEF SuspendAgain, SuspendCrash
  <2>2. CASE SuspendCurrent(t)
    BY <2>2, <1>2 DEF SuspendCurrent, Current, TypeOK
  <2>3. CASE SuspendQueued(t)
    <3> DEFINE e == FindThreadDebugEventInQueue(debugEventQueue, t)
    <3>1. t \in 0 .. N /\ t # 0
      BY DebuggerAssumption DEF Tid
    <3>2. e \in Event /\ e.tid = t
      BY <2>3, <3>1, FindAndRemove DEF SuspendQueued, TypeOK
    <3>3. suspendedDevent' = [suspendedDevent EXCEPT ![t] = e]
      BY <2>3 DEF SuspendQueued
    <3> HIDE DEF e
    <3> QED
      BY <1>2, <3>2, <3>3
  <2> QED
    BY <1>8, <2>1, <2>2, <2>3 DEF SuspendPaused
<1>9. CASE Requests
  BY <1>9, <1>1, <1>8 DEF Requests, StopForOp, ActOnPaused, SuspendRunning,
     ResumeThread, StopForMemory
<1> QED
  BY <1>3, <1>4, <1>5, <1>6, <1>7, <1>9 DEF Next, Steps

-----------------------------------------------------------------------------
(* How calls nest.                                                          *)

\* A call that returns leaves the one it interrupted, or none.
LEMMA ReturnNests ==
  ASSUME TypeOK, CallsNest, call # NoCall, call.op # "StartDebug", Return,
         UNCHANGED isDebugged, UNCHANGED debuggedThreadEvent \/ interrupted = NoCall
  PROVE  CallsNest'
<1>1. NoCall.op = "none"
  BY DEF NoCall, Frame
<1>2. call.op # "none"
  BY FrameShape DEF TypeOK
<1>3. isDebugged'
  BY <1>2 DEF CallsNest
<1>4. CASE interrupted = NoCall
  BY <1>1, <1>3, <1>4 DEF CallsNest, Return
<1>5. CASE interrupted # NoCall
  <2>1. Timed(interrupted) /\ interrupted.op \notin {"none", "StartDebug", "StopDebug"}
    BY <1>5 DEF CallsNest, Timed, TempOps
  <2> QED
    BY <1>1, <1>3, <1>5, <2>1 DEF CallsNest, Return, Current
<1> QED
  BY <1>4, <1>5

\* A dispatched call, or one that returned at once, leaves the call it
\* interrupted where it was.
LEMMA CheckingNests ==
  ASSUME TypeOK
  PROVE  /\ Idle => Checking = NoCall
         /\ ~Idle => Checking.op = call.op /\ (Timed(Checking) <=> Timed(call))
BY DEF Checking, Idle, Frame, Timed

\* A command that is done at once only moves the call it interrupted.
LEMMA DispatchNests ==
  ASSUME TypeOK, CallsNest, Dispatch, UNCHANGED <<isDebugged, debuggedThreadEvent>>
  PROVE  CallsNest'
<1>1. NoCall.op = "none"
  BY DEF NoCall, Frame
<1>2. Checking.op = call.op
  BY <1>1, CheckingNests DEF Idle
<1> QED
  BY <1>2 DEF CallsNest, Dispatch, Current

\* A command that waits is put on top of a timed wait, or of nothing.
LEMMA EnterNests ==
  ASSUME TypeOK, CallsNest, NEW f, Enter(f), UNCHANGED <<isDebugged, debuggedThreadEvent>>,
         f.op \in TempOps \cup MemOps \cup {"SuspendThread"},
         isDebugged, Idle \/ Timed(call)
  PROVE  CallsNest'
<1>1. NoCall.op = "none"
  BY DEF NoCall, Frame
<1>2. Checking.op = call.op /\ (Checking = NoCall \/ Timed(Checking))
  BY <1>1, CheckingNests DEF Idle
<1>3. f.op \notin {"none", "StartDebug", "StopDebug", "WaitForDebugEvent"}
  BY DEF TempOps, MemOps
<1> QED
  BY <1>2, <1>3 DEF CallsNest, Enter, Current

\* Every step keeps the calls nested so.
LEMMA NestStep ==
  ASSUME TypeOK, CallsNest, [Next]_vars
  PROVE  CallsNest'
<1> USE DEF kernel, process
<1>n. NoCall.op = "none" /\ NoCall.tid = 0
  BY DEF NoCall, Frame
<1>i. Idle => call.op = "none" /\ interrupted = NoCall
  BY <1>n DEF Idle, CallsNest
<1>o. ~Idle => call # NoCall
  BY DEF Idle
<1>1. CASE UNCHANGED <<calls, isDebugged, debuggedThreadEvent>>
  BY <1>1 DEF calls, CallsNest, Current
<1>2. CASE UNCHANGED vars
  BY <1>2, <1>1 DEF vars
<1>3. CASE Target
  BY <1>3, <1>1 DEF Target, Kill, Trap, DeliverStop, Exit
<1>4. CASE StartDebug
  BY <1>4, <1>i, <1>n DEF StartDebug, Now, Frame, CallsNest
<1>5. CASE AttachTask
  <2>1. interrupted = NoCall /\ interrupted' = NoCall
    BY <1>5 DEF AttachTask, CallsNest, Now
  <2>2. call'.op \in {"none", "StartDebug"}
    BY <1>5, <1>n DEF AttachTask, Now, NextTask, Frame
  <2> QED
    BY <2>1, <2>2, <1>n DEF CallsNest
<1>6. CASE WaitForDebugEvent
  <2>1. CASE ReturnQueued
    BY <1>6, <2>1, <1>i, <1>n DEF WaitForDebugEvent, ReturnQueued, CallsNest, calls
  <2>2. CASE WaitForAny
    BY <1>6, <2>2, <1>i, <1>n DEF WaitForDebugEvent, WaitForAny, CallsNest, Now, Frame, Current
  <2> QED
    BY <1>6, <2>1, <2>2 DEF WaitForDebugEvent
<1>7. CASE ContinueFromDebugEvent
  BY <1>7, <1>i, <1>n DEF ContinueFromDebugEvent, CallsNest, calls
<1>8. CASE Wait
  <2>1. ASSUME NEW t \in Tid, NEW q, NEW unrep, Returns(t, q, unrep)
        PROVE  CallsNest'
    <3>1. call # NoCall /\ call.op # "StartDebug" /\ Return /\ UNCHANGED isDebugged
      BY <2>1, ReturnsOps DEF Returns, ReturnTrue, TempOps, MemOps
    <3>2. UNCHANGED debuggedThreadEvent \/ call.op = "WaitForDebugEvent"
      BY <2>1 DEF Returns, ReturnTrue, EventReported, ThreadSuspended, TempStopDone
    <3>3. UNCHANGED debuggedThreadEvent \/ interrupted = NoCall
      BY <3>2 DEF CallsNest
    <3> QED
      BY <3>1, <3>3, ReturnNests
  <2>2. CASE NothingYet
    BY <2>2 DEF NothingYet, Now, Frame, CallsNest, Current
  <2> QED
    BY <1>8, <1>1, <2>1, <2>2, WaitCases DEF Drops
<1>9. CASE WaitTimeout
  BY <1>9, <1>o, ReturnNests DEF WaitTimeout
<1>10. CASE Retry
  BY <1>10 DEF Retry, Now, Frame, CallsNest, Current
<1>11. CASE SuspendRetry
  <2>1. call # NoCall /\ call.op = "SuspendThread"
        /\ UNCHANGED <<isDebugged, debuggedThreadEvent>>
    BY <1>11, <1>o DEF SuspendRetry, TimedOut
  <2>2. CASE Return
    BY <2>1, <2>2, ReturnNests
  <2>3. CASE Now(Frame("SuspendThread", call.tid, 0, "first"))
    BY <2>1, <2>3 DEF Now, Frame, CallsNest, Current
  <2> QED
    BY <1>11, <2>2, <2>3 DEF SuspendRetry
<1>12. ASSUME NEW de \in Garbage, GiveUp(de)
       PROVE  CallsNest'
  <2>1. call # NoCall /\ call.op # "StartDebug" /\ Return
        /\ UNCHANGED <<isDebugged, debuggedThreadEvent>>
    BY <1>12, <1>o DEF GiveUp, TimedOut, TempOps
  <2> QED
    BY <2>1, ReturnNests
<1>13. ASSUME NEW de \in Garbage, MemoryFails(de.ev)
       PROVE  CallsNest'
  <2>1. call # NoCall /\ call.op # "StartDebug" /\ Return
        /\ UNCHANGED <<isDebugged, debuggedThreadEvent>>
    BY <1>13, <1>o DEF MemoryFails, TimedOut, MemOps
  <2> QED
    BY <2>1, ReturnNests
<1>14. ASSUME NEW S, StopFrom(S), interrupted = NoCall, isDebugged, UNCHANGED debuggedThreadEvent
       PROVE  CallsNest'
  <2>1. CASE S = {}
    <3>1. call' = NoCall /\ interrupted' = NoCall
      BY <1>14, <2>1 DEF StopFrom, Now
    <3> QED
      BY <3>1, <1>n DEF CallsNest
  <2>2. CASE S # {}
    <3>1. /\ call' = Frame("StopDebug", Lowest(S), 0, "wait") /\ interrupted' = NoCall
          /\ isDebugged' = isDebugged
      BY <1>14, <2>2 DEF StopFrom, Now
    <3>2. call'.op = "StopDebug"
      BY <3>1 DEF Frame
    <3> QED
      BY <1>14, <3>1, <3>2, <1>n DEF CallsNest
  <2> QED
    BY <2>1, <2>2
<1>15. CASE StopDebug
  BY <1>15, <1>14, <1>i DEF StopDebug, StopUnchanged
<1>16. CASE StopStep
  <2>1. PICK t \in Tid : StopDetaches(t) \/ StopOtherSignal(t) \/ StopGone(t) \/ StopSpins(t)
    BY <1>16 DEF StopStep
  <2>2. call.op = "StopDebug" /\ interrupted = NoCall /\ isDebugged
    BY <2>1 DEF StopDetaches, StopOtherSignal, StopGone, StopSpins, Stopping, CallsNest
  <2>3. CASE StopDetaches(t) \/ StopGone(t)
    BY <2>2, <2>3, <1>14 DEF StopDetaches, StopGone, StopUnchanged
  <2>4. CASE StopOtherSignal(t)
    BY <2>4, <1>1 DEF StopOtherSignal, StopUnchanged
  <2>5. CASE StopSpins(t)
    BY <2>2, <2>5, <1>n DEF StopSpins, Now, Frame, CallsNest
  <2> QED
    BY <2>1, <2>3, <2>4, <2>5
<1>17. ASSUME NEW o, Dispatched(o)
       PROVE  isDebugged /\ (Idle \/ Timed(call))
  BY <1>17 DEF Dispatched
<1>18. ASSUME NEW t \in Tid, NEW op \in TempOps, StopForOp(op, t)
       PROVE  CallsNest'
  <2> DEFINE f == Frame(op, t, 0, "first")
  <2>1. f.op \in TempOps /\ Enter(f) /\ UNCHANGED <<isDebugged, debuggedThreadEvent>>
    BY <1>18 DEF StopForOp, Frame
  <2>2. isDebugged /\ (Idle \/ Timed(call))
    BY <1>18, <1>17 DEF StopForOp, TempDispatched
  <2> HIDE DEF f
  <2> QED
    BY <2>1, <2>2, EnterNests
<1>19. ASSUME NEW t \in Tid, SuspendRunning(t)
       PROVE  CallsNest'
  <2> DEFINE f == Frame("SuspendThread", t, 0, "first")
  <2>1. f.op = "SuspendThread" /\ Enter(f) /\ UNCHANGED <<isDebugged, debuggedThreadEvent>>
    BY <1>19 DEF SuspendRunning, Frame
  <2>2. isDebugged /\ (Idle \/ Timed(call))
    BY <1>19, <1>17 DEF SuspendRunning, CanSuspend
  <2> HIDE DEF f
  <2> QED
    BY <2>1, <2>2, EnterNests
<1>20. ASSUME NEW op \in MemOps, StopForMemory(op)
       PROVE  CallsNest'
  <2> DEFINE f == Frame(op, 0, 0, "first")
  <2>1. f.op \in MemOps /\ Enter(f) /\ UNCHANGED <<isDebugged, debuggedThreadEvent>>
    BY <1>20 DEF StopForMemory, Frame
  <2>2. isDebugged /\ (Idle \/ Timed(call))
    BY <1>20, <1>17 DEF StopForMemory
  <2> HIDE DEF f
  <2> QED
    BY <2>1, <2>2, EnterNests
<1>21. ASSUME NEW t \in Tid, SuspendPaused(t)
       PROVE  CallsNest'
  <2>1. UNCHANGED <<isDebugged, debuggedThreadEvent>>
    BY <1>21 DEF SuspendPaused
  <2>2. CASE SuspendCrash(t)
    <3>1. isDebugged
      BY <1>21, <1>17 DEF SuspendPaused, CanSuspend
    <3>2. call'.op = "crash" /\ interrupted' = interrupted
      BY <2>2 DEF SuspendCrash, Now, Frame
    <3>3. interrupted.op = "WaitForDebugEvent" => Current = 0
      BY DEF CallsNest
    <3> QED
      BY <2>1, <3>1, <3>2, <3>3 DEF CallsNest, Current
  <2> QED
    BY <1>21, <2>1, <2>2, DispatchNests DEF SuspendPaused, SuspendAgain, SuspendCurrent,
       SuspendQueued
<1>22. ASSUME NEW t \in Tid, ResumeThread(t) \/ \E op \in TempOps : ActOnPaused(op, t)
       PROVE  CallsNest'
  BY <1>22, DispatchNests DEF ResumeThread, ActOnPaused
<1>23. CASE Requests
  BY <1>23, <1>18, <1>19, <1>20, <1>21, <1>22 DEF Requests
<1>24. CASE Expire
  BY <1>24, <1>9, <1>10, <1>11, <1>12, <1>13 DEF Expire
<1> QED
  BY <1>2, <1>3, <1>4, <1>5, <1>6, <1>7, <1>8, <1>15, <1>16, <1>23, <1>24 DEF Next, Steps

-----------------------------------------------------------------------------
(* Which threads are traced.                                                *)

\* A step that traces no new thread, keeps the traced ones listed and neither
\* starts nor moves one of the two loops over the threads.
Quiet ==
  /\ \A t \in Tid : Traced(t)' => Traced(t) /\ t \in threadlist'
  /\ isDebugged' = isDebugged
  /\ call'.op \in {"StartDebug", "StopDebug"} => call' = call
  /\ Idle' => Idle \/ isDebugged

\* Such a step keeps what is known of the traced threads.
LEMMA QuietKeeps ==
  ASSUME TracedListed, NothingLeftTraced, Quiet
  PROVE  TracedListed' /\ NothingLeftTraced'
<1>1. \A t \in Tid : Traced(t)' => t \in threadlist'
  BY DEF Quiet
<1>2. call'.op = "StartDebug" =>
        \A t \in Tid : t >= call'.tid \/ ~isDebugged' => ~Traced(t)'
  BY DEF Quiet, TracedListed
<1>3. call'.op = "StopDebug" => \A t \in Tid : t < call'.tid => ~Traced(t)'
  BY DEF Quiet, TracedListed
<1>4. NothingLeftTraced'
  BY DEF Quiet, NothingLeftTraced
<1> QED
  BY <1>1, <1>2, <1>3, <1>4 DEF TracedListed

\* No call but those of StartDebug traces a thread.
LEMMA ResumedTraced ==
  ASSUME NEW t
  PROVE  \A u \in Tid : Resumed(t)[u] \notin {"free", "dead"} => Traced(u)
BY DEF Resumed, Traced, Stopped, Signals

\* A call in progress belongs to a session, so that returning from it ends none.
LEMMA ReturnQuiet ==
  ASSUME TypeOK, CallsNest, TracedListed, call # NoCall, call.op # "StartDebug", Return,
         UNCHANGED <<isDebugged, threadlist>>, \A t \in Tid : Traced(t)' => Traced(t)
  PROVE  Quiet
<1>1. isDebugged
  BY FrameShape DEF CallsNest, TypeOK
<1>2. call'.op \notin {"StartDebug", "StopDebug"}
  BY DEF Return, CallsNest, NoCall, Frame, Timed, TempOps
<1> QED
  BY <1>1, <1>2 DEF Quiet, TracedListed

\* StopDebug detaches in the order of the list and leaves nothing behind.
LEMMA StopFromTraced ==
  ASSUME TypeOK, NEW S \in SUBSET Tid, StopFrom(S), UNCHANGED threadlist,
         \A t \in Tid : Traced(t)' => t \in S /\ t \in threadlist
  PROVE  TracedListed' /\ NothingLeftTraced'
<1>1. CASE S = {}
  <2>1. \A t \in Tid : ~Traced(t)'
    BY <1>1
  <2> QED
    BY <2>1 DEF TracedListed, NothingLeftTraced
<1>2. CASE S # {}
  <2>1. S \subseteq Nat
    BY DEF Tid
  <2>2. Lowest(S) \in S /\ \A j \in S : Lowest(S) <= j
    BY <1>2, <2>1, LowestIn
  <2>3. call'.op = "StopDebug" /\ call'.tid = Lowest(S) /\ ~Idle'
    BY <1>2 DEF StopFrom, Now, Frame, Idle, NoCall
  <2>4. ASSUME NEW t \in Tid, t < Lowest(S)
        PROVE  ~Traced(t)'
    <3>1. t \in Nat
      BY DebuggerAssumption DEF Tid
    <3>2. Lowest(S) \in Nat
      BY <2>1, <2>2, Zenon
    <3>3. t \notin S
      BY <2>2, <2>4, <3>1, <3>2
    <3> QED
      BY <3>3
  <2> QED
    BY <2>3, <2>4 DEF TracedListed, NothingLeftTraced
<1> QED
  BY <1>1, <1>2

\* Every step keeps the traced threads listed, and StopDebug leaves none.
LEMMA TracedStep ==
  ASSUME TypeOK, CallsNest, TracedListed, NothingLeftTraced, [Next]_vars,
         "StartDebug" \notin ClientOps
  PROVE  TracedListed' /\ NothingLeftTraced'
<1> USE DEF kernel, process, threads
<1>q. Quiet => TracedListed' /\ NothingLeftTraced'
  BY QuietKeeps
<1>l. \A t \in Tid : Traced(t) => t \in threadlist
  BY DEF TracedListed
<1>o. ~Idle => call # NoCall
  BY DEF Idle
<1>1. CASE UNCHANGED <<task, threadlist, isDebugged, call>>
  BY <1>1, <1>l, <1>q DEF Quiet, Traced, Idle
<1>2. CASE UNCHANGED vars
  BY <1>1, <1>2 DEF vars, calls
<1>3. CASE Target
  <2>1. /\ \A t \in Tid : Traced(t)' => Traced(t)
        /\ UNCHANGED <<threadlist, isDebugged, call>>
    BY <1>3 DEF Target, Kill, Trap, DeliverStop, Exit, Traced, TypeOK, calls
  <2> QED
    BY <2>1, <1>l, <1>q DEF Quiet, Idle
<1>4. CASE StartDebug
  <2>1. \A t \in Tid : ~Traced(t)
    BY <1>4 DEF StartDebug, NothingLeftTraced
  <2>2. \A t \in Tid : ~Traced(t)'
    BY <1>4, <2>1 DEF StartDebug, Traced
  <2> QED
    BY <2>2 DEF TracedListed, NothingLeftTraced
<1>5. CASE AttachTask
  <2> DEFINE t == call.tid
  <2>1. /\ t \in Tid /\ t \in Nat
        /\ \A u \in Tid : u >= t \/ ~isDebugged => ~Traced(u)
    BY <1>5, FrameShape DEF AttachTask, TracedListed, TypeOK, ThreadOps, Tid
  <2>2. call' = NextTask(t)
    BY <1>5 DEF AttachTask, Now
  <2>3. \/ t = N /\ Idle' /\ call'.op = "none"
        \/ t # N /\ ~Idle' /\ call'.op = "StartDebug" /\ call'.tid = t + 1
    BY <2>2 DEF NextTask, Idle, NoCall, Frame
  <2> HIDE DEF t
  <2>5. CASE AttachDead(t) \/ AttachFails(t)
    <3>1. \A u \in Tid : Traced(u)' = Traced(u)
      BY <2>5 DEF AttachDead, AttachFails, Traced
    <3>2. isDebugged' = isDebugged /\ threadlist \subseteq threadlist'
      BY <2>5 DEF AttachDead, AttachFails, AddThreadToProcess
    <3>3. t = N => \A u \in Tid : isDebugged \/ ~Traced(u)
      BY <2>1
    <3> QED
      BY <2>1, <2>3, <3>1, <3>2, <3>3, <1>l DEF TracedListed, NothingLeftTraced
  <2>6. CASE Attach(t)
    <3>1. \A u \in Tid : Traced(u)' => Traced(u) \/ u = t
      BY <2>6 DEF Attach, Traced, TypeOK
    <3>2. isDebugged' = TRUE /\ threadlist' = threadlist \cup {t}
      BY <2>6 DEF Attach, AddThreadToProcess
    <3>3. \A u \in Tid : u >= t + 1 => ~Traced(u)'
      BY <2>1, <3>1 DEF Tid
    <3> QED
      BY <2>3, <3>1, <3>2, <3>3, <1>l DEF TracedListed, NothingLeftTraced
  <2> QED
    BY <1>5, <2>5, <2>6 DEF AttachTask, t
<1>6. CASE WaitForDebugEvent
  <2>1. /\ UNCHANGED <<task, threadlist, isDebugged>> /\ Idle /\ isDebugged
        /\ call' = call \/ call'.op = "WaitForDebugEvent"
    BY <1>6 DEF WaitForDebugEvent, ReturnQueued, WaitForAny, Now, Frame, calls
  <2> QED
    BY <2>1, <1>l, <1>q DEF Quiet, Traced
<1>7. CASE ContinueFromDebugEvent
  <2>1. UNCHANGED <<isDebugged, call>>
    BY <1>7 DEF ContinueFromDebugEvent, calls
  <2>2. CASE ContinueVirtual \/ ContinueUnlisted
    BY <2>1, <2>2, <1>1 DEF ContinueVirtual, ContinueUnlisted
  <2>3. CASE ContinueStopped
    BY <2>1, <2>3, <1>l, <1>q, ResumedTraced DEF ContinueStopped, Quiet, Traced, Idle
  <2>4. CASE ContinueKilled
    <3>1. \A t \in Tid : ~Traced(t)'
      BY <2>4 DEF ContinueKilled, Traced
    <3> QED
      BY <2>1, <3>1, <1>q DEF Quiet, Idle
  <2> QED
    BY <1>7, <2>2, <2>3, <2>4 DEF ContinueFromDebugEvent
<1>8. CASE Wait
  <2>1. ASSUME NEW t \in Tid, NEW q, NEW unrep, Returns(t, q, unrep)
        PROVE  Quiet
    <3> DEFINE e == Ev(t, GetStopSignalFromThread(t))
    <3>1. call # NoCall /\ call.op # "StartDebug" /\ Return /\ UNCHANGED <<isDebugged, threadlist>>
      BY <2>1, ReturnsOps DEF Returns, ReturnTrue, TempOps, MemOps
    <3>2. task' = task \/ task' = Resumed(e.tid)
      BY <2>1 DEF Returns, ReturnTrue, EventReported, ThreadSuspended, TempStopDone,
         TempStopContinues, TempStopQueues
    <3>3. \A u \in Tid : Traced(u)' => Traced(u)
      BY <3>2, ResumedTraced DEF Traced
    <3> QED
      BY <3>1, <3>3, ReturnQuiet
  <2>2. CASE NothingYet
    <3>1. /\ UNCHANGED <<task, threadlist, isDebugged>> /\ ~Idle'
          /\ call'.op \notin {"StartDebug", "StopDebug"}
      BY <2>2, FrameShape, <1>o DEF NothingYet, Waits, Timed, Now, Frame, Idle, TempOps,
         MemOps, NoCall, TypeOK
    <3> QED
      BY <3>1, <1>l, <1>q DEF Quiet, Traced
  <2> QED
    BY <1>8, <1>1, <1>q, <2>1, <2>2, WaitCases DEF Drops, calls
<1>9. CASE WaitTimeout
  BY <1>9, <1>o, <1>q, ReturnQuiet DEF WaitTimeout, Traced
<1>10. CASE Retry
  <2>1. /\ UNCHANGED <<task, threadlist, isDebugged>> /\ ~Idle'
        /\ call'.op \notin {"StartDebug", "StopDebug"}
    BY <1>10 DEF Retry, TimedOut, Now, Frame, Idle, NoCall, TempOps
  <2> QED
    BY <2>1, <1>l, <1>q DEF Quiet, Traced
<1>11. CASE SuspendRetry
  <2>1. call # NoCall /\ call.op = "SuspendThread" /\ UNCHANGED <<task, threadlist, isDebugged>>
    BY <1>11, <1>o DEF SuspendRetry, TimedOut
  <2>2. CASE Return
    BY <2>1, <2>2, <1>q, ReturnQuiet DEF Traced
  <2>3. CASE Now(Frame("SuspendThread", call.tid, 0, "first"))
    BY <2>1, <2>3, <1>l, <1>q DEF Now, Frame, Idle, NoCall, Quiet, Traced
  <2> QED
    BY <1>11, <2>2, <2>3 DEF SuspendRetry
<1>12. ASSUME NEW de \in Garbage, GiveUp(de)
       PROVE  Quiet
  <2>1. call # NoCall /\ call.op # "StartDebug" /\ Return
        /\ UNCHANGED <<isDebugged, threadlist>>
    BY <1>12, <1>o DEF GiveUp, TimedOut, TempOps
  <2>2. task' = task \/ \E w : task' = Resumed(w)
    BY <1>12 DEF GiveUp
  <2>3. \A u \in Tid : Traced(u)' => Traced(u)
    BY <2>2, ResumedTraced DEF Traced
  <2> QED
    BY <2>1, <2>3, ReturnQuiet
<1>13. ASSUME NEW de \in Garbage, MemoryFails(de.ev)
       PROVE  Quiet
  <2>1. call # NoCall /\ call.op # "StartDebug" /\ Return
        /\ UNCHANGED <<isDebugged, threadlist, task>>
    BY <1>13, <1>o DEF MemoryFails, TimedOut, MemOps
  <2> QED
    BY <2>1, ReturnQuiet DEF Traced
<1>14. CASE StopDebug
  <2>1. StopFrom(threadlist) /\ UNCHANGED <<threadlist, task>> /\ threadlist \in SUBSET Tid
    BY <1>14 DEF StopDebug, StopUnchanged, TypeOK
  <2>2. \A t \in Tid : Traced(t)' => t \in threadlist
    BY <2>1, <1>l DEF Traced
  <2> QED
    BY <2>1, <2>2, StopFromTraced
<1>15. CASE StopStep
  <2>1. PICK t \in Tid : StopDetaches(t) \/ StopOtherSignal(t) \/ StopGone(t) \/ StopSpins(t)
    BY <1>15 DEF StopStep
  <2>2. call.op = "StopDebug" /\ call.tid = t /\ \A u \in Tid : u < t => ~Traced(u)
    BY <2>1 DEF StopDetaches, StopOtherSignal, StopGone, StopSpins, Stopping, TracedListed
  <2>3. CASE StopDetaches(t) \/ StopGone(t)
    <3>1. StopFrom(After(t)) /\ UNCHANGED threadlist /\ After(t) \in SUBSET Tid
      BY <2>3 DEF StopDetaches, StopGone, StopUnchanged, After, TypeOK
    <3>2. \A u \in Tid : Traced(u)' => Traced(u) /\ u # t
      BY <2>3 DEF StopDetaches, StopGone, Traced, TypeOK
    <3>3. \A u \in Tid : Traced(u)' => u \in After(t)
      BY <2>2, <3>2, <1>l DEF After, Tid
    <3> QED
      BY <3>1, <3>2, <3>3, <1>l, StopFromTraced
  <2>4. CASE StopOtherSignal(t)
    BY <2>4, <1>l, <1>q, ResumedTraced DEF StopOtherSignal, StopUnchanged, calls, Quiet,
       Traced, Idle
  <2>5. CASE StopSpins(t)
    BY <2>5, <1>l, <1>q DEF StopSpins, Now, Frame, Idle, NoCall, Quiet, Traced
  <2> QED
    BY <2>1, <2>3, <2>4, <2>5
<1>16. ASSUME UNCHANGED <<threadlist, isDebugged>>, isDebugged,
              \A t \in Tid : Traced(t)' => Traced(t),
              call'.op \notin {"StartDebug", "StopDebug"}
       PROVE  TracedListed' /\ NothingLeftTraced'
  BY <1>16, <1>l, <1>q DEF Quiet
<1>17. ASSUME NEW o, Dispatched(o)
       PROVE  isDebugged /\ call.op \notin {"StartDebug", "StopDebug"}
  BY <1>17 DEF Dispatched, Timed, TempOps, Idle, NoCall, Frame
<1>18. ASSUME NEW o, Dispatched(o), Dispatch
       PROVE  call'.op \notin {"StartDebug", "StopDebug"}
  BY <1>17, <1>18 DEF Dispatch, Checking, NoCall, Frame
<1>19. ASSUME NEW t \in Tid, NEW op \in TempOps, StopForOp(op, t)
       PROVE  TracedListed' /\ NothingLeftTraced'
  <2>1. call'.op \notin {"StartDebug", "StopDebug"} /\ UNCHANGED <<task, threadlist, isDebugged>>
    BY <1>19 DEF StopForOp, Enter, Frame, TempOps
  <2> QED
    BY <1>19, <2>1, <1>16, <1>17 DEF StopForOp, TempDispatched, Traced
<1>20. ASSUME NEW t \in Tid, NEW op \in TempOps, ActOnPaused(op, t)
       PROVE  TracedListed' /\ NothingLeftTraced'
  BY <1>20, <1>16, <1>17, <1>18 DEF ActOnPaused, TempDispatched, Traced
<1>21. ASSUME NEW t \in Tid, SuspendRunning(t)
       PROVE  TracedListed' /\ NothingLeftTraced'
  <2>1. call'.op = "SuspendThread" /\ UNCHANGED <<task, threadlist, isDebugged>>
    BY <1>21 DEF SuspendRunning, Enter, Frame
  <2> QED
    BY <1>21, <2>1, <1>16, <1>17 DEF SuspendRunning, CanSuspend, Traced
<1>22. ASSUME NEW t \in Tid, SuspendPaused(t)
       PROVE  TracedListed' /\ NothingLeftTraced'
  <2>1. UNCHANGED <<task, threadlist, isDebugged>> /\ Dispatched("SuspendThread")
    BY <1>22 DEF SuspendPaused, CanSuspend
  <2>2. Dispatch \/ call'.op = "crash"
    BY <1>22 DEF SuspendPaused, SuspendAgain, SuspendCurrent, SuspendQueued, SuspendCrash,
       Now, Frame
  <2> QED
    BY <2>1, <2>2, <1>16, <1>17, <1>18 DEF Traced
<1>23. ASSUME NEW t \in Tid, ResumeThread(t)
       PROVE  TracedListed' /\ NothingLeftTraced'
  <2>1. /\ UNCHANGED <<threadlist, isDebugged>> /\ Dispatched("ResumeThread") /\ Dispatch
        /\ task' = task \/ \E w : task' = Resumed(w)
    BY <1>23 DEF ResumeThread, ResumeCounts, ResumeContinues, ResumeQueues
  <2>2. \A u \in Tid : Traced(u)' => Traced(u)
    BY <2>1, ResumedTraced DEF Traced
  <2> QED
    BY <2>1, <2>2, <1>16, <1>17, <1>18
<1>24. ASSUME NEW op \in MemOps, StopForMemory(op)
       PROVE  TracedListed' /\ NothingLeftTraced'
  <2>1. call'.op \notin {"StartDebug", "StopDebug"} /\ UNCHANGED <<task, threadlist, isDebugged>>
    BY <1>24 DEF StopForMemory, Enter, Frame, MemOps
  <2> QED
    BY <1>24, <2>1, <1>16, <1>17 DEF StopForMemory, Traced
<1>25. CASE Requests
  BY <1>25, <1>19, <1>20, <1>21, <1>22, <1>23, <1>24 DEF Requests
<1>26. CASE Expire
  BY <1>26, <1>q, <1>9, <1>10, <1>11, <1>12, <1>13 DEF Expire
<1> QED
  BY <1>2, <1>3, <1>4, <1>5, <1>6, <1>7, <1>8, <1>14, <1>15, <1>25, <1>26 DEF Next, Steps

-----------------------------------------------------------------------------
(* No collected stop is forgotten.                                          *)

\* PTRACE_CONT on a thread only makes collected stops fewer.
LEMMA ResumedStops ==
  ASSUME TypeOK, NEW t, task' = Resumed(t)
  PROVE  \A u \in Tid : Stopped(u)' => Stopped(u) /\ u # t
BY DEF Resumed, Stopped, Signals, TypeOK

\* A wait that returns with a thread accounts for it, and loses no other.
LEMMA ReturnsAccounts ==
  ASSUME TypeOK, CallsNest, NoStopForgotten, NEW t \in Tid, NEW q \in Seq(Event),
         NEW unrep \in [Tid -> BOOLEAN], Returns(t, q, unrep)
  PROVE  NoStopForgotten'
<1> DEFINE de == Ev(t, GetStopSignalFromThread(t))
<1>1. ReturnTrue(de, q, unrep)
  BY DEF Returns
<1>2. de \in Event /\ de.tid = t /\ (Stopped(t) => For(de, t))
  BY EventType DEF For, Real, GetStopSignalFromThread, Stopped
<1>3. /\ \A u \in Tid : u # t => unrep[u] = unreported[u]
      /\ \A u \in Tid : u # t /\ InQueue(debugEventQueue, u) => InQueue(q, u)
  BY DEF Returns
<1> HIDE DEF de
<1>4. SUFFICES ASSUME NEW u \in Tid, Stopped(u)', ~unreported'[u]
               PROVE  Accounted(u)'
  BY DEF NoStopForgotten
<1>5. CASE EventReported(de, q, unrep)
  <2>1. /\ Current = 0 /\ debuggedThreadEvent' = de /\ debugEventQueue' = q
        /\ unreported' = unrep /\ UNCHANGED <<task, suspendCount, suspendedDevent>>
    BY <1>5 DEF EventReported, CallsNest
  <2>2. CASE u = t
    BY <1>2, <1>4, <2>1, <2>2 DEF Stopped, Accounted
  <2>3. CASE u # t
    <3>1. Accounted(u)
      BY <1>3, <1>4, <2>1, <2>3 DEF Stopped, NoStopForgotten
    <3>2. ~For(debuggedThreadEvent, u)
      BY <2>1 DEF For, Current, Tid
    <3> QED
      BY <1>3, <2>1, <2>3, <3>1, <3>2 DEF Accounted
  <2> QED
    BY <2>2, <2>3
<1>6. CASE ThreadSuspended(de, q, unrep)
  <2>1. call.tid = t
    BY <1>6, ReturnsOps DEF ThreadSuspended
  <2>2. /\ suspendedDevent' = [suspendedDevent EXCEPT ![t] = de]
        /\ suspendCount' = [suspendCount EXCEPT ![t] = @ + 1]
        /\ debugEventQueue' = q /\ unreported' = unrep
        /\ UNCHANGED <<task, debuggedThreadEvent>>
    BY <1>6, <2>1 DEF ThreadSuspended
  <2>3. CASE u = t
    BY <1>2, <1>4, <2>2, <2>3 DEF Stopped, Accounted, For, TypeOK
  <2>4. CASE u # t
    <3>1. Accounted(u)
      BY <1>3, <1>4, <2>2, <2>4 DEF Stopped, NoStopForgotten
    <3> QED
      BY <1>3, <2>2, <2>4, <3>1 DEF Accounted, TypeOK
  <2> QED
    BY <2>3, <2>4
<1>7. CASE TempStopDone(de, q, unrep)
  <2>1. UNCHANGED <<debuggedThreadEvent, suspendCount, suspendedDevent>>
    BY <1>7 DEF TempStopDone
  <2>2. CASE TempStopContinues(de, q, unrep)
    <3>1. Stopped(u) /\ u # t
      BY <1>2, <1>4, <2>2, ResumedStops DEF TempStopContinues
    <3>2. debugEventQueue' = q /\ unreported'[u] = unrep[u]
      BY <1>2, <2>2, <3>1 DEF TempStopContinues
    <3>3. Accounted(u)
      BY <1>3, <1>4, <3>1, <3>2 DEF NoStopForgotten
    <3> QED
      BY <1>3, <2>1, <3>1, <3>2, <3>3 DEF Accounted
  <2>3. CASE TempStopQueues(de, q, unrep)
    <3>1. debugEventQueue' = Append(q, de) /\ unreported' = unrep /\ UNCHANGED task
      BY <2>3 DEF TempStopQueues
    <3>2. InQueue(q, u) \/ For(de, u) => InQueue(debugEventQueue', u)
      BY <1>2, <3>1, AppendKeeps
    <3>3. CASE u = t
      BY <1>2, <1>4, <3>1, <3>2, <3>3 DEF Stopped, Accounted
    <3>4. CASE u # t
      <4>1. Accounted(u)
        BY <1>3, <1>4, <3>1, <3>4 DEF Stopped, NoStopForgotten
      <4> QED
        BY <1>3, <2>1, <3>2, <3>4, <4>1 DEF Accounted
    <3> QED
      BY <3>3, <3>4
  <2> QED
    BY <1>7, <2>2, <2>3 DEF TempStopDone
<1> QED
  BY <1>1, <1>5, <1>6, <1>7 DEF ReturnTrue

\* Every step accounts for every collected stop.
LEMMA StopsStep ==
  ASSUME TypeOK, StoredIsOwn, CallsNest, TracedListed, NoStopForgotten, [Next]_vars
  PROVE  NoStopForgotten'
<1> USE DEF kernel, process, threads
\* A step after which fewer stops are collected, and no event is lost.
<1>k. ASSUME \A t \in Tid : Stopped(t)' /\ ~unreported'[t] => Stopped(t) /\ ~unreported[t],
             \A t \in Tid : InQueue(debugEventQueue, t) => InQueue(debugEventQueue', t),
             UNCHANGED <<debuggedThreadEvent, suspendCount, suspendedDevent>>
      PROVE  NoStopForgotten'
  <2>1. \A t \in Tid : Accounted(t) => Accounted(t)'
    BY <1>k DEF Accounted
  <2> QED
    BY <1>k, <2>1 DEF NoStopForgotten
<1>u. CASE UNCHANGED <<task, unreported, debuggedThreadEvent, debugEventQueue, suspendCount,
                       suspendedDevent>>
  BY <1>u, <1>k DEF Stopped
<1>l. \A t \in Tid : Stopped(t) => t \in threadlist
  BY DEF TracedListed, Traced, Stopped, Signals
<1>1. CASE UNCHANGED vars
  BY <1>1, <1>u DEF vars
<1>2. CASE Target
  <2>1. \A t \in Tid : Stopped(t)' /\ ~unreported'[t] => Stopped(t) /\ ~unreported[t]
    BY <1>2 DEF Target, Kill, Trap, DeliverStop, Exit, Stopped, Signals, TypeOK
  <2>2. UNCHANGED process
    BY <1>2 DEF Target, Kill, Trap, DeliverStop, Exit
  <2> QED
    BY <2>1, <2>2, <1>k
<1>3. CASE StartDebug
  BY <1>3, <1>u DEF StartDebug
<1>4. CASE AttachTask
  <2> DEFINE t == call.tid
  <2>1. /\ t \in Tid /\ t \in Nat
        /\ \A u \in Tid : u >= t \/ ~isDebugged => ~Traced(u)
    BY <1>4, FrameShape DEF AttachTask, TracedListed, TypeOK, ThreadOps, Tid
  <2>2. CASE AttachFails(t)
    <3> HIDE DEF t
    <3> SUFFICES ASSUME NEW u \in Tid, Stopped(u)', ~unreported'[u]
                 PROVE  Accounted(u)'
      BY DEF NoStopForgotten
    <3>1. Stopped(u) /\ ~unreported[u] /\ UNCHANGED <<debuggedThreadEvent, debugEventQueue>>
      BY <2>2 DEF AttachFails, Stopped
    <3>2. u # t
      BY <2>1, <3>1 DEF Traced, Stopped, Signals
    <3>3. suspendCount'[u] = suspendCount[u] /\ suspendedDevent'[u] = suspendedDevent[u]
      BY <2>2, <3>2 DEF AttachFails, AddThreadToProcess, TypeOK
    <3> QED
      BY <3>1, <3>3 DEF NoStopForgotten, Accounted
  <2>3. CASE AttachDead(t)
    BY <2>3, <1>u DEF AttachDead
  <2>4. CASE Attach(t)
    <3> HIDE DEF t
    <3> SUFFICES ASSUME NEW u \in Tid, Stopped(u)', ~unreported'[u]
                 PROVE  Accounted(u)'
      BY DEF NoStopForgotten
    <3>1. u # t /\ Stopped(u) /\ ~unreported[u]
      BY <2>4 DEF Attach, Stopped, Signals, TypeOK
    <3>2. isDebugged
      BY <2>1, <3>1 DEF Traced, Stopped, Signals
    <3>3. Ev(t, "-1") \in Event
      BY <2>1, DebuggerAssumption DEF Ev, Event, Virtual, Tid
    <3>4. debugEventQueue' = Append(debugEventQueue, Ev(t, "-1"))
      BY <2>4, <3>2, <3>3 DEF Attach, TypeOK
    <3>5. InQueue(debugEventQueue, u) => InQueue(debugEventQueue', u)
      BY <3>3, <3>4, AppendKeeps DEF TypeOK
    <3>6. debuggedThreadEvent' = debuggedThreadEvent
      BY <2>4, <3>2 DEF Attach
    <3>7. suspendCount'[u] = suspendCount[u] /\ suspendedDevent'[u] = suspendedDevent[u]
      BY <2>4, <3>1 DEF Attach, AddThreadToProcess, TypeOK
    <3> QED
      BY <3>1, <3>5, <3>6, <3>7 DEF NoStopForgotten, Accounted
  <2> QED
    BY <1>4, <2>2, <2>3, <2>4 DEF AttachTask
<1>5. CASE WaitForDebugEvent
  <2>1. /\ UNCHANGED <<task, unreported, suspendCount, suspendedDevent>>
        /\ debuggedThreadEvent.tid = 0
    BY <1>5 DEF WaitForDebugEvent
  <2>2. CASE WaitForAny
    BY <2>1, <2>2, <1>u DEF WaitForAny
  <2>3. CASE ReturnQueued
    <3> SUFFICES ASSUME NEW u \in Tid, Stopped(u)', ~unreported'[u]
                 PROVE  Accounted(u)'
      BY DEF NoStopForgotten
    <3>1. Accounted(u)
      BY <2>1 DEF NoStopForgotten, Stopped
    <3>2. ~For(debuggedThreadEvent, u)
      BY <2>1 DEF For, Tid
    <3>3. InQueue(debugEventQueue, u) =>
            For(debuggedThreadEvent', u) \/ InQueue(debugEventQueue', u)
      BY <2>3, TailKeeps DEF ReturnQueued, TypeOK
    <3> QED
      BY <2>1, <3>1, <3>2, <3>3 DEF Accounted
  <2> QED
    BY <1>5, <2>2, <2>3 DEF WaitForDebugEvent
<1>6. CASE ContinueFromDebugEvent
  <2> SUFFICES ASSUME NEW u \in Tid, Stopped(u)', ~unreported'[u]
               PROVE  Accounted(u)'
    BY DEF NoStopForgotten
  <2>1. debugEventQueue' = debugEventQueue
    BY <1>6 DEF ContinueFromDebugEvent
  <2>2. ASSUME Stopped(u), ~unreported[u], ~For(debuggedThreadEvent, u),
               UNCHANGED <<suspendCount, suspendedDevent>>
        PROVE  Accounted(u)'
    BY <2>1, <2>2 DEF NoStopForgotten, Accounted
  <2>3. CASE ContinueVirtual
    <3>1. ~For(debuggedThreadEvent, u)
      BY <2>3 DEF ContinueVirtual, For, Real, Signals, Virtual
    <3> QED
      BY <2>2, <2>3, <3>1 DEF ContinueVirtual, Stopped
  <2>4. CASE ContinueUnlisted
    <3>1. Stopped(u) /\ ~unreported[u] /\ UNCHANGED <<suspendCount, suspendedDevent>>
      BY <2>4 DEF ContinueUnlisted, Stopped
    <3>2. ~For(debuggedThreadEvent, u)
      BY <2>4, <3>1, <1>l DEF ContinueUnlisted, For, Current
    <3> QED
      BY <2>2, <3>1, <3>2
  <2>5. CASE ContinueStopped
    <3>1. Stopped(u) /\ u # Current
      BY <2>5, ResumedStops DEF ContinueStopped
    <3>2. ~unreported[u] /\ UNCHANGED <<suspendCount, suspendedDevent>>
      BY <2>5, <3>1 DEF ContinueStopped, ContCollected
    <3>3. ~For(debuggedThreadEvent, u)
      BY <3>1 DEF For, Current
    <3> QED
      BY <2>2, <3>1, <3>2, <3>3
  <2>6. CASE ContinueKilled
    BY <2>6 DEF ContinueKilled, Stopped, Signals
  <2> QED
    BY <1>6, <2>3, <2>4, <2>5, <2>6 DEF ContinueFromDebugEvent
<1>7. CASE Wait
  <2>1. ASSUME NEW q \in Seq(Event), Drops(q)
        PROVE  NoStopForgotten'
    BY <2>1, <1>k DEF Drops, Stopped
  <2>2. CASE NothingYet
    BY <2>2, <1>u DEF NothingYet
  <2> QED
    BY <1>7, <2>1, <2>2, WaitCases, ReturnsAccounts
<1>8. CASE WaitTimeout \/ Retry
  BY <1>8, <1>u DEF WaitTimeout, Retry
<1>9. ASSUME NEW t \in Tid, Counted(t) \/ UNCHANGED suspendCount,
             UNCHANGED <<task, unreported, debuggedThreadEvent, debugEventQueue, suspendedDevent>>
      PROVE  NoStopForgotten'
  <2>1. \A u \in Tid : suspendCount[u] > 0 => suspendCount'[u] > 0
    BY <1>9 DEF Counted, TypeOK
  <2>2. \A u \in Tid : Accounted(u) => Accounted(u)'
    BY <1>9, <2>1 DEF Accounted
  <2> QED
    BY <1>9, <2>2 DEF NoStopForgotten, Stopped
<1>10. CASE SuspendRetry
  <2>1. call.tid \in Tid
    BY <1>10, FrameShape DEF SuspendRetry, TimedOut, ThreadOps, TypeOK
  <2>2. UNCHANGED <<task, unreported, debuggedThreadEvent, debugEventQueue, suspendedDevent>>
    BY <1>10 DEF SuspendRetry
  <2>3. Counted(call.tid) \/ UNCHANGED suspendCount
    BY <1>10 DEF SuspendRetry
  <2> QED
    BY <2>1, <2>2, <2>3, <1>9
<1>11. ASSUME NEW w, task' = Resumed(w), unreported' = ContCollected(w)
       PROVE  \A t \in Tid : Stopped(t)' /\ ~unreported'[t] =>
                Stopped(t) /\ ~unreported[t] /\ t # w
  <2>1. \A t \in Tid : Stopped(t)' => Stopped(t) /\ t # w
    BY <1>11, ResumedStops
  <2> QED
    BY <1>11, <2>1 DEF ContCollected
<1>12. ASSUME NEW de \in Garbage, GiveUp(de)
       PROVE  NoStopForgotten'
  <2>1. UNCHANGED <<debuggedThreadEvent, suspendCount, suspendedDevent>>
    BY <1>12 DEF GiveUp
  <2>2. CASE de.ev = "SIGSTOP"
    <3>1. /\ UNCHANGED debugEventQueue
          /\ \E w : task' = Resumed(w) /\ unreported' = ContCollected(w)
      BY <1>12, <2>2 DEF GiveUp
    <3> QED
      BY <2>1, <3>1, <1>11, <1>k
  <2>3. CASE de.ev # "SIGSTOP"
    <3>1. debugEventQueue' = Append(debugEventQueue, de) /\ UNCHANGED <<task, unreported>>
      BY <1>12, <2>3 DEF GiveUp
    <3>2. de \in Event
      BY DebuggerAssumption DEF Event, Signals, Virtual
    <3>3. \A t \in Tid : InQueue(debugEventQueue, t) => InQueue(debugEventQueue', t)
      BY <3>1, <3>2, AppendKeeps DEF TypeOK
    <3> QED
      BY <2>1, <3>1, <3>3, <1>k DEF Stopped
  <2> QED
    BY <2>2, <2>3
<1>13. ASSUME NEW de \in Garbage, MemoryFails(de.ev)
       PROVE  NoStopForgotten'
  <2>1. UNCHANGED <<task, unreported, debuggedThreadEvent, suspendCount, suspendedDevent>>
    BY <1>13 DEF MemoryFails
  <2>2. de.ev \in Signals \cup Virtual /\ 0 \in 0 .. N
    BY DebuggerAssumption DEF Signals, Virtual
  <2>3. Ev(0, de.ev) \in Event
    BY <2>2, EventType
  <2>4. debugEventQueue' \in {debugEventQueue, Append(debugEventQueue, Ev(0, de.ev))}
    BY <1>13 DEF MemoryFails
  <2>5. \A t \in Tid : InQueue(debugEventQueue, t) => InQueue(debugEventQueue', t)
    BY <2>3, <2>4, AppendKeeps DEF TypeOK
  <2> QED
    BY <2>1, <2>5, <1>k DEF Stopped
<1>14. CASE StopDebug
  BY <1>14, <1>u DEF StopDebug, StopUnchanged
<1>15. CASE StopStep
  <2>1. PICK t \in Tid : StopDetaches(t) \/ StopOtherSignal(t) \/ StopGone(t) \/ StopSpins(t)
    BY <1>15 DEF StopStep
  <2>2. CASE StopDetaches(t)
    BY <2>2, <1>k DEF StopDetaches, StopUnchanged, Stopped, Signals, Collected, TypeOK
  <2>3. CASE StopOtherSignal(t)
    <3>1. \A u \in Tid : Stopped(u)' => Stopped(u) /\ u # t
      BY <2>3, ResumedStops DEF StopOtherSignal
    <3>2. \A u \in Tid : u # t => unreported'[u] = unreported[u]
      BY <2>3 DEF StopOtherSignal, Collected, TypeOK
    <3> QED
      BY <2>3, <3>1, <3>2, <1>k DEF StopOtherSignal, StopUnchanged
  <2>4. CASE StopGone(t)
    BY <2>4, <1>k DEF StopGone, StopUnchanged, Stopped, Signals, Collected, TypeOK
  <2>5. CASE StopSpins(t)
    BY <2>5, <1>u DEF StopSpins
  <2> QED
    BY <2>1, <2>2, <2>3, <2>4, <2>5
<1>16. ASSUME NEW t \in Tid, SuspendRunning(t) \/ \E op \in TempOps : StopForOp(op, t) \/ ActOnPaused(op, t)
       PROVE  NoStopForgotten'
  BY <1>16, <1>u DEF SuspendRunning, StopForOp, ActOnPaused
<1>17. ASSUME NEW t \in Tid, SuspendPaused(t)
       PROVE  NoStopForgotten'
  <2>1. UNCHANGED <<task, unreported, debuggedThreadEvent>>
    BY <1>17 DEF SuspendPaused
  <2>2. CASE SuspendAgain(t) \/ SuspendCrash(t)
    BY <2>1, <2>2, <1>9 DEF SuspendAgain, SuspendCrash
  <2> SUFFICES ASSUME NEW u \in Tid, Accounted(u), SuspendCurrent(t) \/ SuspendQueued(t)
               PROVE  Accounted(u)'
    BY <1>17, <2>1, <2>2 DEF SuspendPaused, NoStopForgotten, Stopped
  <2>3. /\ suspendCount[t] = 0 /\ suspendCount'[t] = 1
        /\ u # t => suspendCount'[u] = suspendCount[u] /\ suspendedDevent'[u] = suspendedDevent[u]
    BY DEF SuspendCurrent, SuspendQueued, Counted, TypeOK
  <2>4. CASE SuspendCurrent(t)
    BY <2>1, <2>3, <2>4 DEF SuspendCurrent, Accounted
  <2>5. CASE SuspendQueued(t)
    <3> DEFINE e == FindThreadDebugEventInQueue(debugEventQueue, t)
               q == RemoveThreadDebugEventFromQueue(debugEventQueue, t)
    <3>1. t \in 0 .. N /\ t # 0
      BY DebuggerAssumption DEF Tid
    <3>2. e.tid = t /\ (InQueue(debugEventQueue, u) => InQueue(q, u) \/ For(e, u))
      BY <2>5, <3>1, FindAndRemove DEF SuspendQueued, TypeOK
    <3>3. debugEventQueue' = q /\ suspendedDevent'[t] = e
      BY <2>5 DEF SuspendQueued, TypeOK
    <3> HIDE DEF e, q
    <3>4. For(e, u) => u = t /\ Real(e)
      BY <3>2 DEF For
    <3> QED
      BY <2>1, <2>3, <3>2, <3>3, <3>4 DEF Accounted
  <2> QED
    BY <2>4, <2>5
<1>18. ASSUME NEW t \in Tid, ResumeThread(t)
       PROVE  NoStopForgotten'
  <2> SUFFICES ASSUME NEW u \in Tid, Stopped(u)', ~unreported'[u]
               PROVE  Accounted(u)'
    BY DEF NoStopForgotten
  <2>1. /\ suspendCount' = [suspendCount EXCEPT ![t] = @ - 1]
        /\ UNCHANGED <<suspendedDevent, debuggedThreadEvent>>
    BY <1>18 DEF ResumeThread
  <2>2. u # t => suspendCount'[u] = suspendCount[u]
    BY <2>1 DEF TypeOK
  <2>3. CASE ResumeCounts(t)
    <3>1. suspendCount[u] > 0 => suspendCount'[u] > 0
      BY <2>1, <2>3 DEF ResumeCounts, TypeOK
    <3> QED
      BY <2>1, <2>3, <3>1 DEF ResumeCounts, NoStopForgotten, Accounted, Stopped
  <2>4. CASE ResumeContinues(t)
    <3>1. suspendedDevent[t].tid = t
      BY <2>4 DEF ResumeContinues, StoredIsOwn, Real, Signals
    <3>2. Stopped(u) /\ ~unreported[u] /\ u # t
      BY <2>4, <3>1, <1>11 DEF ResumeContinues
    <3> QED
      BY <2>1, <2>2, <2>4, <3>2 DEF ResumeContinues, NoStopForgotten, Accounted
  <2>5. CASE ResumeQueues(t)
    <3>1. Accounted(u)
      BY <2>5 DEF ResumeQueues, NoStopForgotten, Stopped
    <3>2. suspendedDevent[t] \in Event
      BY DEF TypeOK
    <3>3. InQueue(debugEventQueue, u) \/ For(suspendedDevent[t], u) =>
            InQueue(debugEventQueue', u)
      BY <2>5, <3>2, AppendKeeps DEF ResumeQueues, TypeOK
    <3>4. Real(suspendedDevent[t]) => For(suspendedDevent[t], t)
      BY DEF StoredIsOwn, For
    <3> QED
      BY <2>1, <2>2, <3>1, <3>3, <3>4 DEF Accounted
  <2> QED
    BY <1>18, <2>3, <2>4, <2>5 DEF ResumeThread
<1>19. ASSUME NEW op \in MemOps, StopForMemory(op)
       PROVE  NoStopForgotten'
  BY <1>19, <1>u DEF StopForMemory
<1>20. CASE Requests
  BY <1>20, <1>16, <1>17, <1>18, <1>19 DEF Requests
<1>21. CASE Expire
  BY <1>21, <1>8, <1>10, <1>12, <1>13 DEF Expire
<1> QED
  BY <1>1, <1>2, <1>3, <1>4, <1>5, <1>6, <1>7, <1>14, <1>15, <1>20, <1>21 DEF Next, Steps

-----------------------------------------------------------------------------

\* The initial state satisfies the invariant.
LEMMA InitIInv == Init => IInv
<1> SUFFICES ASSUME Init
             PROVE  IInv
  OBVIOUS
<1>1. TypeOK
  BY InitType
<1>2. /\ \A t \in Tid : ~Traced(t) /\ ~Stopped(t) /\ ~Real(suspendedDevent[t])
      /\ call = NoCall /\ interrupted = NoCall
  BY DEF Init, Traced, Stopped, Signals, Real, NoEvent, Ev
<1>3. NoCall.op = "none"
  BY DEF NoCall, Frame
<1> QED
  BY <1>1, <1>2, <1>3 DEF IInv, StoredIsOwn, CallsNest, TracedListed, NothingLeftTraced,
     NoStopForgotten

\* The invariant is inductive as long as no client starts a second session on
\* top of the first, which empties the thread list under the running one.
LEMMA Inductive ==
  ASSUME "StartDebug" \notin ClientOps
  PROVE  Spec => []IInv
<1>1. IInv /\ [Next]_vars => IInv'
  BY TypeStep, StoredStep, NestStep, TracedStep, StopsStep DEF IInv
<1> QED
  BY InitIInv, <1>1, PTL DEF Spec

\* In such a session every stop that waitpid handed to ceserver stays the
\* current event, queued or stored in a suspended thread, whatever calls of
\* api.c wait, time out, nest and requeue events meanwhile.
THEOREM StopsAccounted ==
  ASSUME "StartDebug" \notin ClientOps
  PROVE  Spec => []NoStopForgotten
<1>1. IInv => NoStopForgotten
  BY DEF IInv
<1> QED
  BY Inductive, <1>1, PTL

\* StopDebug detaches every thread the session attached to and that is still
\* alive, whichever order the threads stopped, trapped or died in.
THEOREM AllDetached ==
  ASSUME "StartDebug" \notin ClientOps
  PROVE  Spec => []NothingLeftTraced
<1>1. IInv => NothingLeftTraced
  BY DEF IInv
<1> QED
  BY Inductive, <1>1, PTL


-----------------------------------------------------------------------------
(* What makes a stopped thread run.                                         *)

\* PTRACE_CONT changes the thread it is called for and no other.
LEMMA ResumedOnly ==
  ASSUME TypeOK, NEW w, task' = Resumed(w), NEW t \in Tid, Stopped(t), task'[t] = "run"
  PROVE  t = w
BY DEF Resumed, Stopped, Signals, TypeOK

\* A stopped thread runs again by StopDebug, by ContinueFromDebugEvent when it
\* is not suspended, by a temporary stop whose SIGSTOP it is in, by one that has
\* given up, or by the ResumeThread that brings its suspendCount to 0.
LEMMA RunsBy ==
  ASSUME TypeOK, StoredIsOwn, Next, NEW t \in Tid, Stopped(t), task'[t] = "run"
  PROVE  \/ InStopDebug
         \/ ContinueFromDebugEvent /\ suspendCount[t] = 0
         \/ call.op \in TempOps \cup MemOps /\ task[t] = "SIGSTOP"
         \/ call.op \in TempOps /\ \E de \in Garbage : GiveUp(de)
         \/ /\ ResumeThread(t) /\ suspendedDevent[t].ev = "SIGSTOP"
            /\ suspendCount[t] = 1
<1> USE DEF kernel, process, threads
<1>1. task[t] # "run" /\ task[t] \in Signals
  BY DEF Stopped, Signals
<1>2. CASE UNCHANGED task
  BY <1>1, <1>2
<1>3. CASE Target
  BY <1>1, <1>3 DEF Target, Kill, Trap, DeliverStop, Exit, TypeOK
<1>4. CASE AttachTask
  <2>1. CASE Attach(call.tid)
    BY <1>1, <2>1 DEF Attach, TypeOK, Signals
  <2> QED
    BY <1>2, <1>4, <2>1 DEF AttachTask, AttachDead, AttachFails
<1>5. CASE WaitForDebugEvent \/ StartDebug \/ StopDebug
  BY <1>2, <1>5 DEF WaitForDebugEvent, StartDebug, StopDebug
<1>6. CASE ContinueFromDebugEvent
  <2>1. CASE ContinueVirtual \/ ContinueUnlisted
    BY <1>2, <2>1 DEF ContinueVirtual, ContinueUnlisted
  <2>2. CASE ContinueStopped
    BY <1>6, <2>2, ResumedOnly DEF ContinueStopped
  <2>3. CASE ContinueKilled
    BY <2>3 DEF ContinueKilled
  <2> QED
    BY <1>6, <2>1, <2>2, <2>3 DEF ContinueFromDebugEvent
<1>7. CASE Wait
  <2>1. ASSUME NEW u \in Tid, NEW q, NEW unrep, Returns(u, q, unrep)
        PROVE  UNCHANGED task \/ (call.op \in TempOps \cup MemOps /\ task[t] = "SIGSTOP")
    <3> DEFINE de == Ev(u, GetStopSignalFromThread(u))
    <3>1. de.tid = u /\ de.ev = GetStopSignalFromThread(u)
      BY EventType
    <3>2. ReturnTrue(de, q, unrep)
      BY <2>1 DEF Returns
    <3> HIDE DEF de
    <3>3. CASE TempStopDone(de, q, unrep) /\ TempStopContinues(de, q, unrep)
      <4>1. t = u
        BY <3>1, <3>3, ResumedOnly DEF TempStopContinues
      <4> QED
        BY <3>1, <3>3, <4>1 DEF TempStopDone, TempStopContinues, GetStopSignalFromThread
    <3> QED
      BY <3>2, <3>3 DEF ReturnTrue, EventReported, ThreadSuspended, TempStopDone,
         TempStopQueues
  <2> QED
    BY <1>2, <1>7, <2>1, WaitCases DEF Drops, NothingYet
<1>8. CASE Expire
  <2>1. ASSUME NEW de \in Garbage, GiveUp(de)
        PROVE  call.op \in TempOps
    BY <2>1 DEF GiveUp, TimedOut
  <2> QED
    BY <1>2, <1>8, <2>1 DEF Expire, WaitTimeout, Retry, SuspendRetry, MemoryFails
<1>9. CASE StopStep
  BY <1>9 DEF StopStep, StopDetaches, StopOtherSignal, StopGone, StopSpins, Stopping,
     InStopDebug
<1>10. CASE Requests
  <2>1. ASSUME NEW u \in Tid, ResumeThread(u)
        PROVE  \/ UNCHANGED task
               \/ /\ ResumeThread(t) /\ suspendedDevent[t].ev = "SIGSTOP"
                  /\ suspendCount[t] = 1
    <3>1. CASE ResumeContinues(u)
      <4>1. suspendedDevent[u].tid = u
        BY <3>1 DEF ResumeContinues, StoredIsOwn, Real, Signals
      <4>2. t = u
        BY <3>1, <4>1, ResumedOnly DEF ResumeContinues
      <4> QED
        BY <2>1, <3>1, <4>2 DEF ResumeContinues
    <3> QED
      BY <2>1, <3>1 DEF ResumeThread, ResumeCounts, ResumeQueues
  <2> QED
    BY <1>2, <1>10, <2>1 DEF Requests, StopForOp, ActOnPaused, SuspendRunning,
       SuspendPaused, StopForMemory
<1> QED
  BY <1>3, <1>4, <1>5, <1>6, <1>7, <1>8, <1>9, <1>10 DEF Next, Steps

\* The types and the owners of the stored stops hold with any operations.
LEMMA StoredAlways == Spec => [](TypeOK /\ StoredIsOwn)
<1>1. Init => TypeOK /\ StoredIsOwn
  BY InitIInv DEF IInv
<1>2. TypeOK /\ StoredIsOwn /\ [Next]_vars => (TypeOK /\ StoredIsOwn)'
  BY TypeStep, StoredStep
<1> QED
  BY <1>1, <1>2, PTL DEF Spec

\* A SIGTRAP is resumed by nobody but the client's ContinueFromDebugEvent and
\* StopDebug, in spite of all the temporary stops that race with it, with two
\* exceptions in the code: a temporary stop that uses the event nobody wrote, and
\* ResumeThread, which trusts the stop SuspendThread stored.
THEOREM TrapsWait == Spec => TrapWaitsForClient
<1>1. TypeOK /\ StoredIsOwn /\ [Next]_vars
        => [\A t \in Tid : Swallowed(t) =>
              ResumesStale(t) \/ \E de \in Garbage : GiveUp(de)]_vars
  <2> SUFFICES ASSUME TypeOK, StoredIsOwn, Next, NEW t \in Tid, Swallowed(t)
               PROVE  ResumesStale(t) \/ \E de \in Garbage : GiveUp(de)
    OBVIOUS
  <2>1. /\ Stopped(t) /\ task'[t] = "run" /\ task[t] # "SIGSTOP"
        /\ ~InStopDebug /\ ~ContinueFromDebugEvent
    BY DEF Swallowed, Stopped, Signals
  <2> QED
    BY <2>1, RunsBy DEF ResumesStale
<1> QED
  BY <1>1, StoredAlways, PTL DEF Spec, TrapWaitsForClient

-----------------------------------------------------------------------------
(* Suspended threads, with clients that ask for no temporary stop.          *)

\* Without such requests no call of that kind waits or was interrupted.
NoTempStop == /\ call.op \notin TempOps \cup MemOps
              /\ interrupted.op \notin TempOps \cup MemOps

\* Calls are entered for the operations the clients ask for.
LEMMA NoTempStep ==
  ASSUME TypeOK, NoTempStop, [Next]_vars, ClientOps \cap (TempOps \cup MemOps) = {}
  PROVE  NoTempStop'
<1> DEFINE Fine(f) == f.op \notin TempOps \cup MemOps
<1>1. /\ Fine(NoCall) /\ Fine(Checking)
      /\ \A t, k, a : /\ Fine(Frame("StartDebug", t, k, a)) /\ Fine(Frame("StopDebug", t, k, a))
                      /\ Fine(Frame("spin", t, k, a)) /\ Fine(Frame("crash", t, k, a))
                      /\ Fine(Frame("SuspendThread", t, k, a))
                      /\ Fine(Frame("WaitForDebugEvent", t, k, a))
                      /\ Fine(Frame(call.op, t, k, a))
  BY DEF NoTempStop, NoCall, Frame, Checking, TempOps, MemOps
<1>2. Fine(call) /\ Fine(interrupted)
  BY DEF NoTempStop
<1>3. SUFFICES Fine(call') /\ Fine(interrupted')
  BY DEF NoTempStop
<1> HIDE DEF Fine
<1>4. CASE UNCHANGED calls \/ Return \/ Dispatch
  BY <1>1, <1>2, <1>4 DEF calls, Return, Dispatch
<1>5. \A f : Fine(f) /\ (Now(f) \/ Enter(f)) => Fine(call') /\ Fine(interrupted')
  BY <1>1, <1>2 DEF Now, Enter
<1>6. CASE UNCHANGED vars
  BY <1>4, <1>6 DEF vars
<1>7. CASE Target \/ ContinueFromDebugEvent
  BY <1>4, <1>7 DEF Target, Kill, Trap, DeliverStop, Exit, ContinueFromDebugEvent
<1>8. CASE StartDebug \/ AttachTask
  BY <1>1, <1>5, <1>8 DEF StartDebug, AttachTask, NextTask
<1>9. CASE WaitForDebugEvent
  BY <1>1, <1>4, <1>5, <1>9 DEF WaitForDebugEvent, ReturnQueued, WaitForAny
<1>10. CASE Wait
  BY <1>1, <1>4, <1>5, <1>10, WaitCases DEF Returns, ReturnTrue, Drops, NothingYet
<1>11. CASE Expire
  <2>1. ~Retry /\ (\A de : ~GiveUp(de)) /\ (\A e : ~MemoryFails(e))
    BY DEF Retry, GiveUp, MemoryFails, TimedOut, NoTempStop
  <2> QED
    BY <1>1, <1>4, <1>5, <1>11, <2>1 DEF Expire, WaitTimeout, SuspendRetry
<1>12. CASE StopDebug \/ StopStep
  BY <1>1, <1>4, <1>5, <1>12 DEF StopDebug, StopStep, StopFrom, StopDetaches,
     StopOtherSignal, StopGone, StopSpins
<1>13. CASE Requests
  <2>1. \A op, t : ~StopForOp(op, t) /\ ~ActOnPaused(op, t) /\ ~StopForMemory(op)
    BY DEF StopForOp, ActOnPaused, TempDispatched, StopForMemory, Dispatched
  <2> QED
    BY <1>1, <1>4, <1>5, <1>13, <2>1 DEF Requests, SuspendRunning, SuspendPaused,
       SuspendAgain, SuspendCurrent, SuspendQueued, SuspendCrash, ResumeThread
<1> QED
  BY <1>6, <1>7, <1>8, <1>9, <1>10, <1>11, <1>12, <1>13 DEF Next, Steps

\* When no client asks for a temporary stop, whatever else the clients, the
\* event loop and the target do, a suspended thread runs again only by the last
\* ResumeThread, or when the session ends.
THEOREM SuspendedStay ==
  ASSUME ClientOps \cap (TempOps \cup MemOps) = {}
  PROVE  Spec => SuspendedStays
<1>1. Init => NoTempStop
  BY DEF Init, NoTempStop, NoCall, Frame, TempOps, MemOps
<1>2. TypeOK /\ NoTempStop /\ [Next]_vars => NoTempStop'
  BY NoTempStep
<1>3. TypeOK /\ StoredIsOwn /\ NoTempStop /\ [Next]_vars
        => [\A t \in Tid : Stopped(t) /\ suspendCount[t] > 0 /\ task'[t] = "run" =>
              suspendCount'[t] = 0 \/ InStopDebug]_vars
  <2> SUFFICES ASSUME TypeOK, StoredIsOwn, NoTempStop, Next, NEW t \in Tid, Stopped(t),
                      suspendCount[t] > 0, task'[t] = "run"
               PROVE  suspendCount'[t] = 0 \/ InStopDebug
    OBVIOUS
  <2>1. InStopDebug \/ (ResumeThread(t) /\ suspendCount[t] = 1)
    BY RunsBy DEF NoTempStop
  <2> QED
    BY <2>1 DEF ResumeThread, TypeOK
<1> QED
  BY <1>1, <1>2, <1>3, StoredAlways, PTL DEF Spec, SuspendedStays


-----------------------------------------------------------------------------
(* The plain event loop: sessions of WaitForDebugEvent, ContinueFromDebug-  *)
(* Event, StartDebug and StopDebug on a target that is not killed.          *)

\* The calls of the loop never nest, the queue holds only the virtual events of
\* StartDebug, and a wait starts when they are all reported: the event it then
\* returns is a stop that waitpid has just collected.
LoopCalls == {"none", "StartDebug", "StopDebug", "spin", "WaitForDebugEvent"}
LoopInv ==
  /\ call.op \in LoopCalls /\ interrupted = NoCall
  /\ \A i \in DOMAIN debugEventQueue : ~Real(debugEventQueue[i])
  /\ call.op = "WaitForDebugEvent" => Current = 0 /\ debugEventQueue = <<>>
  /\ CurrentIsStopped

\* Every step of the loop keeps this.
LEMMA LoopStep ==
  ASSUME TypeOK, LoopInv, [Next]_vars, ClientOps \subseteq {"StartDebug", "StopDebug"},
         ~CanKill
  PROVE  LoopInv'
<1> USE DEF kernel, process, threads
<1> DEFINE Calls == /\ call.op \in LoopCalls /\ interrupted = NoCall
                    /\ call.op = "WaitForDebugEvent" => Current = 0 /\ debugEventQueue = <<>>
           Queue == \A i \in DOMAIN debugEventQueue : ~Real(debugEventQueue[i])
<1>0. Calls /\ Queue /\ CurrentIsStopped
  BY DEF LoopInv
<1>1. SUFFICES Calls' /\ Queue' /\ CurrentIsStopped'
  BY DEF LoopInv
<1>2. call.op \notin TempOps \cup MemOps \cup {"SuspendThread"}
  BY DEF LoopInv, LoopCalls, TempOps, MemOps
<1>3. UNCHANGED <<calls, debuggedThreadEvent, debugEventQueue>> => Calls'
  BY <1>0 DEF calls, Current
<1>4. UNCHANGED debugEventQueue => Queue'
  BY <1>0
<1>5. UNCHANGED <<task, unreported, debuggedThreadEvent>> => CurrentIsStopped'
  BY <1>0 DEF CurrentIsStopped, Current, Stopped
<1>6. NoCall.op = "none" /\ (Idle => call.op = "none") /\ \A o, t, k, a : Frame(o, t, k, a).op = o
  BY DEF NoCall, Frame, Idle
<1>7. UNCHANGED interrupted /\ call'.op \in LoopCalls \ {"WaitForDebugEvent"} => Calls'
  BY <1>0 DEF Current
\* A step that touches only threads other than that of the current event.
<1>8. ASSUME NEW t \in Tid, UNCHANGED debuggedThreadEvent,
             task[t] \notin Signals \/ unreported[t],
             \A u \in Tid : u # t => task'[u] = task[u] /\ unreported'[u] = unreported[u]
      PROVE  CurrentIsStopped'
  <2> SUFFICES ASSUME Current # 0, Real(debuggedThreadEvent)
               PROVE  Stopped(Current)' /\ ~unreported'[Current']
    BY <1>8 DEF CurrentIsStopped, Current, Real
  <2>1. Stopped(Current) /\ ~unreported[Current] /\ Current \in Tid /\ Current' = Current
    BY <1>0, <1>8, EventShape DEF CurrentIsStopped, Current, TypeOK
  <2>2. Current # t
    BY <1>8, <2>1 DEF Stopped
  <2> QED
    BY <1>8, <2>1, <2>2 DEF Stopped
<1>9. (debuggedThreadEvent'.tid = 0 \/ ~Real(debuggedThreadEvent')) => CurrentIsStopped'
  BY DEF CurrentIsStopped, Current, Real
<1> HIDE DEF Calls, Queue
<1>10. CASE UNCHANGED vars
  BY <1>3, <1>4, <1>5, <1>10 DEF vars
<1>11. CASE Target
  <2>1. PICK t \in Tid : Trap(t) \/ DeliverStop(t) \/ Exit(t)
    BY <1>11 DEF Target, Kill
  <2>2. /\ task[t] = "run" /\ UNCHANGED <<process, calls>>
        /\ \A u \in Tid : u # t => task'[u] = task[u] /\ unreported'[u] = unreported[u]
    BY <2>1 DEF Trap, DeliverStop, Exit, TypeOK
  <2>3. task[t] \notin Signals
    BY <2>2 DEF Signals
  <2> QED
    BY <1>3, <1>4, <1>8, <2>2, <2>3
<1>12. CASE StartDebug
  BY <1>4, <1>5, <1>6, <1>7, <1>12 DEF StartDebug, Now, LoopCalls
<1>13. CASE AttachTask
  <2>1. call.tid \in Tid
    BY <1>13, FrameShape DEF AttachTask, ThreadOps, TypeOK
  <2>2. Calls'
    BY <1>6, <1>7, <1>13 DEF AttachTask, Now, NextTask, LoopCalls
  <2>3. CASE AttachDead(call.tid) \/ AttachFails(call.tid)
    BY <1>4, <1>5, <2>2, <2>3 DEF AttachDead, AttachFails
  <2>4. CASE Attach(call.tid)
    <3> DEFINE t == call.tid
    <3>1. CASE isDebugged
      <4>1. /\ debugEventQueue' = debugEventQueue \o <<Ev(t, "-1")>>
            /\ UNCHANGED debuggedThreadEvent
        BY <2>4, <3>1 DEF Attach
      <4>2. /\ task[t] = "free"
            /\ \A u \in Tid : u # t => task'[u] = task[u] /\ unreported'[u] = unreported[u]
        BY <2>1, <2>4 DEF Attach, TypeOK
      <4>3. task[t] \notin Signals
        BY <4>2 DEF Signals
      <4>4. CurrentIsStopped'
        BY <1>8, <2>1, <4>1, <4>2, <4>3
      <4>5. Ev(t, "-1") \in Event /\ ~Real(Ev(t, "-1"))
        BY <2>1, EventType DEF Ev, Real, Signals, Virtual
      <4>6. Queue'
        <5> HIDE DEF t
        <5> SUFFICES ASSUME NEW i \in DOMAIN debugEventQueue'
                     PROVE  ~Real(debugEventQueue'[i])
          BY DEF Queue, Real
        <5>1. CASE i \in DOMAIN debugEventQueue
          <6>1. debugEventQueue'[i] = debugEventQueue[i]
            BY <4>1, <4>5, <5>1 DEF TypeOK
          <6> QED
            BY <1>0, <5>1, <6>1 DEF Queue
        <5>2. CASE i \notin DOMAIN debugEventQueue
          <6>1. debugEventQueue'[i] = Ev(t, "-1")
            BY <4>1, <4>5, <5>2 DEF TypeOK
          <6> QED
            BY <4>5, <6>1
        <5> QED
          BY <5>1, <5>2
      <4> QED
        BY <2>2, <4>4, <4>6
    <3>2. CASE ~isDebugged
      <4>1. /\ debugEventQueue' = Append(debugEventQueue, Ev(1, "-2")) \o <<Ev(t, "-1")>>
            /\ debuggedThreadEvent' = Ev(0, debuggedThreadEvent.ev)
        BY <2>4, <3>2 DEF Attach
      <4>2. CurrentIsStopped'
        BY <1>9, <4>1 DEF Ev
      <4>3. /\ Ev(t, "-1") \in Event /\ ~Real(Ev(t, "-1"))
            /\ Ev(1, "-2") \in Event /\ ~Real(Ev(1, "-2"))
        <5>1. 1 \in Tid
          BY DebuggerAssumption DEF Tid
        <5> QED
          BY <2>1, <5>1, EventType DEF Ev, Real, Signals, Virtual
      <4>4. Queue'
        <5> HIDE DEF t
        <5> SUFFICES ASSUME NEW i \in DOMAIN debugEventQueue'
                     PROVE  ~Real(debugEventQueue'[i])
          BY DEF Queue, Real
        <5>1. CASE i \in DOMAIN debugEventQueue
          <6>1. debugEventQueue'[i] = debugEventQueue[i]
            BY <4>1, <4>3, <5>1 DEF TypeOK
          <6> QED
            BY <1>0, <5>1, <6>1 DEF Queue
        <5>2. CASE i \notin DOMAIN debugEventQueue
          <6>1. debugEventQueue'[i] \in {Ev(t, "-1"), Ev(1, "-2")}
            BY <4>1, <4>3, <5>2 DEF TypeOK
          <6> QED
            BY <4>3, <6>1
        <5> QED
          BY <5>1, <5>2
      <4> QED
        BY <2>2, <4>2, <4>4
    <3> QED
      BY <3>1, <3>2
  <2> QED
    BY <1>13, <2>3, <2>4 DEF AttachTask
<1>14. CASE WaitForDebugEvent
  <2>1. CASE ReturnQueued
    <3>1. ~Real(debuggedThreadEvent')
      BY <1>0, <2>1 DEF ReturnQueued, Queue, TypeOK
    <3>2. Queue'
      <4> SUFFICES ASSUME NEW i \in DOMAIN debugEventQueue'
                   PROVE  ~Real(debugEventQueue'[i])
        BY DEF Queue, Real
      <4>1. i + 1 \in DOMAIN debugEventQueue /\ debugEventQueue'[i] = debugEventQueue[i + 1]
        BY <2>1 DEF ReturnQueued, TypeOK
      <4> QED
        BY <1>0, <4>1 DEF Queue
    <3>3. Calls'
      BY <1>6, <1>7, <1>14, <2>1 DEF WaitForDebugEvent, ReturnQueued, calls, LoopCalls
    <3> QED
      BY <1>9, <3>1, <3>2, <3>3
  <2>2. CASE WaitForAny
    <3>1. Calls'
      BY <1>0, <1>6, <1>14, <2>2 DEF WaitForDebugEvent, WaitForAny, Now, Calls, Current,
         LoopCalls
    <3> QED
      BY <1>4, <1>5, <1>14, <2>2, <3>1 DEF WaitForDebugEvent, WaitForAny
  <2> QED
    BY <1>14, <2>1, <2>2 DEF WaitForDebugEvent
<1>15. CASE ContinueFromDebugEvent
  <2>1. CASE ContinueVirtual \/ ContinueUnlisted \/ ContinueStopped
    <3>1. debuggedThreadEvent' = Ev(0, debuggedThreadEvent.ev)
      BY <2>1 DEF ContinueVirtual, ContinueUnlisted, ContinueStopped
    <3>2. CurrentIsStopped'
      BY <1>9, <3>1 DEF Ev
    <3>3. Calls'
      BY <1>6, <1>7, <1>15 DEF ContinueFromDebugEvent, calls, LoopCalls
    <3> QED
      BY <1>4, <1>15, <3>2, <3>3 DEF ContinueFromDebugEvent
  <2> QED
    BY <1>15, <2>1 DEF ContinueFromDebugEvent, ContinueKilled
<1>16. CASE Wait
  <2>1. CASE NothingYet
    <3>1. Calls'
      BY <1>0, <1>6, <2>1 DEF NothingYet, Now, Calls, Current
    <3> QED
      BY <1>4, <1>5, <2>1, <3>1 DEF NothingYet
  <2>2. ~TakeQueued
    <3>1. ASSUME TakeQueued
          PROVE  FALSE
      <4>1. call.op = "WaitForDebugEvent"
        BY <1>2, <3>1 DEF TakeQueued, QueueFirst, Timed
      <4>2. debugEventQueue = <<>> /\ EventsFor(debugEventQueue, call.tid) # {}
        BY <1>0, <3>1, <4>1 DEF TakeQueued, QueueFirst, Calls
      <4> QED
        BY <4>2 DEF EventsFor
    <3> QED
      BY <3>1
  <2>3. ASSUME NEW t \in Tid, Waitpid(t)
        PROVE  Calls' /\ Queue' /\ CurrentIsStopped'
    <3> DEFINE de == Ev(t, GetStopSignalFromThread(t))
    <3>1. /\ EventReported(de, debugEventQueue, Collected(t))
          /\ Return
      BY <1>2, <2>3 DEF Waitpid, ReturnTrue, ThreadSuspended, TempStopDone
    <3>2. de.tid = t /\ de.ev = GetStopSignalFromThread(t)
      BY EventType
    <3> HIDE DEF de
    <3>3. Real(de) => Stopped(t)
      BY <3>2 DEF Real, GetStopSignalFromThread, Signals
    <3>4. UNCHANGED <<task, debugEventQueue>> /\ debuggedThreadEvent' = de /\ ~unreported'[t]
      BY <3>1 DEF EventReported, Collected, TypeOK
    <3>5. CurrentIsStopped'
      BY <3>2, <3>3, <3>4 DEF CurrentIsStopped, Current, Stopped
    <3>6. call' = NoCall /\ interrupted' = NoCall
      BY <1>0, <3>1 DEF Return, Calls
    <3>7. Calls'
      BY <1>6, <3>6 DEF Calls, LoopCalls
    <3> QED
      BY <1>4, <3>4, <3>5, <3>7
  <2> QED
    BY <1>16, <2>1, <2>2, <2>3 DEF Wait
<1>17. CASE Expire
  <2>1. WaitTimeout
    BY <1>2, <1>17 DEF Expire, Retry, SuspendRetry, GiveUp, MemoryFails, TimedOut
  <2>2. call' = NoCall /\ interrupted' = NoCall
    BY <1>0, <2>1 DEF WaitTimeout, Return, Calls
  <2>3. Calls'
    BY <1>6, <2>2 DEF Calls, LoopCalls
  <2> QED
    BY <1>4, <1>5, <2>1, <2>3 DEF WaitTimeout
<1>18. CASE StopDebug
  <2>0. StopFrom(threadlist)
    BY <1>18 DEF StopDebug
  <2>1. UNCHANGED interrupted /\ call'.op \in {"none", "StopDebug"}
    BY <1>6, <2>0 DEF StopFrom, Now
  <2>2. Calls'
    BY <1>7, <2>1 DEF LoopCalls
  <2> QED
    BY <1>4, <1>5, <1>18, <2>2 DEF StopDebug, StopUnchanged
<1>19. CASE StopStep
  <2>1. PICK t \in Tid : StopDetaches(t) \/ StopOtherSignal(t) \/ StopGone(t) \/ StopSpins(t)
    BY <1>19 DEF StopStep
  <2>2. /\ UNCHANGED <<debuggedThreadEvent, debugEventQueue>>
        /\ task[t] \notin Signals \/ unreported[t]
        /\ \A u \in Tid : u # t => task'[u] = task[u] /\ unreported'[u] = unreported[u]
    BY <2>1 DEF StopDetaches, StopOtherSignal, StopGone, StopSpins, StopUnchanged, Resumed,
       Collected, Signals, TypeOK
  <2>3. Calls'
    BY <1>3, <1>6, <1>7, <2>1, <2>2 DEF StopDetaches, StopOtherSignal, StopGone, StopSpins,
       StopFrom, Now, LoopCalls
  <2> QED
    BY <1>4, <1>8, <2>2, <2>3
<1>20. ~Requests
  BY DEF Requests, StopForOp, ActOnPaused, TempDispatched, SuspendRunning, SuspendPaused,
     CanSuspend, ResumeThread, StopForMemory, Dispatched, TempOps, MemOps
<1> QED
  BY <1>10, <1>11, <1>12, <1>13, <1>14, <1>15, <1>16, <1>17, <1>18, <1>19, <1>20
     DEF Next, Steps

\* In the plain event loop, over any number of sessions, threads and signals,
\* ContinueFromDebugEvent is called for a stop that waitpid has collected and the
\* thread is still in: StopDebug never detaches or resumes the thread under it,
\* and no queued event stands for a stop that nobody collected.
THEOREM CurrentStops ==
  ASSUME ClientOps \subseteq {"StartDebug", "StopDebug"}, ~CanKill
  PROVE  Spec => []CurrentIsStopped
<1>1. Init => LoopInv
  BY DEF Init, LoopInv, LoopCalls, NoCall, Frame, CurrentIsStopped, Current, NoEvent, Ev
<1>2. TypeOK /\ LoopInv /\ [Next]_vars => LoopInv'
  BY LoopStep
<1>3. LoopInv => CurrentIsStopped
  BY DEF LoopInv
<1> QED
  BY <1>1, <1>2, <1>3, TypeCorrect, PTL DEF Spec
=============================================================================
