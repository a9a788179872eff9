-------------------------- MODULE ExtensionProofs --------------------------
(* Proofs that a call gets its own answer, that a process marked as loaded   *)
(* is reached over the connection kept for it, that the extension works for  *)
(* one call at a time and that it is injected where it is missing, for every *)
(* number of callers, connections, descriptors, calls and starts.  The first *)
(* three hold up to the moment accept gives a number away that a server      *)
(* thread still uses; the steps after it are followed all the same.          *)
EXTENDS Extension, TLAPS, SequenceTheorems, FiniteSetTheorems, WellFoundedInduction

-----------------------------------------------------------------------------
(* The inductive invariant.                                                 *)

\* The places of a caller that holds extensionMutex.
Holding == {"probe", "hangup", "inject", "dlopen", "open", "loadend", "send", "receive", "unlock"}

\* The holder of the mutex is the one caller at such a place.
MutexHeld == \A c \in Conn : at[c] \in Holding <=> extensionMutex = c

\* A call has its number from beginning to end, and a result only after its
\* receive; the connection isExtensionLoaded makes is not the one kept; what
\* loadExtension injects is not there, or the probe had no descriptor.
CallsFollow ==
  \A c \in Conn :
    /\ at[c] # "idle" => id[c] # 0
    /\ at[c] # "unlock" => result[c] = 0
    /\ at[c] = "receive" => extensionFD # 0
    /\ at[c] = "hangup" => probe # 0 /\ probe # extensionFD /\ probe <= made
    /\ at[c] = "inject" => ~Listens \/ "crowded" \in notes

\* The connection kept is open at ceserver's end, and a process marked as
\* loaded has one, but between the injection and openExtension.
Kept ==
  /\ extensionFD # 0 => sock[extensionFD].open
  /\ loaded /\ (\A c \in Conn : at[c] # "open") => extensionFD # 0

\* Connections are made once: those to come are untouched, a connection waits
\* at most once and has no thread before accept, a number stands for one that
\* was made, and a target that has exited has neither.
MadeOnce ==
  /\ \A s \in Sock : s > made =>
       /\ ~sock[s].open /\ sock[s].requests = <<>> /\ sock[s].answers = <<>>
       /\ srv[s] = NoThread
  /\ extensionFD <= made
  /\ \A i \in DOMAIN backlog : backlog[i] <= made /\ srv[backlog[i]] = NoThread
  /\ \A i, j \in DOMAIN backlog : backlog[i] = backlog[j] => i = j
  /\ \A f \in Fd : descr[f] <= made
  /\ ext = "gone" => backlog = <<>> /\ \A s \in Sock : srv[s] = NoThread

\* Call i is the one thing under way on connection s: sent, at work or answered.
OnlyCall(s, i) ==
  \/ sock[s].requests = <<i>> /\ sock[s].answers = <<>> /\ srv[s].at # "work"
  \/ sock[s].requests = <<>> /\ sock[s].answers = <<>> /\ srv[s].at = "work" /\ srv[s].call = i
  \/ sock[s].requests = <<>> /\ sock[s].answers = <<i>> /\ srv[s].at # "work"

Quiet(s) == sock[s].requests = <<>> /\ sock[s].answers = <<>> /\ srv[s].at # "work"

\* On an open connection nothing is under way but the call of the caller that
\* waits to receive; a request may be left when the target has exited.
OneExchange ==
  \A s \in Sock : sock[s].open =>
    \/ Quiet(s)
    \/ ext = "gone" /\ sock[s].answers = <<>>
    \/ s = extensionFD /\ \E c \in Conn : at[c] = "receive" /\ OnlyCall(s, id[c])

HasNumber(t) == srv[t].at \in Serving

\* A thread at work has a command, and a thread that serves has a number.
Commands ==
  \A t \in Sock :
    /\ srv[t].at = "work" => srv[t].call # 0
    /\ HasNumber(t) => srv[t].num \in Fd

\* The result of a call is its own.
OwnResults == \A c \in Conn : result[c] \in {0, id[c]}

\* Unless ceserver was killed with a command under way, nothing is under way on
\* a connection whose end at ceserver is closed.
Finished ==
  "orphaned" \notin notes /\ ext # "gone" =>
    \A s \in Sock : ~sock[s].open => sock[s].requests = <<>> /\ srv[s].at # "work"

\* Until a number is given away too early, the number of a server thread is
\* that of its own connection or, once the thread has closed it, free; no
\* other thread has it; and every open connection waits or has its thread.
NumbersOwned ==
  /\ \A t \in Sock : HasNumber(t) =>
       /\ descr[srv[t].num] \in {t, 0}
       /\ srv[t].at \in {"work", "close"} => descr[srv[t].num] = t
       /\ srv[t].at = "close" \/ descr[srv[t].num] = 0 => ~sock[t].open
       /\ srv[t].at = "fail" => descr[srv[t].num] = 0
  /\ \A t, u \in Sock : HasNumber(t) /\ HasNumber(u) /\ srv[t].num = srv[u].num => t = u
  /\ \A f \in Fd : descr[f] # 0 => HasNumber(descr[f]) /\ srv[descr[f]].num = f
  /\ \A s \in Sock : sock[s].open /\ ext # "gone" => Waiting(s) \/ HasNumber(s)

\* What holds until accept gives a number away that a thread still uses.
Orderly == OneExchange /\ NumbersOwned /\ OwnResults /\ Finished

IInv ==
  /\ TypeOK /\ Commands
  /\ MutexHeld /\ CallsFollow
  /\ Kept /\ MadeOnce
  /\ "reused" \notin notes => Orderly

-----------------------------------------------------------------------------
(* The parts of the type invariant, and facts about the operators.          *)

Place  == Loading \cup {"idle", "lock", "send", "receive", "unlock"}
Line   == [open : BOOLEAN, requests : Seq(1 .. MaxCalls), answers : Seq(1 .. MaxCalls)]
Thread == [at : Serving \cup {"none", "gone"}, num : Fd \cup {0}, call : 0 .. MaxCalls]

CallersOK ==
  /\ at \in [Conn -> Place]
  /\ id \in [Conn -> 0 .. MaxCalls]
  /\ result \in [Conn -> 0 .. MaxCalls]
  /\ probe \in Sock \cup {0}
ProcessOK ==
  /\ extensionFD \in Sock \cup {0}
  /\ loaded \in BOOLEAN
  /\ extensionMutex \in Conn \cup {NoOne}
LinesOK == sock \in [Sock -> Line]
TargetOK ==
  /\ frozen \in BOOLEAN
  /\ ext \in {"absent", "listening", "deaf", "gone"}
  /\ backlog \in Seq(Sock)
  /\ descr \in [Fd -> Sock \cup {0}]
  /\ srv \in [Sock -> Thread]
CountsOK ==
  /\ made \in 0 .. MaxSock
  /\ calls \in 0 .. MaxCalls
  /\ starts \in 0 .. MaxStarts
  /\ injections \in Nat
  /\ notes \subseteq {"reused", "crowded", "orphaned"}

\* Together these say the same as TypeOK.
LEMMA TypeParts == TypeOK <=> CallersOK /\ ProcessOK /\ LinesOK /\ TargetOK /\ CountsOK
BY DEF TypeOK, CallersOK, ProcessOK, LinesOK, TargetOK, CountsOK, Place, Line, Thread

\* And so they do of the next state.
LEMMA TypePartsNext ==
  CallersOK' /\ ProcessOK' /\ LinesOK' /\ TargetOK' /\ CountsOK' => TypeOK'
BY DEF TypeOK, CallersOK, ProcessOK, LinesOK, TargetOK, CountsOK, Place, Line, Thread

\* A sequence of one element.
LEMMA HeadTailOne == \A x : Head(<<x>>) = x /\ Tail(<<x>>) = <<>>
OBVIOUS

\* No thread is a thread that does nothing.
LEMMA ThreadsTyped == NoThread \in Thread
BY ExtensionAssumption DEF NoThread, Thread

\* Empty lines of requests and answers.
LEMMA EmptyTyped == \A S : <<>> \in Seq(S)
OBVIOUS

\* What is assumed of the constants, one by one.
LEMMA Bounds ==
  /\ MaxSock \in Nat /\ MaxFd \in Nat /\ MaxCalls \in Nat /\ MaxStarts \in Nat
  /\ NoOne \notin Conn
BY ExtensionAssumption

-----------------------------------------------------------------------------
(* The initial state, and what the steps have in common.                    *)

\* Nothing is loaded, connected or called at first.
LEMMA InitIInv == Init => IInv
<1> SUFFICES ASSUME Init PROVE IInv
  OBVIOUS
<1> USE Bounds DEF Init
<1>1. TypeOK
  <2>1. CallersOK
    BY DEF CallersOK, Place
  <2>2. ProcessOK
    BY DEF ProcessOK
  <2>3. CountsOK
    BY DEF CountsOK
  <2>4. LinesOK
    BY DEF LinesOK, Line, Unused
  <2>5. TargetOK
    BY EmptyTyped, ThreadsTyped DEF TargetOK
  <2> QED
    BY <2>1, <2>2, <2>3, <2>4, <2>5, TypeParts
<1>2. Commands /\ MutexHeld /\ CallsFollow /\ Kept
  BY DEF Commands, HasNumber, Serving, MutexHeld, CallsFollow, Kept, Holding, NoThread, Sock
<1>3. MadeOnce /\ OneExchange /\ OwnResults /\ Finished
  BY DEF MadeOnce, OneExchange, OwnResults, Finished, Unused, NoThread, Quiet, Sock
<1>4. NumbersOwned
  BY DEF NumbersOwned, HasNumber, Serving, Unused, NoThread
<1> QED
  BY <1>1, <1>2, <1>3, <1>4 DEF IInv, Orderly

\* What the connections and the target are is left alone.
Elsewhere == UNCHANGED <<sock, target, made>>

\* Then all that is said of them stays.
LEMMA ElsewhereKept ==
  ASSUME IInv, Elsewhere
  PROVE  /\ Commands' /\ LinesOK' /\ TargetOK'
         /\ NumbersOwned => NumbersOwned'
         /\ UNCHANGED extensionFD => MadeOnce'
         /\ Finished /\ notes \subseteq notes' => Finished'
<1> USE DEF Elsewhere, target
<1>1. Commands'
  BY DEF IInv, Commands, HasNumber
<1>2. NumbersOwned => NumbersOwned'
  BY DEF NumbersOwned, HasNumber, Waiting
<1>3. UNCHANGED extensionFD => MadeOnce'
  BY DEF IInv, MadeOnce
<1>4. LinesOK' /\ TargetOK'
  BY TypeParts DEF LinesOK, TargetOK, IInv
<1>5. Finished /\ notes \subseteq notes' => Finished'
  BY DEF Finished
<1> QED
  BY <1>1, <1>2, <1>3, <1>4, <1>5

\* A call begins: it locks, or loads first.
LEMMA CallStep ==
  ASSUME IInv, NEW c \in Conn, Call(c)
  PROVE  IInv'
<1> USE Bounds, TypeParts DEF Call, Goto, caller, process, target, counts, IInv
<1>1. Elsewhere /\ UNCHANGED <<extensionFD, notes>>
  BY DEF Elsewhere
<1>2. TypeOK'
  <2>1. CallersOK' /\ ProcessOK' /\ CountsOK'
    BY DEF CallersOK, ProcessOK, CountsOK, Place, Loading
  <2> QED
    BY <2>1, <1>1, ElsewhereKept, TypePartsNext
<1>3. MutexHeld'
  BY DEF MutexHeld, Holding, CallersOK
<1>4. CallsFollow'
  BY DEF CallsFollow, CallersOK, CountsOK, Listens
<1>5. Kept'
  BY DEF Kept, CallersOK
<1>6. OneExchange /\ OwnResults => OneExchange' /\ OwnResults'
  BY DEF OneExchange, OnlyCall, Quiet, OwnResults, CallsFollow, CallersOK
<1> QED
  BY <1>1, <1>2, <1>3, <1>4, <1>5, <1>6, ElsewhereKept DEF Orderly

\* loadCEServerExtension begins or is refused.
LEMMA LoadStep ==
  ASSUME IInv, NEW c \in Conn, Load(c)
  PROVE  IInv'
<1> USE Bounds, TypeParts DEF Load, Goto, Return, caller, process, target, counts, IInv
<1>1. Elsewhere /\ UNCHANGED <<extensionFD, notes>>
  BY DEF Elsewhere
<1>2. TypeOK'
  <2>1. CallersOK'
    BY DEF CallersOK, Place, Loading
  <2>2. ProcessOK' /\ CountsOK'
    BY DEF ProcessOK, CountsOK
  <2> QED
    BY <2>1, <2>2, <1>1, ElsewhereKept, TypePartsNext
<1>3. MutexHeld'
  BY DEF MutexHeld, Holding, CallersOK
<1>4. CallsFollow'
  BY DEF CallsFollow, CallersOK, CountsOK, Listens
<1>5. Kept'
  BY DEF Kept, CallersOK
<1>6. OneExchange /\ OwnResults => OneExchange' /\ OwnResults'
  <2>1. /\ \A d \in Conn : at[d] = "receive" => at'[d] = "receive" /\ id'[d] = id[d]
        /\ OwnResults => OwnResults'
    BY DEF OwnResults, CallsFollow, CallersOK
  <2>2. UNCHANGED <<sock, ext, srv, extensionFD>>
    OBVIOUS
  <2> QED
    BY <2>1, <2>2 DEF OneExchange, OnlyCall, Quiet
<1> QED
  BY <1>1, <1>2, <1>3, <1>4, <1>5, <1>6, ElsewhereKept DEF Orderly

\* It takes the mutex,
LEMMA LockLoadStep ==
  ASSUME IInv, NEW c \in Conn, LockLoad(c)
  PROVE  IInv'
<1> USE Bounds, TypeParts DEF LockLoad, Goto, caller, process, target, counts, IInv
<1>1. Elsewhere /\ UNCHANGED <<extensionFD, notes>>
  BY DEF Elsewhere
<1>2. TypeOK'
  <2>1. CallersOK'
    BY DEF CallersOK, Place, Loading
  <2>2. ProcessOK' /\ CountsOK'
    BY DEF ProcessOK, CountsOK
  <2> QED
    BY <2>1, <2>2, <1>1, ElsewhereKept, TypePartsNext
<1>3. MutexHeld'
  BY DEF MutexHeld, Holding, CallersOK
<1>4. CallsFollow'
  BY DEF CallsFollow, CallersOK, CountsOK, Listens
<1>5. Kept'
  BY DEF Kept, CallersOK
<1>6. OneExchange /\ OwnResults => OneExchange' /\ OwnResults'
  BY DEF OneExchange, OnlyCall, Quiet, OwnResults, CallsFollow, CallersOK
<1> QED
  BY <1>1, <1>2, <1>3, <1>4, <1>5, <1>6, ElsewhereKept DEF Orderly

\* gives it back
LEMMA UnlockLoadStep ==
  ASSUME IInv, NEW c \in Conn, UnlockLoad(c)
  PROVE  IInv'
<1> USE Bounds, TypeParts DEF UnlockLoad, Goto, caller, process, target, counts, IInv
<1>1. Elsewhere /\ UNCHANGED <<extensionFD, notes>>
  BY DEF Elsewhere
<1>2. TypeOK'
  <2>1. CallersOK'
    BY DEF CallersOK, Place, Loading
  <2>2. ProcessOK' /\ CountsOK'
    BY DEF ProcessOK, CountsOK
  <2> QED
    BY <2>1, <2>2, <1>1, ElsewhereKept, TypePartsNext
<1>3. MutexHeld'
  BY DEF MutexHeld, Holding, CallersOK
<1>4. CallsFollow'
  BY DEF CallsFollow, CallersOK, CountsOK, Listens
<1>5. Kept'
  BY DEF Kept, CallersOK
<1>6. OneExchange /\ OwnResults => OneExchange' /\ OwnResults'
  BY DEF OneExchange, OnlyCall, Quiet, OwnResults, CallsFollow, CallersOK
<1> QED
  BY <1>1, <1>2, <1>3, <1>4, <1>5, <1>6, ElsewhereKept DEF Orderly

\* and returns.
LEMMA LoadReturnsStep ==
  ASSUME IInv, NEW c \in Conn, LoadReturns(c)
  PROVE  IInv'
<1> USE Bounds, TypeParts DEF LoadReturns, Goto, Return, caller, process, target, counts, IInv
<1>1. Elsewhere /\ UNCHANGED <<extensionFD, notes>>
  BY DEF Elsewhere
<1>2. TypeOK'
  <2>1. CallersOK'
    BY DEF CallersOK, Place, Loading
  <2>2. ProcessOK' /\ CountsOK'
    BY DEF ProcessOK, CountsOK
  <2> QED
    BY <2>1, <2>2, <1>1, ElsewhereKept, TypePartsNext
<1>3. MutexHeld'
  BY DEF MutexHeld, Holding, CallersOK
<1>4. CallsFollow'
  BY DEF CallsFollow, CallersOK, CountsOK, Listens
<1>5. Kept'
  BY DEF Kept, CallersOK
<1>6. OneExchange /\ OwnResults => OneExchange' /\ OwnResults'
  BY DEF OneExchange, OnlyCall, Quiet, OwnResults, CallsFollow, CallersOK
<1> QED
  BY <1>1, <1>2, <1>3, <1>4, <1>5, <1>6, ElsewhereKept DEF Orderly

\* A call takes the mutex
LEMMA LockStep ==
  ASSUME IInv, NEW c \in Conn, Lock(c)
  PROVE  IInv'
<1> USE Bounds, TypeParts DEF Lock, Goto, caller, process, target, counts, IInv
<1>1. Elsewhere /\ UNCHANGED <<extensionFD, notes>>
  BY DEF Elsewhere
<1>2. TypeOK'
  <2>1. CallersOK'
    BY DEF CallersOK, Place, Loading
  <2>2. ProcessOK' /\ CountsOK'
    BY DEF ProcessOK, CountsOK
  <2> QED
    BY <2>1, <2>2, <1>1, ElsewhereKept, TypePartsNext
<1>3. MutexHeld'
  BY DEF MutexHeld, Holding, CallersOK
<1>4. CallsFollow'
  BY DEF CallsFollow, CallersOK, CountsOK, Listens
<1>5. Kept'
  BY DEF Kept, CallersOK
<1>6. OneExchange /\ OwnResults => OneExchange' /\ OwnResults'
  BY DEF OneExchange, OnlyCall, Quiet, OwnResults, CallsFollow, CallersOK
<1> QED
  BY <1>1, <1>2, <1>3, <1>4, <1>5, <1>6, ElsewhereKept DEF Orderly

\* and gives it back with the connection quiet.
LEMMA UnlockStep ==
  ASSUME IInv, NEW c \in Conn, Unlock(c)
  PROVE  IInv'
<1> USE Bounds, TypeParts DEF Unlock, Goto, Return, caller, process, target, counts, IInv
<1>1. Elsewhere /\ UNCHANGED <<extensionFD, notes>>
  BY DEF Elsewhere
<1>2. TypeOK'
  <2>1. CallersOK'
    BY DEF CallersOK, Place, Loading
  <2>2. ProcessOK' /\ CountsOK'
    BY DEF ProcessOK, CountsOK
  <2> QED
    BY <2>1, <2>2, <1>1, ElsewhereKept, TypePartsNext
<1>3. MutexHeld'
  BY DEF MutexHeld, Holding, CallersOK
<1>4. CallsFollow'
  BY DEF CallsFollow, CallersOK, CountsOK, Listens
<1>5. Kept'
  BY DEF Kept, CallersOK
<1>6. OneExchange /\ OwnResults => OneExchange' /\ OwnResults'
  BY DEF OneExchange, OnlyCall, Quiet, OwnResults, CallsFollow, CallersOK
<1> QED
  BY <1>1, <1>2, <1>3, <1>4, <1>5, <1>6, ElsewhereKept DEF Orderly

-----------------------------------------------------------------------------
(* New connections.                                                         *)

\* A connection that fails changes no connection.
LEMMA FailsElsewhere ==
  ASSUME IInv, ConnectFails, UNCHANGED <<ext, frozen, descr, srv>>
  PROVE  Elsewhere /\ notes \subseteq notes' /\ notes' \subseteq notes \cup {"crowded"}
BY DEF ConnectFails, Note, Elsewhere, target

\* A new connection is quiet, and the others are as they were.
LEMMA ConnectsKept ==
  ASSUME IInv, NEW s \in Sock, Connects(s), UNCHANGED <<ext, frozen, descr, srv>>
  PROVE  /\ LinesOK' /\ TargetOK' /\ Commands'
         /\ sock'[s].open /\ Quiet(s)'
         /\ \A u \in Sock : u # s => sock'[u] = sock[u]
         /\ s = made + 1 /\ made' = s /\ extensionFD # s
         /\ NumbersOwned => NumbersOwned'
         /\ extensionFD' \in {extensionFD, s} => MadeOnce'
         /\ OneExchange /\ (\A d \in Conn : at[d] # "receive") => OneExchange'
         /\ Finished => Finished'
<1> USE Bounds, TypeParts DEF IInv, Connects
<1>1. s = made + 1 /\ made' = s /\ made \in Nat /\ s \in Nat /\ made' \in 0 .. MaxSock
  BY DEF CountsOK, Sock
<1>2. /\ sock[s].requests = <<>> /\ sock[s].answers = <<>>
      /\ srv[s] = NoThread /\ extensionFD # s
  BY <1>1 DEF MadeOnce, ProcessOK, Sock
<1>3. /\ sock' = [sock EXCEPT ![s].open = TRUE]
      /\ \A u \in Sock : u # s => sock'[u] = sock[u]
      /\ sock'[s].open = TRUE
      /\ sock'[s].requests = <<>> /\ sock'[s].answers = <<>>
  BY <1>2 DEF LinesOK, Line
<1>4. LinesOK'
  BY DEF LinesOK, Line
<1>5. /\ backlog' \in Seq(Sock) /\ Len(backlog') = Len(backlog) + 1 /\ Len(backlog) \in Nat
      /\ \A i \in 1 .. Len(backlog) : backlog'[i] = backlog[i]
      /\ backlog'[Len(backlog) + 1] = s
      /\ DOMAIN backlog = 1 .. Len(backlog) /\ DOMAIN backlog' = 1 .. Len(backlog) + 1
      /\ \A i \in DOMAIN backlog : backlog[i] \in Sock
  BY AppendProperties DEF TargetOK
<1>6. TargetOK'
  BY <1>5 DEF TargetOK
<1>7. Commands'
  BY DEF Commands, HasNumber
<1>8. Quiet(s)'
  BY <1>2, <1>3 DEF Quiet, NoThread
<1>9. ASSUME NumbersOwned PROVE NumbersOwned'
  <2>1. \A u \in Sock : Waiting(u) => Waiting(u)'
    BY <1>5 DEF Waiting
  <2>2. Waiting(s)'
    BY <1>5 DEF Waiting
  <2>3. ~HasNumber(s)
    BY <1>2 DEF HasNumber, NoThread, Serving
  <2> QED
    BY <1>3, <1>9, <2>1, <2>2, <2>3 DEF NumbersOwned, HasNumber, Sock, Commands
<1>10. ASSUME extensionFD' \in {extensionFD, s} PROVE MadeOnce'
  <2>1. \A u \in Sock : u > made' => u # s /\ u > made
    BY <1>1 DEF Sock
  <2>2. \A u \in Sock : u > made' =>
          /\ ~sock'[u].open /\ sock'[u].requests = <<>> /\ sock'[u].answers = <<>>
          /\ srv'[u] = NoThread
    BY <2>1, <1>3 DEF MadeOnce
  <2>3. extensionFD' <= made'
    BY <1>1, <1>10 DEF MadeOnce, ProcessOK, Sock
  <2>4. \A i \in DOMAIN backlog : backlog[i] # s /\ backlog[i] <= made'
    BY <1>1, <1>5 DEF MadeOnce, Sock
  <2>5. \A i \in DOMAIN backlog' : backlog'[i] <= made' /\ srv'[backlog'[i]] = NoThread
    BY <1>1, <1>2, <1>5, <2>4 DEF MadeOnce
  <2>6. \A i, j \in DOMAIN backlog' : backlog'[i] = backlog'[j] => i = j
    BY <1>5, <2>4 DEF MadeOnce
  <2>7. ext' # "gone"
    BY DEF Listens
  <2>8. \A f \in Fd : descr'[f] <= made'
    BY <1>1 DEF MadeOnce, TargetOK, Sock
  <2> QED
    BY <2>2, <2>3, <2>5, <2>6, <2>7, <2>8 DEF MadeOnce
<1>11. ASSUME OneExchange, \A d \in Conn : at[d] # "receive" PROVE OneExchange'
  BY <1>3, <1>8, <1>11 DEF OneExchange, Quiet
<1>12. Finished => Finished'
  BY <1>3 DEF Finished
<1> QED
  BY <1>1, <1>2, <1>3, <1>4, <1>6, <1>7, <1>8, <1>9, <1>10, <1>11, <1>12

\* openExtension leaves the process marked as loaded only with a connection.
LEMMA OpenKept ==
  ASSUME IInv, openExtension, UNCHANGED <<ext, frozen, descr, srv>>,
         \A d \in Conn : at[d] # "receive"
  PROVE  /\ LinesOK' /\ TargetOK' /\ Commands' /\ MadeOnce' /\ Kept'
         /\ OneExchange /\ NumbersOwned /\ Finished => OneExchange' /\ NumbersOwned' /\ Finished'
         /\ extensionFD' \in Sock \cup {0} /\ loaded' \in BOOLEAN /\ made' \in 0 .. MaxSock
         /\ notes \subseteq notes' /\ notes' \subseteq notes \cup {"crowded"}
<1> USE Bounds, TypeParts DEF IInv
<1>1. CASE ConnectFails /\ loaded' = FALSE /\ UNCHANGED extensionFD
  <2>1. Elsewhere /\ notes \subseteq notes' /\ notes' \subseteq notes \cup {"crowded"}
    BY <1>1, FailsElsewhere
  <2>2. Kept' /\ (OneExchange => OneExchange')
    BY <1>1, <2>1 DEF Elsewhere, target, OneExchange, Quiet, Kept
  <2>3. extensionFD' \in Sock \cup {0} /\ loaded' \in BOOLEAN /\ made' \in 0 .. MaxSock
    BY <1>1, <2>1 DEF Elsewhere, ProcessOK, CountsOK
  <2> QED
    BY <1>1, <2>1, <2>2, <2>3, ElsewhereKept
<1>2. ASSUME NEW s \in Sock, Connects(s), extensionFD' = s, loaded' = TRUE
      PROVE  /\ LinesOK' /\ TargetOK' /\ Commands' /\ MadeOnce' /\ Kept'
             /\ OneExchange /\ NumbersOwned /\ Finished => OneExchange' /\ NumbersOwned' /\ Finished'
             /\ extensionFD' \in Sock \cup {0} /\ loaded' \in BOOLEAN /\ made' \in 0 .. MaxSock
             /\ UNCHANGED notes
  <2>1. Kept'
    BY <1>2, ConnectsKept DEF Kept, Sock
  <2>2. made' \in 0 .. MaxSock /\ UNCHANGED notes
    BY <1>2, ConnectsKept DEF Connects, Sock
  <2> QED
    BY <1>2, <2>1, <2>2, ConnectsKept
<1> QED
  BY <1>1, <1>2 DEF openExtension

\* Under a debugger the connection is tried with the mutex free,
LEMMA OpenFirstStep ==
  ASSUME IInv, NEW c \in Conn, OpenFirst(c)
  PROVE  IInv'
<1> USE Bounds, TypeParts DEF OpenFirst, Goto, counts, IInv
<1>1. \A d \in Conn : at[d] # "receive" /\ at[d] # "open" /\ at[d] # "hangup"
  BY DEF MutexHeld, Holding
<1>2. /\ LinesOK' /\ TargetOK' /\ Commands' /\ MadeOnce' /\ Kept'
      /\ OneExchange /\ NumbersOwned /\ Finished => OneExchange' /\ NumbersOwned' /\ Finished'
      /\ extensionFD' \in Sock \cup {0} /\ loaded' \in BOOLEAN /\ made' \in 0 .. MaxSock
      /\ notes \subseteq notes' /\ notes' \subseteq notes \cup {"crowded"}
  BY <1>1, OpenKept
<1>3. TypeOK'
  <2>1. CallersOK'
    BY DEF CallersOK, Place, Loading
  <2>2. ProcessOK' /\ CountsOK'
    BY <1>2 DEF ProcessOK, CountsOK
  <2> QED
    BY <1>2, <2>1, <2>2, TypePartsNext
<1>4. MutexHeld'
  BY DEF MutexHeld, Holding, CallersOK
<1>5. CallsFollow' /\ (OwnResults => OwnResults')
  BY <1>1, <1>2 DEF CallsFollow, OwnResults, CallersOK, Listens
<1> QED
  BY <1>2, <1>3, <1>4, <1>5 DEF Orderly

\* and after the injection, or the probe, with the mutex held.
LEMMA OpenStep ==
  ASSUME IInv, NEW c \in Conn, Open(c)
  PROVE  IInv'
<1> USE Bounds, TypeParts DEF Open, Goto, counts, IInv
<1>1. \A d \in Conn : at[d] # "receive" /\ at[d] # "hangup"
  BY DEF MutexHeld, Holding
<1>2. /\ LinesOK' /\ TargetOK' /\ Commands' /\ MadeOnce' /\ Kept'
      /\ OneExchange /\ NumbersOwned /\ Finished => OneExchange' /\ NumbersOwned' /\ Finished'
      /\ extensionFD' \in Sock \cup {0} /\ loaded' \in BOOLEAN /\ made' \in 0 .. MaxSock
      /\ notes \subseteq notes' /\ notes' \subseteq notes \cup {"crowded"}
  BY <1>1, OpenKept
<1>3. TypeOK'
  <2>1. CallersOK'
    BY DEF CallersOK, Place, Loading
  <2>2. ProcessOK' /\ CountsOK'
    BY <1>2 DEF ProcessOK, CountsOK
  <2> QED
    BY <1>2, <2>1, <2>2, TypePartsNext
<1>4. MutexHeld'
  BY DEF MutexHeld, Holding, CallersOK
<1>5. CallsFollow' /\ (OwnResults => OwnResults')
  BY <1>1, <1>2 DEF CallsFollow, OwnResults, CallersOK, Listens
<1> QED
  BY <1>2, <1>3, <1>4, <1>5 DEF Orderly

\* The probe fails, and says so when it is for want of a descriptor, or makes
\* a connection that is not the one kept.
LEMMA ProbeStep ==
  ASSUME IInv, NEW c \in Conn, Probe(c)
  PROVE  IInv'
<1> USE Bounds, TypeParts DEF Probe, Goto, process, counts, IInv
<1>1. \A d \in Conn : d # c => at[d] \notin Holding
  BY DEF MutexHeld, Holding
<1>2. \A d \in Conn : at[d] # "receive" /\ at[d] # "hangup"
  BY <1>1 DEF Holding
<1>3. MutexHeld'
  BY DEF MutexHeld, Holding, CallersOK
<1>4. CASE ConnectFails /\ Goto(c, "inject") /\ UNCHANGED probe
  <2>1. Elsewhere /\ notes \subseteq notes' /\ notes' \subseteq notes \cup {"crowded"}
    BY <1>4, FailsElsewhere
  <2>2. CallersOK'
    BY <1>4 DEF CallersOK, Place, Loading
  <2>3. ProcessOK' /\ CountsOK'
    BY <2>1 DEF ProcessOK, CountsOK, Elsewhere
  <2>4. Kept' /\ (OneExchange => OneExchange')
    BY <1>2, <1>4, <2>1 DEF Elsewhere, target, OneExchange, Quiet, Kept, CallersOK
  <2>5. ~Listens' \/ "crowded" \in notes'
    BY <1>4 DEF ConnectFails, Note, Listens
  <2>6. CallsFollow' /\ (OwnResults => OwnResults')
    BY <1>2, <1>4, <2>1, <2>5 DEF CallsFollow, OwnResults, CallersOK, Elsewhere, target, Listens
  <2> QED
    BY <1>3, <2>1, <2>2, <2>3, <2>4, <2>6, ElsewhereKept, TypePartsNext DEF Orderly
<1>5. ASSUME NEW s \in Sock, Connects(s), probe' = s, Goto(c, "hangup")
      PROVE  IInv'
  <2>1. /\ LinesOK' /\ TargetOK' /\ Commands' /\ MadeOnce'
        /\ OneExchange /\ NumbersOwned /\ Finished => OneExchange' /\ NumbersOwned' /\ Finished'
        /\ \A u \in Sock : u # s => sock'[u] = sock[u]
        /\ s = made + 1 /\ made' = s /\ extensionFD # s
    BY <1>2, <1>5, ConnectsKept
  <2>2. CallersOK'
    BY <1>5 DEF CallersOK, Place, Loading
  <2>3. ProcessOK' /\ CountsOK' /\ UNCHANGED notes
    BY <1>5, <2>1 DEF ProcessOK, CountsOK, Connects, Sock
  <2>4. Kept'
    BY <1>5, <2>1 DEF Kept, CallersOK, ProcessOK
  <2>5. CallsFollow' /\ (OwnResults => OwnResults')
    BY <1>2, <1>5, <2>1, <2>3 DEF CallsFollow, OwnResults, CallersOK, Listens, Sock
  <2> QED
    BY <1>3, <2>1, <2>2, <2>3, <2>4, <2>5, TypePartsNext DEF Orderly
<1> QED
  BY <1>4, <1>5

\* isExtensionLoaded closes its own connection, never the one kept.
LEMMA HangUpStep ==
  ASSUME IInv, NEW c \in Conn, HangUp(c)
  PROVE  IInv'
<1> USE Bounds, TypeParts DEF HangUp, Goto, target, counts, IInv
<1>1. probe \in Sock /\ probe # extensionFD
  BY DEF CallsFollow, CallersOK
<1>2. \A d \in Conn : at[d] # "receive"
  BY DEF MutexHeld, Holding
<1>3. /\ \A u \in Sock : u # probe => sock'[u] = sock[u]
      /\ sock'[probe] = [sock[probe] EXCEPT !.open = FALSE]
      /\ ~sock'[probe].open
  BY <1>1 DEF LinesOK, Line
<1>4. TypeOK'
  <2>1. CallersOK'
    BY DEF CallersOK, Place, Loading
  <2>2. ProcessOK' /\ TargetOK' /\ CountsOK'
    BY DEF ProcessOK, TargetOK, CountsOK
  <2>3. LinesOK'
    BY <1>1 DEF LinesOK, Line
  <2> QED
    BY <2>1, <2>2, <2>3, TypePartsNext
<1>5. MutexHeld' /\ Commands'
  BY DEF MutexHeld, Holding, CallersOK, Commands, HasNumber
<1>6. CallsFollow' /\ (OwnResults => OwnResults')
  <2>1. \A d \in Conn : d # c => at[d] # "hangup"
    BY DEF MutexHeld, Holding
  <2> QED
    BY <2>1 DEF CallsFollow, OwnResults, CallersOK, Listens
<1>7. Kept'
  BY <1>1, <1>3 DEF Kept, CallersOK, ProcessOK
<1>8. MadeOnce'
  <2>1. ~(probe > made)
    BY <1>1 DEF CallsFollow, CountsOK, Sock
  <2> QED
    BY <1>3, <2>1 DEF MadeOnce
<1>9. OneExchange => OneExchange'
  BY <1>2, <1>3 DEF OneExchange, Quiet
<1>10. NumbersOwned => NumbersOwned'
  BY <1>3 DEF NumbersOwned, HasNumber, Waiting
<1>11. OneExchange /\ Finished => Finished'
  <2>1. /\ \A u \in Sock : sock'[u].requests = sock[u].requests
        /\ \A u \in Sock : u # probe => sock'[u].open = sock[u].open
    BY <1>1, <1>3 DEF LinesOK, Line
  <2>2. OneExchange /\ ext # "gone" /\ sock[probe].open => Quiet(probe)
    BY <1>1, <1>2 DEF OneExchange
  <2> QED
    BY <2>1, <2>2 DEF Finished, Quiet
<1> QED
  BY <1>4, <1>5, <1>6, <1>7, <1>8, <1>9, <1>10, <1>11 DEF Orderly

\* The injection changes the target only from absent to listening, and ends
\* with the process marked as loaded before openExtension.
LEMMA InjectStep ==
  ASSUME IInv, NEW c \in Conn, Inject(c) \/ InjectEnds(c)
  PROVE  IInv'
<1> USE Bounds, TypeParts DEF Inject, InjectEnds, Goto, target, counts, IInv
<1>1. /\ \A d \in Conn : d # c => at[d] \notin Holding
      /\ at[c] # "receive" /\ at'[c] # "receive"
  BY DEF MutexHeld, Holding, CallersOK
<1>2. (ext' = "gone" <=> ext = "gone") /\ UNCHANGED notes
  OBVIOUS
<1>3. TypeOK'
  <2>1. CallersOK'
    BY DEF CallersOK, Place, Loading
  <2>2. ProcessOK' /\ LinesOK'
    BY DEF ProcessOK, LinesOK
  <2>3. TargetOK'
    BY DEF TargetOK
  <2>4. CountsOK'
    BY DEF CountsOK
  <2> QED
    BY <2>1, <2>2, <2>3, <2>4, TypePartsNext
<1>4. MutexHeld' /\ Commands'
  BY DEF MutexHeld, Holding, CallersOK, Commands, HasNumber
<1>5. CallsFollow' /\ (OwnResults => OwnResults')
  BY <1>1 DEF CallsFollow, OwnResults, CallersOK, Holding
<1>6. Kept'
  BY <1>1 DEF Kept, CallersOK, Holding
<1>7. MadeOnce'
  BY <1>2 DEF MadeOnce
<1>8. (OneExchange => OneExchange') /\ (Finished => Finished')
  BY <1>1, <1>2 DEF OneExchange, Quiet, Holding, Finished
<1>9. NumbersOwned => NumbersOwned'
  BY <1>2 DEF NumbersOwned, HasNumber, Waiting
<1> QED
  BY <1>2, <1>3, <1>4, <1>5, <1>6, <1>7, <1>8, <1>9 DEF Orderly

-----------------------------------------------------------------------------
(* The exchange.                                                            *)

\* The far end of an open connection is there as long as the target is.
LEMMA OpenHasPeer ==
  ASSUME IInv, "reused" \notin notes, NEW s \in Sock, sock[s].open, ext # "gone"
  PROVE  Peer(s)
<1>1. Waiting(s) \/ HasNumber(s)
  BY DEF IInv, Orderly, NumbersOwned
<1>2. HasNumber(s) => srv[s].num \in Fd /\ descr[srv[s].num] = s
  BY DEF IInv, Orderly, NumbersOwned, Commands
<1> QED
  BY <1>1, <1>2 DEF Peer, Waiting

\* A request goes into a connection that is quiet, unless a number was reused.
LEMMA SendStep ==
  ASSUME IInv, NEW c \in Conn, Send(c)
  PROVE  IInv'
<1> USE Bounds, TypeParts DEF Send, Goto, process, target, counts, IInv
<1>1. \A d \in Conn : at[d] # "receive"
  BY DEF MutexHeld, Holding
<1>2. CallersOK' /\ ProcessOK' /\ TargetOK' /\ CountsOK' /\ MutexHeld' /\ Commands'
  <2>1. CallersOK'
    BY DEF CallersOK, Place, Sends
  <2>2. ProcessOK' /\ TargetOK' /\ CountsOK'
    BY DEF ProcessOK, TargetOK, CountsOK
  <2>3. MutexHeld' /\ Commands'
    BY DEF MutexHeld, Holding, CallersOK, Commands, HasNumber, Sends
  <2> QED
    BY <2>1, <2>2, <2>3
<1>3. CallsFollow' /\ (OwnResults => OwnResults')
  BY DEF CallsFollow, OwnResults, CallersOK, Listens, Sends
<1>4. CASE Sends(c)
  <2> DEFINE s == extensionFD
  <2>1. s \in Sock /\ sock[s].open /\ ext # "gone" /\ id[c] \in 1 .. MaxCalls
    BY <1>4 DEF Sends, Peer, ProcessOK, Kept, CallsFollow, CallersOK
  <2>2. sock[s].requests \in Seq(1 .. MaxCalls)
    BY <2>1 DEF LinesOK, Line
  <2>3. Append(sock[s].requests, id[c]) \in Seq(1 .. MaxCalls)
    BY <2>1, <2>2, AppendProperties
  <2>4. /\ \A u \in Sock : u # s => sock'[u] = sock[u]
        /\ sock'[s].requests = Append(sock[s].requests, id[c])
        /\ sock'[s].answers = sock[s].answers /\ sock'[s].open = sock[s].open
    BY <1>4, <2>1 DEF Sends, LinesOK, Line
  <2>5. LinesOK'
    BY <1>4, <2>1, <2>3 DEF Sends, LinesOK, Line
  <2>6. at'[c] = "receive"
    BY <1>4 DEF Sends, CallersOK
  <2>7. OneExchange => OneExchange'
    <3> SUFFICES ASSUME OneExchange PROVE OneExchange'
      OBVIOUS
    <3>1. Quiet(s)
      BY <1>1, <2>1 DEF OneExchange
    <3>2. Append(sock[s].requests, id[c]) = <<id[c]>>
      BY <3>1 DEF Quiet
    <3>3. OnlyCall(s, id[c])'
      BY <2>4, <3>1, <3>2 DEF OnlyCall, Quiet
    <3> QED
      BY <1>1, <2>4, <2>6, <3>3 DEF OneExchange, Quiet
  <2>8. Finished => Finished'
    BY <2>1, <2>4 DEF Finished
  <2>9. Kept'
    BY <1>4, <2>1, <2>4 DEF Kept, Sends, CallersOK
  <2>10. MadeOnce'
    <3>1. ~(s > made)
      BY <2>1 DEF MadeOnce, CountsOK, Sock
    <3> QED
      BY <2>4, <3>1 DEF MadeOnce
  <2>11. NumbersOwned => NumbersOwned'
    BY <2>4 DEF NumbersOwned, HasNumber, Waiting
  <2> QED
    BY <1>2, <1>3, <2>5, <2>7, <2>8, <2>9, <2>10, <2>11, TypePartsNext DEF Orderly
<1>5. CASE Goto(c, "unlock") /\ UNCHANGED sock
  <2>1. Elsewhere /\ UNCHANGED <<extensionFD, notes>>
    BY <1>5 DEF Elsewhere
  <2>2. OneExchange => OneExchange'
    BY <1>1, <1>5 DEF OneExchange, Quiet
  <2>3. Kept'
    BY <1>5 DEF Kept, CallersOK
  <2> QED
    BY <1>2, <1>3, <2>1, <2>2, <2>3, ElsewhereKept, TypePartsNext DEF Orderly
<1> QED
  BY <1>4, <1>5

\* What is received is the one answer under way; without one, the target has
\* exited.  Once a number was reused it may be any answer.
LEMMA ReceiveStep ==
  ASSUME IInv, NEW c \in Conn, Receive(c)
  PROVE  IInv'
<1> USE Bounds, TypeParts DEF Receive, Goto, process, target, counts, IInv
<1> DEFINE s == extensionFD
           got == sock[s].answers
<1>1. s \in Sock /\ sock[s].open
  BY DEF CallsFollow, ProcessOK, Kept
<1>2. \A d \in Conn : at[d] = "receive" => d = c
  BY DEF MutexHeld, Holding
<1>3. OneExchange =>
        \A u \in Sock : sock[u].open /\ u # s => Quiet(u) \/ (ext = "gone" /\ sock[u].answers = <<>>)
  BY DEF OneExchange
<1>4. OneExchange =>
        Quiet(s) \/ (ext = "gone" /\ sock[s].answers = <<>>) \/ OnlyCall(s, id[c])
  BY <1>1, <1>2 DEF OneExchange
<1>5. OneExchange => got = <<>> \/ (got = <<id[c]>> /\ sock[s].requests = <<>> /\ srv[s].at # "work")
  BY <1>4 DEF Quiet, OnlyCall
<1>6. MutexHeld' /\ Commands' /\ ProcessOK' /\ TargetOK' /\ CountsOK'
  <2>1. MutexHeld' /\ Commands'
    BY DEF MutexHeld, Holding, CallersOK, Commands, HasNumber
  <2> QED
    BY <2>1 DEF ProcessOK, TargetOK, CountsOK
<1>7. \A d \in Conn : at'[d] # "receive"
  BY <1>2 DEF CallersOK
<1>8. CASE got # <<>>
  <2>1. got \in Seq(1 .. MaxCalls)
    BY <1>1 DEF LinesOK, Line
  <2>2. Head(got) \in 1 .. MaxCalls /\ Tail(got) \in Seq(1 .. MaxCalls)
    BY <1>8, <2>1, HeadTailProperties
  <2>3. result' = [result EXCEPT ![c] = Head(got)] /\ sock' = [sock EXCEPT ![s].answers = Tail(got)]
    BY <1>8
  <2>4. /\ \A u \in Sock : u # s => sock'[u] = sock[u]
        /\ sock'[s].requests = sock[s].requests /\ sock'[s].answers = Tail(got)
        /\ sock'[s].open = sock[s].open
    BY <1>1, <2>3 DEF LinesOK, Line
  <2>5. LinesOK'
    BY <1>1, <2>2, <2>3 DEF LinesOK, Line
  <2>6. CallersOK'
    BY <2>2, <2>3 DEF CallersOK, Place
  <2>7. CallsFollow'
    BY <2>3 DEF CallsFollow, CallersOK, Listens
  <2>8. Kept'
    BY <1>1, <2>4 DEF Kept, CallersOK
  <2>9. MadeOnce'
    <3>1. ~(s > made)
      BY <1>1 DEF MadeOnce, CountsOK, Sock
    <3> QED
      BY <2>4, <3>1 DEF MadeOnce
  <2>10. NumbersOwned => NumbersOwned'
    BY <2>4 DEF NumbersOwned, HasNumber, Waiting
  <2>11. OneExchange /\ OwnResults => OneExchange' /\ OwnResults'
    <3> SUFFICES ASSUME OneExchange, OwnResults PROVE OneExchange' /\ OwnResults'
      OBVIOUS
    <3>1. got = <<id[c]>> /\ Head(got) = id[c] /\ Tail(got) = <<>>
      BY <1>5, <1>8, HeadTailOne
    <3>2. OwnResults'
      BY <2>3, <3>1 DEF OwnResults, CallersOK
    <3>3. OneExchange'
      BY <1>3, <1>5, <1>8, <2>4, <3>1 DEF OneExchange, Quiet
    <3> QED
      BY <3>2, <3>3
  <2>12. Finished => Finished'
    BY <1>1, <2>4 DEF Finished
  <2> QED
    BY <1>6, <2>5, <2>6, <2>7, <2>8, <2>9, <2>10, <2>11, <2>12, TypePartsNext DEF Orderly
<1>9. CASE got = <<>> /\ ~Peer(s) /\ UNCHANGED <<result, sock>>
  <2>1. "reused" \notin notes => ext = "gone"
    BY <1>1, <1>9, OpenHasPeer
  <2>2. Elsewhere /\ UNCHANGED <<extensionFD, notes>>
    BY <1>9 DEF Elsewhere
  <2>3. CallersOK'
    BY <1>9 DEF CallersOK, Place
  <2>4. CallsFollow' /\ (OwnResults => OwnResults')
    BY <1>9 DEF CallsFollow, OwnResults, CallersOK, Listens
  <2>5. Kept'
    BY <1>9 DEF Kept, CallersOK
  <2>6. "reused" \notin notes /\ OneExchange => OneExchange'
    BY <1>3, <1>9, <2>1 DEF OneExchange, Quiet
  <2> QED
    BY <1>6, <2>2, <2>3, <2>4, <2>5, <2>6, ElsewhereKept, TypePartsNext DEF Orderly
<1> QED
  BY <1>8, <1>9

-----------------------------------------------------------------------------
(* The server in the target.                                                *)

\* accept finds a lowest free number whenever one is free.
LEMMA LowestFree ==
  ASSUME NEW S, S \subseteq Nat, S # {}
  PROVE  Min(S) \in S
<1> DEFINE R == OpToRel(<, Nat)
<1>1. PICK x \in S : \A y \in S : ~ (<<y, x>> \in R)
  <2>1. IsWellFoundedOn(R, Nat)
    BY NatLessThanWellFounded
  <2> HIDE DEF R
  <2> QED
    BY <2>1, WFMin
<1>2. \A y \in S : x <= y
  <2> TAKE y \in S
  <2>1. ~ (y < x)
    BY <1>1 DEF OpToRel
  <2> QED
    BY <2>1, SMT
<1> QED
  BY <1>2 DEF Min

\* What is left of the backlog after accept: all but its first connection.
LEMMA RestWaits ==
  ASSUME NEW q \in Seq(Sock), q # <<>>
  PROVE  /\ Head(q) \in Sock /\ Head(q) = q[1] /\ 1 \in DOMAIN q
         /\ Tail(q) \in Seq(Sock)
         /\ DOMAIN q = 1 .. Len(q) /\ Len(q) \in Nat /\ DOMAIN Tail(q) = 1 .. (Len(q) - 1)
         /\ \A i \in DOMAIN Tail(q) : i + 1 \in DOMAIN q /\ Tail(q)[i] = q[i + 1]
<1>1. Len(q) \in Nat /\ Len(q) # 0 /\ DOMAIN q = 1 .. Len(q)
  OBVIOUS
<1>2. /\ Head(q) \in Sock /\ Tail(q) \in Seq(Sock) /\ Len(Tail(q)) = Len(q) - 1
      /\ \A i \in 1 .. Len(Tail(q)) : Tail(q)[i] = q[i + 1]
  BY HeadTailProperties
<1>3. Head(q) = q[1]
  OBVIOUS
<1>4. DOMAIN Tail(q) = 1 .. (Len(q) - 1)
  BY <1>2
<1> QED
  BY <1>1, <1>2, <1>3, <1>4

\* The callers, the process and the connections are left alone.
ServerOnly == UNCHANGED <<caller, process, made, counts>>

\* Then a call goes on as it was, unless the extension begins to listen.
LEMMA ServerKept ==
  ASSUME IInv, ServerOnly
  PROVE  /\ CallersOK' /\ ProcessOK' /\ MutexHeld'
         /\ (Listens' => Listens) /\ notes \subseteq notes' => CallsFollow'
         /\ (\A s \in Sock : sock'[s].open = sock[s].open) => Kept'
         /\ notes' \subseteq {"reused", "crowded", "orphaned"} => CountsOK'
         /\ OwnResults => OwnResults'
<1> USE TypeParts DEF ServerOnly, caller, process, counts, IInv
<1>1. CallersOK' /\ ProcessOK' /\ MutexHeld'
  BY DEF CallersOK, ProcessOK, MutexHeld
<1>2. (Listens' => Listens) /\ notes \subseteq notes' => CallsFollow'
  BY DEF CallsFollow
<1>3. (\A s \in Sock : sock'[s].open = sock[s].open) => Kept'
  BY DEF Kept, ProcessOK
<1>4. notes' \subseteq {"reused", "crowded", "orphaned"} => CountsOK'
  BY DEF CountsOK
<1>5. OwnResults => OwnResults'
  BY DEF OwnResults
<1> QED
  BY <1>1, <1>2, <1>3, <1>4, <1>5

\* accept moves a connection from the backlog to a thread of its own; when
\* the number it gets is still in use, that is noted.
LEMMA AcceptStep ==
  ASSUME IInv, Accept
  PROVE  IInv'
<1> USE Bounds, TypeParts DEF IInv
<1>1. ServerOnly /\ UNCHANGED <<sock, frozen>> /\ LinesOK'
  BY DEF Accept, ServerOnly, LinesOK
<1>2. CASE Free = {}
  <2>1. ext' = "deaf" /\ ext = "listening" /\ UNCHANGED <<backlog, descr, srv, notes>>
    BY <1>2 DEF Accept
  <2>2. TargetOK' /\ Commands'
    BY <1>1, <2>1 DEF TargetOK, Commands, HasNumber
  <2>3. /\ CountsOK' /\ CallsFollow' /\ Kept' /\ CallersOK' /\ ProcessOK' /\ MutexHeld'
        /\ OwnResults => OwnResults'
    <3>1. notes' \subseteq {"reused", "crowded", "orphaned"} /\ notes \subseteq notes' /\ Listens
      BY <2>1 DEF CountsOK, Listens
    <3> QED
      BY <1>1, <3>1, ServerKept
  <2>4. MadeOnce'
    BY <1>1, <2>1 DEF MadeOnce, ServerOnly, process
  <2>5. (OneExchange => OneExchange') /\ (Finished => Finished')
    BY <1>1, <2>1 DEF OneExchange, OnlyCall, Quiet, Finished, ServerOnly, caller, process
  <2>6. NumbersOwned => NumbersOwned'
    BY <1>1, <2>1 DEF NumbersOwned, HasNumber, Waiting
  <2> QED
    BY <1>1, <2>1, <2>2, <2>3, <2>4, <2>5, <2>6, TypePartsNext DEF Orderly
<1>3. CASE Free # {}
  <2>0. PICK f, s : f = Min(Free) /\ s = Head(backlog)
    OBVIOUS
  <2>1. f \in Fd /\ descr[f] = 0
    BY <1>3, <2>0, LowestFree DEF Free, Fd
  <2>2. /\ backlog # <<>> /\ ext = "listening" /\ ext' = ext
        /\ backlog' = Tail(backlog)
        /\ descr' = [descr EXCEPT ![f] = s]
        /\ srv' = [srv EXCEPT ![s] = NewThread(f)]
        /\ Note("reused", InUse(f))
    BY <1>3, <2>0 DEF Accept
  <2>3. /\ s \in Sock /\ s = backlog[1] /\ 1 \in DOMAIN backlog
        /\ backlog' \in Seq(Sock)
        /\ DOMAIN backlog = 1 .. Len(backlog) /\ Len(backlog) \in Nat
        /\ DOMAIN backlog' = 1 .. (Len(backlog) - 1)
        /\ \A i \in DOMAIN backlog' : i + 1 \in DOMAIN backlog /\ backlog'[i] = backlog[i + 1]
    BY <2>0, <2>2, RestWaits DEF TargetOK
  <2>4. srv[s] = NoThread /\ s <= made
    BY <2>3 DEF MadeOnce
  <2>5. NewThread(f).at = "recv" /\ NewThread(f).num = f
    BY DEF NewThread, NoThread
  <2>6. /\ srv'[s].at = "recv" /\ srv'[s].num = f
        /\ \A t \in Sock : t # s => srv'[t] = srv[t]
        /\ descr'[f] = s
        /\ \A g \in Fd : g # f => descr'[g] = descr[g]
    BY <2>1, <2>2, <2>3, <2>5 DEF TargetOK
  <2>7. TargetOK'
    <3>1. NewThread(f) \in Thread
      BY <2>1, ThreadsTyped DEF NewThread, Thread, Serving
    <3>2. descr' \in [Fd -> Sock \cup {0}] /\ srv' \in [Sock -> Thread]
      BY <2>1, <2>2, <2>3, <3>1 DEF TargetOK
    <3> QED
      BY <1>1, <2>2, <2>3, <3>2 DEF TargetOK
  <2>8. Commands'
    BY <2>1, <2>6 DEF Commands, HasNumber
  <2>9. notes' \subseteq {"reused", "crowded", "orphaned"} /\ notes \subseteq notes' /\ Listens
    BY <2>2 DEF CountsOK, Listens, Note
  <2>10. /\ CountsOK' /\ CallsFollow' /\ Kept' /\ CallersOK' /\ ProcessOK' /\ MutexHeld'
         /\ OwnResults => OwnResults'
    BY <1>1, <2>9, ServerKept
  <2>11. MadeOnce'
    <3>1. UNCHANGED <<made, extensionFD>>
      BY <1>1 DEF ServerOnly, process
    <3>2. \A u \in Sock : u > made => u # s
      BY <2>3, <2>4 DEF CountsOK, Sock
    <3>3. \A i \in DOMAIN backlog' : backlog'[i] # s
      BY <2>3 DEF MadeOnce
    <3>4. \A i \in DOMAIN backlog' : backlog'[i] \in Sock
      BY <2>3, ElementOfSeq
    <3>5. \A i \in DOMAIN backlog' : backlog'[i] <= made' /\ srv'[backlog'[i]] = NoThread
      BY <2>3, <2>6, <3>1, <3>3, <3>4 DEF MadeOnce
    <3>6. \A i, j \in DOMAIN backlog' : backlog'[i] = backlog'[j] => i = j
      BY <2>3 DEF MadeOnce
    <3>7. \A g \in Fd : descr'[g] <= made'
      BY <2>4, <2>6, <3>1 DEF MadeOnce
    <3> QED
      BY <1>1, <2>2, <2>6, <3>1, <3>2, <3>5, <3>6, <3>7 DEF MadeOnce
  <2>12. (OneExchange => OneExchange') /\ (Finished => Finished')
    <3>1. UNCHANGED <<at, id, extensionFD, sock, ext>>
      BY <1>1, <2>2 DEF ServerOnly, caller, process
    <3>2. srv[s].at # "work" /\ srv'[s].at # "work"
      BY <2>4, <2>6 DEF NoThread
    <3> QED
      BY <2>6, <2>9, <3>1, <3>2 DEF OneExchange, OnlyCall, Quiet, Finished
  <2>13. NumbersOwned /\ "reused" \notin notes' => NumbersOwned'
    <3> SUFFICES ASSUME NumbersOwned, "reused" \notin notes'
                 PROVE  NumbersOwned'
      OBVIOUS
    <3>1. ~InUse(f)
      BY <2>2 DEF Note
    <3>2. \A t \in Sock : HasNumber(t) => srv[t].num # f
      BY <3>1 DEF InUse, HasNumber
    <3>3. ~HasNumber(s) /\ HasNumber(s)' /\ srv'[s].num = f
      BY <2>4, <2>6 DEF HasNumber, NoThread, Serving
    <3>4. \A t \in Sock : t # s => HasNumber(t)' = HasNumber(t)
      BY <2>6 DEF HasNumber
    <3>5. \A u \in Sock : Waiting(u) => u = s \/ Waiting(u)'
      <4> TAKE u \in Sock
      <4> SUFFICES ASSUME Waiting(u), u # s PROVE Waiting(u)'
        OBVIOUS
      <4>1. PICK i \in DOMAIN backlog : backlog[i] = u
        BY DEF Waiting
      <4>2. i - 1 \in DOMAIN backlog' /\ backlog'[i - 1] = u
        BY <2>3, <4>1
      <4> QED
        BY <4>2 DEF Waiting
    <3>6. \A t \in Sock : HasNumber(t)' =>
             /\ descr'[srv'[t].num] \in {t, 0}
             /\ srv'[t].at \in {"work", "close"} => descr'[srv'[t].num] = t
             /\ srv'[t].at = "close" \/ descr'[srv'[t].num] = 0 => ~sock'[t].open
             /\ srv'[t].at = "fail" => descr'[srv'[t].num] = 0
      <4> TAKE t \in Sock
      <4> HAVE HasNumber(t)'
      <4>1. CASE t = s
        <5>1. srv'[t].at = "recv" /\ srv'[t].num = f /\ descr'[srv'[t].num] = t /\ t # 0
          BY <2>3, <2>6, <4>1 DEF Sock
        <5> QED
          BY <2>1, <5>1
      <4>2. CASE t # s
        BY <1>1, <2>6, <3>2, <3>4, <4>2 DEF NumbersOwned, Commands
      <4> QED
        BY <4>1, <4>2
    <3>7. \A t, u \in Sock : HasNumber(t)' /\ HasNumber(u)' /\ srv'[t].num = srv'[u].num => t = u
      BY <2>6, <3>2, <3>3, <3>4 DEF NumbersOwned
    <3>8. \A g \in Fd : descr'[g] # 0 => HasNumber(descr[g])' /\ srv'[descr'[g]].num = g
      <4> TAKE g \in Fd
      <4>1. CASE g = f
        BY <2>3, <2>6, <3>3, <4>1
      <4>2. CASE g # f
        BY <2>6, <3>3, <3>4, <4>2 DEF NumbersOwned, TargetOK
      <4> QED
        BY <4>1, <4>2
    <3>9. \A u \in Sock : sock'[u].open /\ ext' # "gone" => Waiting(u)' \/ HasNumber(u)'
      BY <1>1, <2>2, <3>3, <3>4, <3>5 DEF NumbersOwned
    <3> QED
      BY <3>6, <3>7, <3>8, <3>9 DEF NumbersOwned
  <2> QED
    BY <1>1, <2>7, <2>8, <2>9, <2>10, <2>11, <2>12, <2>13, TypePartsNext DEF Orderly
<1> QED
  BY <1>2, <1>3

\* A step of the server threads: it changes threads that serve, connections
\* that were made and stay as open as they were, and gives numbers only back.
ServerStep ==
  /\ ServerOnly
  /\ UNCHANGED <<ext, frozen, backlog, notes>>
  /\ ext # "gone"
  /\ \A u \in Sock : ~HasNumber(u) => srv'[u] = srv[u]
  /\ \A u \in Sock : u > made => sock'[u] = sock[u]
  /\ \A u \in Sock : sock'[u].open = sock[u].open
  /\ \A f \in Fd : descr'[f] \in {descr[f], 0}

\* Then the callers, the mutex and the connection kept are as they were.
LEMMA ServerStepKept ==
  ASSUME IInv, ServerStep
  PROVE  /\ CallersOK' /\ ProcessOK' /\ CountsOK'
         /\ MutexHeld' /\ CallsFollow' /\ Kept' /\ MadeOnce'
         /\ OwnResults => OwnResults'
<1> USE TypeParts DEF IInv, ServerStep
<1>1. notes' \subseteq {"reused", "crowded", "orphaned"} /\ (Listens' => Listens) /\ notes \subseteq notes'
  BY DEF CountsOK, Listens
<1>2. /\ CallersOK' /\ ProcessOK' /\ CountsOK' /\ MutexHeld' /\ CallsFollow' /\ Kept'
      /\ OwnResults => OwnResults'
  BY <1>1, ServerKept
<1>3. MadeOnce'
  <2>1. \A u \in Sock : srv[u] = NoThread => srv'[u] = NoThread
    BY DEF HasNumber, NoThread, Serving
  <2>2. UNCHANGED <<made, extensionFD>>
    BY DEF ServerOnly, process
  <2>3. \A i \in DOMAIN backlog : backlog[i] \in Sock
    BY ElementOfSeq DEF TargetOK
  <2>4. \A f \in Fd : descr'[f] <= made
    BY DEF MadeOnce, CountsOK
  <2> QED
    BY <2>1, <2>2, <2>3, <2>4 DEF MadeOnce
<1> QED
  BY <1>2, <1>3

\* The connection behind a number was made.
LEMMA MadeBefore ==
  ASSUME IInv, NEW t \in Sock, HasNumber(t)
  PROVE  /\ srv[t].num \in Fd /\ descr[srv[t].num] \in Sock \cup {0}
         /\ \A u \in Sock : u > made => u # descr[srv[t].num]
<1>1. srv[t].num \in Fd
  BY DEF IInv, Commands
<1>2. descr[srv[t].num] \in Sock \cup {0} /\ descr[srv[t].num] <= made /\ made \in Nat
  BY <1>1, TypeParts, Bounds DEF IInv, TargetOK, MadeOnce, CountsOK
<1> QED
  BY <1>1, <1>2, Bounds DEF Sock

\* The thread takes the request of its own connection, unless a number was
\* reused.
LEMMA TakeStep ==
  ASSUME IInv, NEW t \in Sock, Take(t)
  PROVE  IInv'
<1> USE Bounds, TypeParts DEF IInv
<1>1. HasNumber(t) /\ srv[t].at = "recv" /\ ext # "gone"
  BY DEF Take, HasNumber, Serving, Runs
<1>2. PICK s : s = descr[srv[t].num]
  OBVIOUS
<1>3. s \in Sock /\ srv[t].num \in Fd /\ \A u \in Sock : u > made => u # s
  BY <1>1, <1>2, MadeBefore DEF Take
<1>4. PICK r : r = Head(sock[s].requests)
  OBVIOUS
<1>5. /\ sock[s].requests # <<>>
      /\ srv' = [srv EXCEPT ![t].at = "work", ![t].call = r]
      /\ sock' = [sock EXCEPT ![s].requests = Tail(sock[s].requests)]
      /\ UNCHANGED <<caller, process, ext, frozen, backlog, descr, made, counts, notes>>
  BY <1>2, <1>4 DEF Take
<1>6. sock[s].requests \in Seq(1 .. MaxCalls)
  BY <1>3 DEF LinesOK, Line
<1>7. r \in 1 .. MaxCalls /\ Tail(sock[s].requests) \in Seq(1 .. MaxCalls)
  BY <1>4, <1>5, <1>6, HeadTailProperties
<1>8. /\ srv'[t].at = "work" /\ srv'[t].call = r /\ srv'[t].num = srv[t].num
      /\ \A u \in Sock : u # t => srv'[u] = srv[u]
      /\ \A u \in Sock : u # s => sock'[u] = sock[u]
      /\ sock'[s].requests = Tail(sock[s].requests)
      /\ sock'[s].answers = sock[s].answers /\ sock'[s].open = sock[s].open
  BY <1>3, <1>5 DEF TargetOK, Thread, LinesOK, Line
<1>9. ServerStep
  BY <1>1, <1>3, <1>5, <1>8 DEF ServerStep, ServerOnly
<1>10. LinesOK' /\ TargetOK'
  <2>1. srv' \in [Sock -> Thread]
    <3>1. "work" \in Serving \cup {"none", "gone"} /\ r \in 0 .. MaxCalls
      BY <1>7 DEF Serving
    <3> QED
      BY <1>5, <3>1 DEF TargetOK, Thread
  <2>2. LinesOK'
    BY <1>3, <1>5, <1>7 DEF LinesOK, Line
  <2> QED
    BY <1>5, <2>1, <2>2 DEF TargetOK
<1>11. Commands'
  BY <1>3, <1>7, <1>8 DEF Commands, HasNumber
<1>12. ASSUME "reused" \notin notes PROVE s = t /\ Orderly
  BY <1>1, <1>2, <1>3, <1>12 DEF Orderly, NumbersOwned, Sock
<1>13. ASSUME "reused" \notin notes PROVE OneExchange'
  <2>1. UNCHANGED <<at, id, extensionFD, ext>>
    BY <1>5 DEF caller, process
  <2>2. ASSUME sock[t].open
        PROVE  t = extensionFD /\ \E c \in Conn : at[c] = "receive" /\ OnlyCall(t, id[c])'
    <3>1. PICK c \in Conn : at[c] = "receive" /\ OnlyCall(t, id[c]) /\ t = extensionFD
      BY <1>1, <1>5, <1>12, <1>13, <2>2 DEF Orderly, OneExchange, Quiet
    <3>2. sock[t].requests = <<id[c]>> /\ sock[t].answers = <<>>
      BY <1>5, <1>12, <1>13, <3>1 DEF OnlyCall
    <3>3. r = id[c] /\ Tail(sock[t].requests) = <<>>
      BY <1>4, <1>12, <1>13, <3>2, HeadTailOne
    <3>4. OnlyCall(t, id[c])'
      BY <1>8, <1>12, <1>13, <2>1, <3>2, <3>3 DEF OnlyCall
    <3> QED
      BY <3>1, <3>4
  <2>3. \A u \in Sock : u # t =>
          /\ Quiet(u)' = Quiet(u)
          /\ \A c \in Conn : OnlyCall(u, id[c])' = OnlyCall(u, id[c])
    BY <1>8, <1>12, <1>13, <2>1 DEF Quiet, OnlyCall
  <2> QED
    BY <1>8, <1>12, <1>13, <2>1, <2>2, <2>3 DEF Orderly, OneExchange
<1>14. ASSUME "reused" \notin notes PROVE NumbersOwned'
  <2> USE <1>14
  <2>1. UNCHANGED <<ext, backlog, descr>>
    BY <1>5
  <2>2. HasNumber(t)'
    BY <1>8 DEF HasNumber, Serving
  <2>3. t # 0
    BY DEF Sock
  <2>4. \A u \in Sock : HasNumber(u)' = HasNumber(u) /\ Waiting(u)' = Waiting(u) /\ srv'[u].num = srv[u].num
    BY <1>1, <1>8, <2>1, <2>2 DEF HasNumber, Waiting
  <2>5. \A u \in Sock : HasNumber(u) =>
          /\ descr'[srv'[u].num] \in {u, 0}
          /\ srv'[u].at \in {"work", "close"} => descr'[srv'[u].num] = u
          /\ srv'[u].at = "close" \/ descr'[srv'[u].num] = 0 => ~sock'[u].open
          /\ srv'[u].at = "fail" => descr'[srv'[u].num] = 0
    BY <1>2, <1>8, <1>12, <2>1, <2>3, <2>4 DEF Orderly, NumbersOwned
  <2>6. \A f \in Fd : descr'[f] # 0 => HasNumber(descr[f])' /\ srv'[descr'[f]].num = f
    BY <1>12, <2>1, <2>4 DEF Orderly, NumbersOwned, TargetOK
  <2> QED
    BY <1>8, <1>12, <2>1, <2>4, <2>5, <2>6 DEF Orderly, NumbersOwned
<1>15. ASSUME "reused" \notin notes PROVE Finished'
  BY <1>5, <1>8, <1>12, <1>15 DEF Orderly, Finished
<1> QED
  BY <1>5, <1>9, <1>10, <1>11, <1>12, <1>13, <1>14, <1>15, ServerStepKept, TypePartsNext DEF Orderly

\* Two threads that read from one connection: not unless a number was reused.
LEMMA SplitStep ==
  ASSUME IInv, NEW t \in Sock, NEW u \in Sock, Split(t, u)
  PROVE  IInv'
<1> USE Bounds, TypeParts DEF IInv
<1>1. /\ HasNumber(t) /\ HasNumber(u) /\ t # u /\ srv[t].num = srv[u].num
      /\ srv[t].at = "recv" /\ srv[u].at = "recv" /\ ext # "gone"
  BY DEF Split, HasNumber, Serving, Runs
<1>2. "reused" \in notes
  BY <1>1 DEF Orderly, NumbersOwned
<1>3. PICK s : s = descr[srv[t].num]
  OBVIOUS
<1>4. s \in Sock /\ srv[t].num \in Fd /\ \A v \in Sock : v > made => v # s
  BY <1>1, <1>3, MadeBefore DEF Split
<1>5. PICK n, m \in {0, Head(sock[s].requests)} :
        srv' = [srv EXCEPT ![t] = Given(@, n), ![u] = Given(@, m)]
  BY <1>3 DEF Split
<1>6. /\ sock[s].requests # <<>>
      /\ sock' = [sock EXCEPT ![s].requests = Tail(sock[s].requests)]
      /\ UNCHANGED <<caller, process, ext, frozen, backlog, descr, made, counts, notes>>
  BY <1>3 DEF Split
<1>7. sock[s].requests \in Seq(1 .. MaxCalls)
  BY <1>4 DEF LinesOK, Line
<1>8. /\ n \in 0 .. MaxCalls /\ m \in 0 .. MaxCalls
      /\ Tail(sock[s].requests) \in Seq(1 .. MaxCalls)
  <2>1. Head(sock[s].requests) \in 1 .. MaxCalls /\ Tail(sock[s].requests) \in Seq(1 .. MaxCalls)
    BY <1>6, <1>7, HeadTailProperties
  <2> QED
    BY <1>5, <2>1
<1>9. /\ srv'[t] = Given(srv[t], n) /\ srv'[u] = Given(srv[u], m)
      /\ \A v \in Sock : v # t /\ v # u => srv'[v] = srv[v]
      /\ \A v \in Sock : v # s => sock'[v] = sock[v]
      /\ sock'[s].open = sock[s].open
  BY <1>1, <1>4, <1>5, <1>6 DEF TargetOK, LinesOK, Line
<1>10. ASSUME NEW v \in Sock, srv[v].at = "recv", NEW k \in 0 .. MaxCalls
       PROVE  /\ Given(srv[v], k) \in Thread
              /\ Given(srv[v], k).num = srv[v].num
              /\ Given(srv[v], k).at = "work" => Given(srv[v], k).call # 0
  <2>1. srv[v] \in Thread
    BY DEF TargetOK
  <2>2. CASE k = 0
    BY <1>10, <2>1, <2>2 DEF Given
  <2>3. CASE k # 0
    BY <2>1, <2>3 DEF Given, Thread, Serving
  <2> QED
    BY <2>2, <2>3
<1>11. ServerStep
  BY <1>1, <1>4, <1>6, <1>9 DEF ServerStep, ServerOnly
<1>12. LinesOK' /\ TargetOK'
  <2>1. Given(srv[t], n) \in Thread /\ Given(srv[u], m) \in Thread
    BY <1>1, <1>8, <1>10
  <2>2. srv' \in [Sock -> Thread]
    BY <1>1, <1>5, <2>1 DEF TargetOK
  <2>3. LinesOK'
    BY <1>4, <1>6, <1>8 DEF LinesOK, Line
  <2> QED
    BY <1>6, <2>2, <2>3 DEF TargetOK
<1>13. Commands'
  <2>1. /\ srv'[t].num = srv[t].num /\ (srv'[t].at = "work" => srv'[t].call # 0)
        /\ srv'[u].num = srv[u].num /\ (srv'[u].at = "work" => srv'[u].call # 0)
    BY <1>1, <1>8, <1>9, <1>10
  <2> QED
    BY <1>1, <1>4, <1>9, <2>1 DEF Commands, HasNumber
<1> QED
  BY <1>2, <1>6, <1>11, <1>12, <1>13, ServerStepKept, TypePartsNext

\* The thread finds its connection closed, or its number free.
LEMMA RecvEndsStep ==
  ASSUME IInv, NEW t \in Sock, RecvEnds(t)
  PROVE  IInv'
<1> USE Bounds, TypeParts DEF IInv
<1>1. HasNumber(t) /\ srv[t].at = "recv" /\ ext # "gone"
  BY DEF RecvEnds, HasNumber, Serving, Runs
<1>2. PICK place, s :
        /\ srv' = [srv EXCEPT ![t].at = place]
        /\ s = descr[srv[t].num]
        /\ \/ place = "close" /\ s # 0 /\ ~sock[s].open
           \/ place = "fail" /\ s = 0
  BY DEF RecvEnds
<1>3. UNCHANGED <<caller, process, sock, ext, frozen, backlog, descr, made, counts, notes>>
  BY DEF RecvEnds
<1>4. /\ srv'[t].at = place /\ srv'[t].num = srv[t].num
      /\ \A u \in Sock : u # t => srv'[u] = srv[u]
  BY <1>2 DEF TargetOK, Thread
<1>5. ServerStep
  BY <1>1, <1>3, <1>4 DEF ServerStep, ServerOnly
<1>6. LinesOK' /\ TargetOK' /\ Commands'
  <2>1. srv' \in [Sock -> Thread]
    BY <1>2 DEF TargetOK, Thread, Serving
  <2>2. Commands'
    BY <1>1, <1>2, <1>4 DEF Commands, HasNumber
  <2> QED
    BY <1>3, <2>1, <2>2 DEF LinesOK, TargetOK
<1>7. (OneExchange => OneExchange') /\ (Finished => Finished')
  <2>1. UNCHANGED <<at, id, extensionFD, ext, sock, notes>>
    BY <1>3 DEF caller, process
  <2>2. \A u \in Sock : srv'[u].at = "work" <=> srv[u].at = "work" /\ srv'[u] = srv[u]
    BY <1>1, <1>2, <1>4
  <2>3. \A u \in Sock : /\ Quiet(u)' = Quiet(u)
                        /\ \A c \in Conn : OnlyCall(u, id[c])' = OnlyCall(u, id[c])
    BY <1>1, <1>2, <1>4, <2>1 DEF Quiet, OnlyCall
  <2> QED
    BY <2>1, <2>2, <2>3 DEF OneExchange, Finished
<1>8. NumbersOwned => NumbersOwned'
  <2> SUFFICES ASSUME NumbersOwned PROVE NumbersOwned'
    OBVIOUS
  <2>1. \A u \in Sock : HasNumber(u)' = HasNumber(u) /\ Waiting(u)' = Waiting(u) /\ srv'[u].num = srv[u].num
    BY <1>1, <1>2, <1>3, <1>4 DEF HasNumber, Waiting, Serving
  <2>2. t # 0 /\ s \in {t, 0}
    BY <1>1, <1>2 DEF NumbersOwned, Sock
  <2>3. \A u \in Sock : HasNumber(u) =>
          /\ descr'[srv'[u].num] \in {u, 0}
          /\ srv'[u].at \in {"work", "close"} => descr'[srv'[u].num] = u
          /\ srv'[u].at = "close" \/ descr'[srv'[u].num] = 0 => ~sock'[u].open
          /\ srv'[u].at = "fail" => descr'[srv'[u].num] = 0
    BY <1>2, <1>3, <1>4, <2>1, <2>2 DEF NumbersOwned
  <2>4. \A f \in Fd : descr'[f] # 0 => HasNumber(descr[f])' /\ srv'[descr'[f]].num = f
    BY <1>3, <2>1 DEF NumbersOwned, TargetOK
  <2> QED
    BY <1>3, <2>1, <2>3, <2>4 DEF NumbersOwned
<1> QED
  BY <1>3, <1>5, <1>6, <1>7, <1>8, ServerStepKept, TypePartsNext DEF Orderly

\* The thread closes the number that is still its own, or ends having found
\* it free.
LEMMA CloseStep ==
  ASSUME IInv, NEW t \in Sock, Close(t)
  PROVE  IInv'
<1> USE Bounds, TypeParts DEF IInv
<1>1. HasNumber(t) /\ srv[t].at \in {"close", "fail"} /\ ext # "gone"
  BY DEF Close, HasNumber, Serving, Runs
<1>2. /\ srv[t].num \in Fd
      /\ NumbersOwned =>
           /\ t # 0 /\ ~sock[t].open
           /\ descr[srv[t].num] = IF srv[t].at = "close" THEN t ELSE 0
  BY <1>1, MadeBefore DEF NumbersOwned, Sock
<1>3. PICK n : n = srv[t].num
  OBVIOUS
<1>4. /\ descr' = [descr EXCEPT ![n] = 0]
      /\ UNCHANGED <<caller, process, sock, ext, frozen, backlog, made, counts, notes>>
  BY <1>3 DEF Close
<1>5. /\ \A u \in Sock : u # t => srv'[u] = srv[u]
      /\ srv[t].at = "close" => srv'[t].at = "recv" /\ srv'[t].num = n
      /\ srv[t].at = "fail" => srv'[t].at = "gone"
  BY <1>3 DEF Close, TargetOK, Thread, NoThread
<1>6. n \in Fd /\ descr'[n] = 0 /\ \A f \in Fd : f # n => descr'[f] = descr[f]
  BY <1>2, <1>3, <1>4 DEF TargetOK
<1>7. ServerStep
  BY <1>1, <1>4, <1>5, <1>6 DEF ServerStep, ServerOnly
<1>8. LinesOK' /\ TargetOK' /\ Commands'
  <2>1. [NoThread EXCEPT !.at = "gone"] \in Thread
    BY ThreadsTyped DEF Thread
  <2>2. srv[t] \in Thread
    BY DEF TargetOK
  <2>3. [srv[t] EXCEPT !.at = "recv"] \in Thread
    BY <2>2 DEF Thread, Serving
  <2>4. srv' \in [Sock -> Thread]
    BY <2>1, <2>3 DEF Close, TargetOK
  <2>5. descr' \in [Fd -> Sock \cup {0}]
    BY <1>4 DEF TargetOK
  <2>6. Commands'
    BY <1>1, <1>3, <1>5, <1>6 DEF Commands, HasNumber, Serving
  <2> QED
    BY <1>4, <2>4, <2>5, <2>6 DEF LinesOK, TargetOK
<1>9. (NumbersOwned /\ OneExchange => OneExchange') /\ (Finished => Finished')
  <2>1. UNCHANGED <<at, id, extensionFD, ext, sock, notes>>
    BY <1>4 DEF caller, process
  <2>2. \A u \in Sock : u # t =>
          /\ Quiet(u)' = Quiet(u)
          /\ \A c \in Conn : OnlyCall(u, id[c])' = OnlyCall(u, id[c])
    BY <1>5, <2>1 DEF Quiet, OnlyCall
  <2>3. srv'[t].at # "work"
    BY <1>1, <1>5
  <2> QED
    BY <1>2, <1>5, <2>1, <2>2, <2>3 DEF OneExchange, Finished
<1>10. NumbersOwned => NumbersOwned'
  <2> SUFFICES ASSUME NumbersOwned PROVE NumbersOwned'
    OBVIOUS
  <2>1. \A u \in Sock : HasNumber(u)' => HasNumber(u) /\ srv'[u].num = srv[u].num
    BY <1>1, <1>3, <1>5 DEF HasNumber, Serving
  <2>2. \A u \in Sock : u # t /\ HasNumber(u) => srv[u].num # n
    BY <1>1, <1>3 DEF NumbersOwned
  <2>3. \A u \in Sock : u # t /\ HasNumber(u) => HasNumber(u)' /\ descr'[srv[u].num] = descr[srv[u].num]
    BY <1>5, <1>6, <2>2 DEF HasNumber, Commands
  <2>4. \A u \in Sock : HasNumber(u)' =>
          /\ descr'[srv'[u].num] \in {u, 0}
          /\ srv'[u].at \in {"work", "close"} => descr'[srv'[u].num] = u
          /\ srv'[u].at = "close" \/ descr'[srv'[u].num] = 0 => ~sock'[u].open
          /\ srv'[u].at = "fail" => descr'[srv'[u].num] = 0
    <3> TAKE u \in Sock
    <3> HAVE HasNumber(u)'
    <3>1. CASE u = t
      <4>1. srv'[u].at = "recv" /\ srv'[u].num = n
        BY <1>1, <1>5, <3>1 DEF HasNumber, Serving
      <4> QED
        BY <1>2, <1>4, <1>6, <3>1, <4>1
    <3>2. CASE u # t
      BY <1>4, <1>5, <2>1, <2>3, <3>2 DEF NumbersOwned
    <3> QED
      BY <3>1, <3>2
  <2>5. \A u, w \in Sock : HasNumber(u)' /\ HasNumber(w)' /\ srv'[u].num = srv'[w].num => u = w
    BY <2>1 DEF NumbersOwned
  <2>6. \A f \in Fd : descr'[f] # 0 => HasNumber(descr[f])' /\ srv'[descr'[f]].num = f
    <3> TAKE f \in Fd
    <3> HAVE descr'[f] # 0
    <3>1. f # n /\ descr'[f] = descr[f] /\ descr[f] \in Sock
      BY <1>6 DEF TargetOK
    <3>2. HasNumber(descr[f]) /\ srv[descr[f]].num = f
      BY <3>1 DEF NumbersOwned
    <3>3. descr[f] # t
      BY <1>3, <3>1, <3>2
    <3> QED
      BY <1>5, <3>1, <3>2, <3>3 DEF HasNumber
  <2>7. \A u \in Sock : sock'[u].open /\ ext' # "gone" => Waiting(u)' \/ HasNumber(u)'
    <3> TAKE u \in Sock
    <3> HAVE sock'[u].open /\ ext' # "gone"
    <3>1. u # t /\ (Waiting(u) \/ HasNumber(u))
      BY <1>2, <1>4 DEF NumbersOwned
    <3> QED
      BY <1>4, <2>3, <3>1 DEF Waiting
  <2> QED
    BY <2>4, <2>5, <2>6, <2>7 DEF NumbersOwned
<1> QED
  BY <1>4, <1>7, <1>8, <1>9, <1>10, ServerStepKept, TypePartsNext DEF Orderly

\* The result goes to the caller that waits for it, unless a number was reused.
LEMMA AnswerStep ==
  ASSUME IInv, NEW t \in Sock, Answer(t)
  PROVE  IInv'
<1> USE Bounds, TypeParts DEF IInv
<1>1. HasNumber(t) /\ srv[t].at = "work" /\ ext # "gone"
  BY DEF Answer, HasNumber, Serving, Runs
<1>2. PICK s, r : s = descr[srv[t].num] /\ r = srv[t].call
  OBVIOUS
<1>3. s \in Sock \cup {0} /\ srv[t].num \in Fd /\ \A u \in Sock : u > made => u # s
  BY <1>1, <1>2, MadeBefore
<1>4. r \in 1 .. MaxCalls
  BY <1>1, <1>2 DEF Commands, TargetOK, Thread
<1>5. /\ srv' = [srv EXCEPT ![t].at = "recv", ![t].call = 0]
      /\ sock' = IF s # 0 /\ sock[s].open THEN [sock EXCEPT ![s].answers = Append(@, r)] ELSE sock
      /\ UNCHANGED <<caller, process, ext, frozen, backlog, descr, made, counts, notes>>
  BY <1>2 DEF Answer
<1>6. /\ srv'[t].at = "recv" /\ srv'[t].num = srv[t].num
      /\ \A u \in Sock : u # t => srv'[u] = srv[u]
  BY <1>5 DEF TargetOK, Thread
<1>7. /\ \A u \in Sock : u # s => sock'[u] = sock[u]
      /\ \A u \in Sock : sock'[u].open = sock[u].open /\ sock'[u].requests = sock[u].requests
      /\ s # 0 /\ sock[s].open => sock'[s].answers = Append(sock[s].answers, r)
  BY <1>3, <1>5 DEF LinesOK, Line
<1>8. ServerStep
  BY <1>1, <1>3, <1>5, <1>6, <1>7 DEF ServerStep, ServerOnly
<1>9. LinesOK'
  <2>1. CASE s # 0 /\ sock[s].open
    <3>1. sock[s].answers \in Seq(1 .. MaxCalls)
      BY <1>3, <2>1 DEF LinesOK, Line
    <3>2. Append(sock[s].answers, r) \in Seq(1 .. MaxCalls)
      BY <1>4, <3>1, AppendProperties
    <3> QED
      BY <1>3, <1>5, <2>1, <3>2 DEF LinesOK, Line
  <2>2. CASE ~(s # 0 /\ sock[s].open)
    BY <1>5, <2>2 DEF LinesOK
  <2> QED
    BY <2>1, <2>2
<1>10. TargetOK' /\ Commands'
  <2>1. "recv" \in Serving \cup {"none", "gone"} /\ 0 \in 0 .. MaxCalls
    BY DEF Serving
  <2>2. srv' \in [Sock -> Thread]
    BY <1>5, <2>1 DEF TargetOK, Thread
  <2>3. Commands'
    BY <1>3, <1>6 DEF Commands, HasNumber
  <2> QED
    BY <1>5, <2>2, <2>3 DEF TargetOK
<1>11. ASSUME "reused" \notin notes PROVE s = t /\ t # 0 /\ Orderly
  BY <1>1, <1>2, <1>11 DEF Orderly, NumbersOwned, Sock
<1>12. ASSUME "reused" \notin notes PROVE OneExchange'
  <2> USE <1>12
  <2>1. UNCHANGED <<at, id, extensionFD, ext>>
    BY <1>5 DEF caller, process
  <2>2. ASSUME sock[t].open
        PROVE  t = extensionFD /\ \E c \in Conn : at[c] = "receive" /\ OnlyCall(t, id[c])'
    <3>1. PICK c \in Conn : at[c] = "receive" /\ OnlyCall(t, id[c]) /\ t = extensionFD
      BY <1>1, <1>11, <2>2 DEF Orderly, OneExchange, Quiet
    <3>2. sock[t].requests = <<>> /\ sock[t].answers = <<>> /\ r = id[c]
      BY <1>1, <1>2, <3>1 DEF OnlyCall
    <3>3. Append(sock[t].answers, r) = <<id[c]>>
      BY <3>2
    <3>4. OnlyCall(t, id[c])'
      BY <1>6, <1>7, <1>11, <2>1, <2>2, <3>2, <3>3 DEF OnlyCall
    <3> QED
      BY <3>1, <3>4
  <2>3. \A u \in Sock : u # t =>
          /\ Quiet(u)' = Quiet(u)
          /\ \A c \in Conn : OnlyCall(u, id[c])' = OnlyCall(u, id[c])
    BY <1>6, <1>7, <1>11, <2>1 DEF Quiet, OnlyCall
  <2> QED
    BY <1>7, <1>11, <2>1, <2>2, <2>3 DEF Orderly, OneExchange
<1>13. ASSUME "reused" \notin notes PROVE NumbersOwned'
  <2> USE <1>13
  <2>1. UNCHANGED <<ext, backlog, descr>>
    BY <1>5
  <2>2. \A u \in Sock : HasNumber(u)' = HasNumber(u) /\ Waiting(u)' = Waiting(u) /\ srv'[u].num = srv[u].num
    BY <1>1, <1>6, <2>1 DEF HasNumber, Waiting, Serving
  <2>3. \A u \in Sock : HasNumber(u) =>
          /\ descr'[srv'[u].num] \in {u, 0}
          /\ srv'[u].at \in {"work", "close"} => descr'[srv'[u].num] = u
          /\ srv'[u].at = "close" \/ descr'[srv'[u].num] = 0 => ~sock'[u].open
          /\ srv'[u].at = "fail" => descr'[srv'[u].num] = 0
    BY <1>2, <1>6, <1>7, <1>11, <2>2, <2>1 DEF Orderly, NumbersOwned
  <2>4. \A f \in Fd : descr'[f] # 0 => HasNumber(descr[f])' /\ srv'[descr'[f]].num = f
    BY <1>11, <2>2, <2>1 DEF Orderly, NumbersOwned, TargetOK
  <2> QED
    BY <1>7, <1>11, <2>2, <2>3, <2>4, <2>1 DEF Orderly, NumbersOwned
<1>14. ASSUME "reused" \notin notes PROVE Finished'
  BY <1>5, <1>6, <1>7, <1>11, <1>14 DEF Orderly, Finished
<1> QED
  BY <1>5, <1>8, <1>9, <1>10, <1>11, <1>12, <1>13, <1>14, ServerStepKept, TypePartsNext DEF Orderly

-----------------------------------------------------------------------------
(* Around them.                                                             *)

\* The target exits: what was sent is never answered.
LEMMA TargetEndsStep ==
  ASSUME IInv, TargetEnds
  PROVE  IInv'
<1> USE Bounds, TypeParts DEF IInv
<1>1. ServerOnly /\ UNCHANGED <<sock, notes>>
  BY DEF TargetEnds, ServerOnly
<1>2. /\ ext' = "gone" /\ backlog' = <<>> /\ frozen' = FALSE
      /\ descr' = [f \in Fd |-> 0] /\ srv' = [s \in Sock |-> NoThread]
  BY DEF TargetEnds
<1>3. notes' \subseteq {"reused", "crowded", "orphaned"} /\ (Listens' => Listens) /\ notes \subseteq notes'
  BY <1>1, <1>2 DEF CountsOK, Listens
<1>4. /\ CallersOK' /\ ProcessOK' /\ CountsOK' /\ MutexHeld' /\ CallsFollow' /\ Kept'
      /\ OwnResults => OwnResults'
  BY <1>1, <1>3, ServerKept
<1>5. LinesOK' /\ Commands'
  BY <1>1, <1>2 DEF LinesOK, Commands, HasNumber, NoThread, Serving
<1>6. TargetOK'
  BY <1>2, EmptyTyped, ThreadsTyped DEF TargetOK
<1>7. MadeOnce'
  BY <1>1, <1>2 DEF MadeOnce, ServerOnly, process, CountsOK
<1>8. (OneExchange => OneExchange') /\ Finished'
  <2>1. UNCHANGED <<at, id, extensionFD, sock>>
    BY <1>1 DEF ServerOnly, caller, process
  <2>2. \A s \in Sock : srv'[s].at # "work"
    BY <1>2 DEF NoThread
  <2> QED
    BY <1>2, <2>1, <2>2 DEF OneExchange, OnlyCall, Quiet, Finished
<1>9. NumbersOwned'
  <2>1. \A s \in Sock : ~HasNumber(s)'
    BY <1>2 DEF HasNumber, NoThread, Serving
  <2> QED
    BY <1>2, <2>1 DEF NumbersOwned
<1> QED
  BY <1>1, <1>4, <1>5, <1>6, <1>7, <1>8, <1>9, TypePartsNext DEF Orderly

\* Stopping the target's threads changes neither the callers nor the
\* connections.
LEMMA AsideStep ==
  ASSUME IInv, Freeze \/ UNCHANGED vars
  PROVE  IInv'
<1> USE Bounds, TypeParts DEF Freeze, vars, caller, process, target, counts, IInv
<1>1. UNCHANGED <<caller, process, sock, ext, backlog, descr, srv, made, counts, notes>>
  OBVIOUS
<1>2. TypeOK'
  <2>1. (~frozen) \in BOOLEAN
    OBVIOUS
  <2>2. frozen' \in BOOLEAN
    BY <2>1 DEF TargetOK
  <2>3. CallersOK' /\ CountsOK' /\ LinesOK'
    BY <1>1 DEF CallersOK, CountsOK, LinesOK
  <2>4. ProcessOK' /\ TargetOK'
    BY <1>1, <2>2 DEF ProcessOK, TargetOK
  <2> QED
    BY <2>3, <2>4, TypePartsNext
<1>3. Commands' /\ MutexHeld' /\ CallsFollow' /\ Kept'
  BY <1>1 DEF Commands, HasNumber, MutexHeld, CallsFollow, Listens, Kept
<1>4. MadeOnce' /\ (OneExchange => OneExchange')
  BY <1>1 DEF MadeOnce, OneExchange, OnlyCall, Quiet
<1>5. (NumbersOwned => NumbersOwned') /\ (OwnResults => OwnResults') /\ (Finished => Finished')
  BY <1>1 DEF NumbersOwned, HasNumber, Waiting, OwnResults, Finished
<1> QED
  BY <1>1, <1>2, <1>3, <1>4, <1>5 DEF Orderly

\* A new ProcessData: the old connection stays open and is quiet.
LEMMA ReopenStep ==
  ASSUME IInv, Reopen
  PROVE  IInv'
<1> USE Bounds, TypeParts DEF Reopen, caller, target, IInv
<1>1. Elsewhere
  BY DEF Elsewhere
<1>2. CallersOK' /\ ProcessOK' /\ CountsOK'
  <2>1. CallersOK'
    BY DEF CallersOK
  <2>2. ProcessOK'
    BY DEF ProcessOK
  <2>3. CountsOK'
    BY DEF CountsOK
  <2> QED
    BY <2>1, <2>2, <2>3
<1>3. MutexHeld' /\ CallsFollow' /\ Kept'
  BY DEF MutexHeld, CallsFollow, Kept
<1>4. MadeOnce'
  BY DEF MadeOnce, CountsOK
<1>5. (OneExchange => OneExchange') /\ (OwnResults => OwnResults')
  BY DEF OneExchange, Quiet, OwnResults
<1> QED
  BY <1>1, <1>2, <1>3, <1>4, <1>5, ElsewhereKept, TypePartsNext DEF Orderly

\* All connections of a ceserver that is killed are closed.
LEMMA RestartStep ==
  ASSUME IInv, Restart
  PROVE  IInv'
<1> USE Bounds, TypeParts DEF IInv
<1>1. /\ at' = [c \in Conn |-> "idle"]
      /\ id' = [c \in Conn |-> 0] /\ result' = [c \in Conn |-> 0]
      /\ probe' = 0 /\ extensionFD' = 0 /\ extensionMutex' = NoOne
      /\ loaded' = FALSE
  BY DEF Restart
<1>2. UNCHANGED <<target, made, calls, injections>>
  BY DEF Restart
<1>3. sock' = [s \in Sock |-> [sock[s] EXCEPT !.open = FALSE, !.answers = <<>>]]
  BY DEF Restart
<1>4. \A s \in Sock : /\ sock'[s].open = FALSE /\ sock'[s].answers = <<>>
                      /\ sock'[s].requests = sock[s].requests
  BY <1>3 DEF LinesOK, Line
<1>5. CallersOK'
  BY <1>1 DEF CallersOK, Place
<1>6. ProcessOK'
  BY <1>1 DEF ProcessOK
<1>7. CountsOK' /\ TargetOK'
  <2>1. starts' \in 0 .. MaxStarts
    <3>1. starts < MaxStarts /\ starts' = starts + 1
      BY DEF Restart
    <3> QED
      BY <3>1 DEF CountsOK
  <2> QED
    BY <1>2, <2>1 DEF CountsOK, TargetOK, target, Restart, Note
<1>8. LinesOK'
  BY <1>3, EmptyTyped DEF LinesOK, Line
<1>9. Commands' /\ MutexHeld' /\ CallsFollow' /\ Kept'
  BY <1>1, <1>2 DEF Commands, HasNumber, MutexHeld, Holding, CallsFollow, Kept, target
<1>10. MadeOnce'
  BY <1>1, <1>2, <1>4 DEF MadeOnce, CountsOK, target
<1>11. OneExchange' /\ OwnResults'
  BY <1>1, <1>4 DEF OneExchange, OwnResults
<1>12. NumbersOwned => NumbersOwned'
  BY <1>2, <1>4 DEF NumbersOwned, HasNumber, Waiting, target
<1>13. Finished' /\ notes \subseteq notes'
  <2>1. "orphaned" \notin notes' => \A s \in Sock : srv[s].at # "work" /\ sock[s].requests = <<>>
    BY DEF Restart, Note
  <2>2. notes \subseteq notes'
    BY DEF Restart, Note
  <2> QED
    BY <1>2, <1>4, <2>1, <2>2 DEF Finished, target
<1> QED
  BY <1>5, <1>6, <1>7, <1>8, <1>9, <1>10, <1>11, <1>12, <1>13, TypePartsNext DEF Orderly

-----------------------------------------------------------------------------
(* The theorems.                                                            *)

\* Every step keeps the invariant.
LEMMA NextIInv == IInv /\ [Next]_vars => IInv'
<1> SUFFICES ASSUME IInv, [Next]_vars PROVE IInv'
  OBVIOUS
<1>1. CASE UNCHANGED vars
  BY <1>1, AsideStep
<1>2. CASE Next
  <2>1. ASSUME NEW c \in Conn, Call(c) \/ Steps(c) \/ Inject(c) \/ InjectEnds(c) PROVE IInv'
    BY <2>1, CallStep, LoadStep, OpenFirstStep, LockLoadStep, ProbeStep, HangUpStep,
       InjectStep, OpenStep, UnlockLoadStep, LoadReturnsStep, LockStep, SendStep,
       ReceiveStep, UnlockStep DEF Steps
  <2>2. ASSUME NEW t \in Sock, Serves(t) PROVE IInv'
    BY <2>2, TakeStep, SplitStep, RecvEndsStep, CloseStep, AnswerStep, TargetEndsStep
       DEF Serves, AnswerKills
  <2>3. CASE Accept
    BY <2>3, AcceptStep
  <2>4. CASE Freeze \/ Exit \/ Reopen \/ Restart
    BY <2>4, AsideStep, TargetEndsStep, ReopenStep, RestartStep DEF Exit
  <2> QED
    BY <1>2, <2>1, <2>2, <2>3, <2>4 DEF Next
<1> QED
  BY <1>1, <1>2

\* The invariant holds throughout.
LEMMA Invariant == Spec => []IInv
BY InitIInv, NextIInv, PTL DEF Spec

\* Types of the callers, the connections and the server threads, for every
\* number of callers, connections, descriptors, calls and starts.
THEOREM TypeCorrect == Spec => []TypeOK
<1>1. IInv => TypeOK
  BY DEF IInv
<1> QED
  BY <1>1, Invariant, PTL

\* What a call of extensionfunctions.c returns from the extension is the answer
\* to that call, up to the moment accept gives a number away that a server
\* thread still uses.
THEOREM OwnAnswers == Spec => []OwnAnswer
<1>1. IInv => OwnAnswer
  BY DEF IInv, Orderly, OwnResults, OwnAnswer
<1> QED
  BY <1>1, Invariant, PTL

\* The connection kept for a process marked as loaded is open at both ends, and
\* waits for accept or is served by its own thread and by no other, up to the
\* moment accept gives a number away that a server thread still uses.
THEOREM KeptReachable == Spec => []Reachable
<1>1. IInv => Reachable
  <2> SUFFICES ASSUME IInv, loaded, Listens, \A c \in Conn : at[c] # "open", "reused" \notin notes
               PROVE  /\ extensionFD # 0 /\ sock[extensionFD].open
                      /\ Waiting(extensionFD) \/ Readers(extensionFD) = {extensionFD}
    BY DEF Reachable
  <2> USE TypeParts DEF IInv, Orderly
  <2>1. extensionFD # 0 /\ sock[extensionFD].open /\ extensionFD \in Sock
    BY DEF Kept, ProcessOK
  <2>2. Waiting(extensionFD) \/ HasNumber(extensionFD)
    BY <2>1 DEF NumbersOwned, Listens
  <2>3. ASSUME HasNumber(extensionFD) PROVE Readers(extensionFD) = {extensionFD}
    <3>1. extensionFD \in Readers(extensionFD)
      BY <2>1, <2>3 DEF NumbersOwned, Readers, HasNumber
    <3>2. \A t \in Readers(extensionFD) : t = extensionFD
      BY <2>1 DEF NumbersOwned, Readers, HasNumber
    <3> QED
      BY <3>1, <3>2
  <2> QED
    BY <2>1, <2>2, <2>3
<1> QED
  BY <1>1, Invariant, PTL

\* Two threads of the extension are at work at once only after ceserver was
\* killed with a command under way, or after a number was reused.
THEOREM WorkExclusive == Spec => []OneAtWork
<1>1. IInv => OneAtWork
  <2> SUFFICES ASSUME IInv, notes \cap {"orphaned", "reused"} = {}
               PROVE  Cardinality(Working) <= 1
    BY DEF OneAtWork
  <2>1. \A t \in Working : t = extensionFD
    <3> TAKE t \in Working
    <3>1. Orderly /\ "orphaned" \notin notes /\ t \in Sock /\ srv[t].at = "work"
      BY DEF IInv, Working
    <3>2. ext # "gone"
      BY <3>1 DEF IInv, MadeOnce, NoThread
    <3>3. sock[t].open
      BY <3>1, <3>2 DEF Orderly, Finished
    <3> QED
      BY <3>1, <3>2, <3>3 DEF Orderly, OneExchange, Quiet
  <2>2. CASE Working = {}
    <3>1. Cardinality(Working) = 0
      BY <2>2, FS_EmptySet
    <3> QED
      BY <3>1
  <2>3. CASE Working # {}
    <3>1. Working = {extensionFD}
      BY <2>1, <2>3
    <3>2. Cardinality(Working) = 1
      BY <3>1, FS_Singleton
    <3> QED
      BY <3>2
  <2> QED
    BY <2>2, <2>3
<1> QED
  BY <1>1, Invariant, PTL

\* loadExtension injects the library where it is not yet loaded, and elsewhere
\* only when the probe could not connect for want of descriptors.
THEOREM InjectedOnce == Spec => InjectsAbsent
<1>1. IInv /\ [Next]_vars => [injections' # injections => ext = "absent" \/ "crowded" \in notes]_vars
  <2> SUFFICES ASSUME IInv, [Next]_vars, injections' # injections
               PROVE  ext = "absent" \/ "crowded" \in notes
    OBVIOUS
  <2>1. PICK c \in Conn : Inject(c)
    BY DEF Next, vars, counts, Steps, InjectEnds, Serves, Split, Call, Load, OpenFirst, LockLoad, Probe, HangUp, Open,
       UnlockLoad, LoadReturns, Lock, Send, Receive, Unlock, Accept, Take, RecvEnds, Close, Answer,
       AnswerKills, TargetEnds, Freeze, Exit, Reopen, Restart
  <2>2. ext # "gone" /\ (~Listens \/ "crowded" \in notes)
    BY <2>1 DEF Inject, IInv, CallsFollow
  <2>3. ext \in {"absent", "listening", "deaf", "gone"}
    BY DEF IInv, TypeOK
  <2> QED
    BY <2>2, <2>3 DEF Listens
<1> QED
  BY <1>1, Invariant, PTL DEF Spec, InjectsAbsent
=============================================================================
