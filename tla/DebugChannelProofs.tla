------------------------ MODULE DebugChannelProofs ------------------------
(* Proofs that a forwarded command is carried out once and answered to who   *)
(* asked for it, for every number of connections, processes and sessions,    *)
(* and that the channel implements ForwardedCall.                            *)
EXTENDS DebugChannel, TLAPS, SequenceTheorems

-----------------------------------------------------------------------------
(* The inductive invariant.                                                 *)

Exchanging == {"send", "bind", "recv", "unlock"}
Busy       == Forwarding \cup {"exec", "stuck"}

\* A thread carries out or forwards a command that clients use, for an opened
\* process, and what returns to a timed wait is a debugger thread.
CallsOwned ==
  /\ \A c \in Conn :
       /\ at[c] \in Busy => call[c].proc \in Proc /\ call[c].kind \in Kinds
       /\ at[c] \notin Busy => call[c] = NoCall
       /\ at[c] = "wait" \/ call[c].nested => isDebuggerThread[c] # NoOne
       /\ call[c].into # 0 => call[c].from \in Conn
       /\ at[c] = "recv" => call[c].reads # 0
  /\ \A k \in Pair : \A i \in DOMAIN requests[k] : requests[k][i].kind \in Kinds

\* The open pairs are those of the sessions, and every session has its own.
SessionsApart ==
  /\ \A p \in Proc : isDebugged[p] <=> debuggerClient[p] # 0
  /\ \A p \in Proc : isDebugged[p] => debuggerClient[p] \in open
  /\ \A k \in open : \E p \in Proc : debuggerClient[p] = k
  /\ \A p, q \in Proc : debuggerClient[p] = debuggerClient[q] /\ isDebugged[p] => p = q

\* The threads in an exchange are those that hold debugsocketmutex.
OneExchange ==
  \A c \in Conn : at[c] \in Exchanging <=> owner = c

\* Nothing is known of pairs that are not made yet.
NoFuture ==
  /\ \A k \in Pair : k > pairs => requests[k] = <<>> /\ replies[k] = <<>>
  /\ \A c \in Conn : /\ call[c].into <= pairs
                     /\ call[c].since <= pairs
                     /\ call[c].sent <= pairs

\* How far the call of a forwarding thread is: while the pair that its command
\* went into is open, the field still names it, and so does the second read of
\* the field; and a thread that waits for an answer in the session it began in
\* reads the pair of that session.
CallsFollow ==
  \A c \in Conn :
    /\ at[c] \in {"lock", "send"} => call[c].sent = 0
    /\ at[c] # "unlock" => ~call[c].ok
    /\ at[c] \in {"bind", "recv"} /\ call[c].sent \in open
         => debuggerClient[call[c].proc] = call[c].sent
    /\ at[c] = "recv" => call[c].reads \in 1 .. pairs
    /\ at[c] = "recv" /\ call[c].sent \in open => call[c].reads = call[c].sent
    /\ at[c] = "recv" /\ call[c].since # 0 /\ Session(call[c].proc) = call[c].since
         => call[c].reads = call[c].since

\* Connection c holds the lock and has a command under way in pair k.
Awaits(c, k) == c \in Conn /\ at[c] \in {"bind", "recv"} /\ call[c].sent = k

\* The answer of connection c, or what is left of it.
AnswerTo(c, s) ==
  /\ Len(s) \in {1, 2}
  /\ \A i \in 1 .. Len(s) : s[i].from = c /\ (s[i].more <=> i < Len(s))

\* In an open pair there is one command at a time: not taken, or carried out by
\* one thread, or answered; and who sent it waits for it.
OneCommand ==
  \A k \in open :
    /\ requests[k] # <<>> =>
         /\ Len(requests[k]) = 1
         /\ Awaits(Head(requests[k]).from, k)
         /\ replies[k] = <<>>
         /\ \A d \in Conn : call[d].into # k
    /\ \A d \in Conn : call[d].into = k =>
         /\ Awaits(call[d].from, k)
         /\ replies[k] = <<>>
         /\ \A e \in Conn : call[e].into = k => e = d
    /\ replies[k] # <<>> => \E c \in Conn : Awaits(c, k) /\ AnswerTo(c, replies[k])

\* What a connection reads is its own answer, also after the pair was closed.
ReadsOwn ==
  \A c \in Conn :
    at[c] = "recv" /\ replies[call[c].reads] # <<>>
      => AnswerTo(c, replies[call[c].reads]) /\ call[c].sent = call[c].reads

Typed == TypeOK /\ CallsOwned

IInv ==
  /\ Typed
  /\ SessionsApart /\ OneExchange /\ NoFuture
  /\ CallsFollow /\ OneCommand /\ ReadsOwn

-----------------------------------------------------------------------------
(* Types.                                                                   *)

\* The fields of a new call.
LEMMA NewCallType ==
  ASSUME NEW p \in Proc \cup {NoOne}, NEW kind \in Forwarded \cup {"none"},
         NEW from \in Conn \cup {NoOne}, NEW into \in 0 .. MaxPairs, NEW nested \in BOOLEAN,
         NEW since \in 0 .. MaxPairs
  PROVE  /\ NewCall(p, kind, from, into, nested, since) \in Call
         /\ NewCall(p, kind, from, into, nested, since).proc = p
         /\ NewCall(p, kind, from, into, nested, since).kind = kind
         /\ NewCall(p, kind, from, into, nested, since).from = from
         /\ NewCall(p, kind, from, into, nested, since).into = into
         /\ NewCall(p, kind, from, into, nested, since).nested = nested
         /\ NewCall(p, kind, from, into, nested, since).since = since
         /\ NewCall(p, kind, from, into, nested, since).sent = 0
         /\ NewCall(p, kind, from, into, nested, since).reads = 0
         /\ NewCall(p, kind, from, into, nested, since).ok = FALSE
  BY ChannelAssumption DEF NewCall, Call

\* And of a thread without one.
LEMMA NoCallType ==
  /\ NoCall \in Call
  /\ NoCall.into = 0 /\ NoCall.since = 0 /\ NoCall.sent = 0 /\ NoCall.reads = 0
  /\ NoCall.ok = FALSE /\ NoCall.nested = FALSE
  BY ChannelAssumption DEF NoCall, NewCall, Call

\* Begin gives its thread a call of the types the code gives it, and changes
\* nobody else's.
LEMMA BeginTyped ==
  ASSUME Typed, NEW c \in Conn, NEW p \in Proc, NEW kind \in Kinds,
         NEW from \in Conn \cup {NoOne}, NEW into \in 0 .. MaxPairs, NEW nested \in BOOLEAN,
         Begin(c, p, kind, from, into, nested)
  PROVE  /\ at' \in [Conn -> Places] /\ at'[c] \in {"exec", "lock"}
         /\ call' \in [Conn -> Call]
         /\ call'[c] = NewCall(p, kind, from, into, nested, Session(p))
         /\ \A d \in Conn \ {c} : at'[d] = at[d] /\ call'[d] = call[d]
  <1>1. Session(p) \in 0 .. MaxPairs
    BY ChannelAssumption DEF Typed, TypeOK, Session
  <1>2. NewCall(p, kind, from, into, nested, Session(p)) \in Call
    BY <1>1, NewCallType, ChannelAssumption
  <1> QED
    BY <1>2 DEF Begin, Goto, Typed, TypeOK, Places, Forwarding

\* Taking a command from the pair keeps the types, and begins a call for its sender.
LEMMA TakeTyped ==
  ASSUME Typed, NEW c \in Conn, NEW k \in open, NEW nested \in BOOLEAN,
         nested => isDebuggerThread[c] # NoOne,
         at[c] \in {"loop", "wait"}, requests[k] # <<>>, Take(c, k, nested),
         UNCHANGED <<isDebuggerThread, debugfd, procVars, owner>>,
         lastRead' \in [Conn -> {"s", "debugfd"}], sem' \in 0 .. MaxPosts
  PROVE  Typed'
  <1> DEFINE r == Head(requests[k])
  <1>1. k \in Pair /\ r \in Request /\ r.kind \in Kinds
    BY ChannelAssumption DEF Typed, TypeOK, Pair, CallsOwned
  <1>2. r.proc \in Proc /\ r.from \in Conn
    BY <1>1 DEF Request
  <1>3. CASE r.kind \in Unhandled
    <2>1. /\ open' = open \ {k} /\ requests' = [requests EXCEPT ![k] = <<>>]
          /\ UNCHANGED <<at, call, pairs, replies>>
      BY <1>3 DEF Take
    <2>2. requests' \in [Pair -> Seq(Request)]
      BY <2>1, <1>1 DEF Typed, TypeOK
    <2>3. TypeOK'
      BY <2>1, <2>2 DEF Typed, TypeOK, procVars
    <2>4. \A j \in Pair : \A i \in DOMAIN requests'[j] : requests'[j][i].kind \in Kinds
      BY <2>1, <1>1 DEF Typed, TypeOK, CallsOwned
    <2> QED
      BY <2>1, <2>3, <2>4 DEF Typed, CallsOwned
  <1>4. CASE r.kind \notin Unhandled
    <2>1. /\ requests' = [requests EXCEPT ![k] = Tail(@)]
          /\ Begin(c, r.proc, r.kind, r.from, k, nested)
          /\ UNCHANGED <<pairs, open, replies>>
      BY <1>4 DEF Take
    <2>2. /\ at' \in [Conn -> Places] /\ at'[c] \in {"exec", "lock"}
          /\ call' \in [Conn -> Call]
          /\ call'[c] = NewCall(r.proc, r.kind, r.from, k, nested, Session(r.proc))
          /\ \A d \in Conn \ {c} : at'[d] = at[d] /\ call'[d] = call[d]
      <3> HIDE DEF r
      <3>1. k \in 0 .. MaxPairs
        BY <1>1, ChannelAssumption DEF Pair
      <3> QED
        BY <2>1, <1>1, <1>2, <3>1, BeginTyped
    <2>3. requests' \in [Pair -> Seq(Request)]
      BY <2>1, <1>1 DEF Typed, TypeOK
    <2>4. TypeOK'
      BY <2>1, <2>2, <2>3 DEF Typed, TypeOK, procVars
    <2>5. \A j \in Pair : \A i \in DOMAIN requests'[j] : requests'[j][i].kind \in Kinds
      <3> SUFFICES ASSUME NEW j \in Pair, NEW i \in DOMAIN requests'[j]
                   PROVE  requests'[j][i].kind \in Kinds
        OBVIOUS
      <3>1. CASE j = k
        <4>1. requests'[j] = Tail(requests[k]) /\ requests[k] \in Seq(Request)
          BY <2>1, <3>1, <1>1 DEF Typed, TypeOK
        <4>2. i + 1 \in DOMAIN requests[k] /\ requests'[j][i] = requests[k][i + 1]
          BY <4>1
        <4> QED
          BY <4>2, <1>1 DEF Typed, CallsOwned
      <3>2. CASE j # k
        BY <2>1, <3>2, <1>1 DEF Typed, TypeOK, CallsOwned
      <3> QED
        BY <3>1, <3>2
    <2>6. /\ call'[c].proc = r.proc /\ call'[c].kind = r.kind /\ call'[c].nested = nested
          /\ call'[c].into = k /\ call'[c].from = r.from
      BY <2>2 DEF NewCall
    <2>7. ASSUME NEW d \in Conn
          PROVE  /\ at'[d] \in Busy => call'[d].proc \in Proc /\ call'[d].kind \in Kinds
                 /\ at'[d] \notin Busy => call'[d] = NoCall
                 /\ at'[d] = "wait" \/ call'[d].nested => isDebuggerThread'[d] # NoOne
                 /\ call'[d].into # 0 => call'[d].from \in Conn
                 /\ at'[d] = "recv" => call'[d].reads # 0
      <3> HIDE DEF r
      <3>1. CASE d = c
        BY <3>1, <2>2, <2>6, <1>1, <1>2 DEF Busy, Forwarding
      <3>2. CASE d # c
        BY <3>2, <2>2 DEF Typed, CallsOwned
      <3> QED
        BY <3>1, <3>2
    <2> QED
      BY <2>4, <2>5, <2>7 DEF Typed, CallsOwned
  <1> QED
    BY <1>3, <1>4
\* A step that changes only where a thread is, among the places in which it has
\* no command, and its thread-local variables.
Quiet(c) ==
  /\ at[c] \notin Busy /\ at' \in [Conn -> Places] /\ at'[c] \notin Busy
  /\ \A d \in Conn \ {c} : at'[d] = at[d]
  /\ isDebuggerThread' \in [Conn -> Proc \cup {NoOne}]
  /\ \A d \in Conn \ {c} : isDebuggerThread'[d] = isDebuggerThread[d]
  /\ at'[c] = "wait" => isDebuggerThread'[c] # NoOne
  /\ debugfd' \in [Conn -> 0 .. MaxPairs]
  /\ lastRead' \in [Conn -> {"s", "debugfd"}]
  /\ sem' \in 0 .. MaxPosts
  /\ UNCHANGED <<call, replies, owner>>

\* The open pairs have been made.
LEMMA OpenPairs ==
  ASSUME Typed
  PROVE  open \subseteq Pair /\ \A k \in open : k # 0 /\ k \in 1 .. pairs
  BY ChannelAssumption DEF Typed, TypeOK, Pair

\* One thread is at another place.
LEMMA GotoTyped ==
  ASSUME Typed, NEW c \in Conn, NEW x \in Places, Goto(c, x)
  PROVE  at' \in [Conn -> Places] /\ at'[c] = x /\ \A d \in Conn \ {c} : at'[d] = at[d]
  BY DEF Typed, TypeOK, Goto

\* A post does not take the semaphore past its bound.
LEMMA PostTyped ==
  ASSUME Typed, sem_post
  PROVE  sem' \in 0 .. MaxPosts
  BY ChannelAssumption DEF Typed, TypeOK, sem_post

\* The steps of the loop and of the timed wait that begin no command.
LEMMA QuietSteps ==
  ASSUME Typed, NEW c \in Conn,
         \/ newconnection(c) \/ WaitForDebugEvent(c) \/ CloseConnection(c) \/ ReadError(c)
         \/ SelectFails(c) \/ TimesOut(c) \/ Disconnect(c)
         \/ \E p \in Proc : StartDebug(c, p)
  PROVE  Quiet(c)
  <1> USE DEF Busy, Forwarding, Places
  <1>1. CASE newconnection(c)
    BY <1>1, GotoTyped DEF newconnection, Quiet, Typed, TypeOK, pairVars
  <1>2. CASE WaitForDebugEvent(c)
    BY <1>2, GotoTyped DEF WaitForDebugEvent, ReadsClient, FromClient, Quiet, Typed, TypeOK,
       pairVars
  <1>3. CASE CloseConnection(c)
    <2>1. at[c] = "loop" /\ UNCHANGED <<call, replies, owner, sem>>
      BY <1>3 DEF CloseConnection, ReadsClient, pairVars
    <2>2. CASE Ends(c)
      BY <2>1, <2>2, GotoTyped, ChannelAssumption DEF Ends, Quiet, Typed, TypeOK
    <2>3. CASE Goto(c, "asleep") /\ UNCHANGED <<isDebuggerThread, debugfd, lastRead>>
      BY <2>1, <2>3, GotoTyped DEF Quiet, Typed, TypeOK
    <2> QED
      BY <1>3, <2>2, <2>3 DEF CloseConnection
  <1>4. CASE ReadError(c)
    BY <1>4, GotoTyped, ChannelAssumption
       DEF ReadError, Ends, ReadsClient, Quiet, Typed, TypeOK, pairVars
  <1>5. CASE SelectFails(c)
    BY <1>5, GotoTyped DEF SelectFails, Quiet, Typed, TypeOK, pairVars
  <1>6. CASE TimesOut(c)
    BY <1>6, GotoTyped DEF TimesOut, Quiet, Typed, TypeOK, pairVars
  <1>7. CASE Disconnect(c)
    BY <1>7, GotoTyped, ChannelAssumption
       DEF Disconnect, Ends, ReadsClient, Quiet, Typed, TypeOK
  <1>8. CASE \E p \in Proc : StartDebug(c, p)
    <2>1. PICK p \in Proc : StartDebug(c, p)
      BY <1>8
    <2>2. UNCHANGED <<at, call, replies, owner, sem>> /\ at[c] = "loop"
      BY <2>1 DEF StartDebug, ReadsClient
    <2>3. /\ isDebuggerThread' = [isDebuggerThread EXCEPT ![c] = p]
          /\ lastRead' = [lastRead EXCEPT ![c] = "s"]
      BY <2>1 DEF StartDebug, FromClient
    <2>4. debugfd' \in [Conn -> 0 .. MaxPairs]
      <3>1. CASE pairs < MaxPairs /\ debugfd' = [debugfd EXCEPT ![c] = pairs + 1]
        BY <3>1, ChannelAssumption DEF Typed, TypeOK
      <3>2. CASE debugfd' = [debugfd EXCEPT ![c] = debuggerClient[p]]
        BY <3>2 DEF Typed, TypeOK
      <3> QED
        BY <2>1, <3>1, <3>2 DEF StartDebug
    <2> QED
      BY <2>2, <2>3, <2>4 DEF Quiet, Typed, TypeOK
  <1> QED
    BY <1>1, <1>2, <1>3, <1>4, <1>5, <1>6, <1>7, <1>8

\* A debugger thread that was woken and finds no command.
LEMMA WakesQuietly ==
  ASSUME Typed, NEW c \in Conn, WakesUp(c), Goto(c, "wait") \/ Goto(c, "loop"),
         UNCHANGED <<call, pairVars>>
  PROVE  Quiet(c)
  <1>1. /\ isDebuggerThread[c] # NoOne /\ at[c] = "wait" /\ sem' \in 0 .. MaxPosts
        /\ UNCHANGED <<isDebuggerThread, debugfd, lastRead, owner>>
    BY ChannelAssumption DEF WakesUp, Typed, TypeOK, CallsOwned
  <1>2. PICK x \in {"wait", "loop"} : Goto(c, x)
    OBVIOUS
  <1>3. /\ at' \in [Conn -> Places] /\ at'[c] = x /\ at[c] \notin Busy
        /\ (\A d \in Conn \ {c} : at'[d] = at[d]) /\ at'[c] \notin Busy
    BY <1>1, <1>2, GotoTyped DEF Places, Busy, Forwarding
  <1> QED
    BY <1>1, <1>3 DEF Quiet, Typed, TypeOK, pairVars

\* A step that changes no call and writes no command keeps the types.
LEMMA QuietTyped ==
  ASSUME Typed, NEW c \in Conn, Quiet(c),
         isDebugged' \in [Proc -> BOOLEAN],
         debuggerThreadID' \in [Proc -> Conn \cup {NoOne}],
         debuggerClient' \in [Proc -> 0 .. MaxPairs],
         pairs' \in 0 .. MaxPairs, open' \subseteq 1 .. pairs',
         requests' \in [Pair -> Seq(Request)],
         \A k \in Pair : requests'[k] \in {<<>>, requests[k]}
  PROVE  Typed'
  <1>1. TypeOK'
    BY DEF Typed, TypeOK, Quiet
  <1>2. \A k \in Pair : \A i \in DOMAIN requests'[k] : requests'[k][i].kind \in Kinds
    BY DEF Typed, CallsOwned
  <1>3. ASSUME NEW d \in Conn
        PROVE  /\ at'[d] \in Busy => call'[d].proc \in Proc /\ call'[d].kind \in Kinds
               /\ at'[d] \notin Busy => call'[d] = NoCall
               /\ at'[d] = "wait" \/ call'[d].nested => isDebuggerThread'[d] # NoOne
               /\ call'[d].into # 0 => call'[d].from \in Conn
               /\ at'[d] = "recv" => call'[d].reads # 0
    BY NoCallType DEF Typed, CallsOwned, Quiet, Busy, Forwarding
  <1> QED
    BY <1>1, <1>2, <1>3 DEF Typed, CallsOwned
\* A step of a thread that has a command, or ends it.
LEMMA CallTyped ==
  ASSUME Typed, NEW c \in Conn,
         at' \in [Conn -> Places], call' \in [Conn -> Call],
         \A d \in Conn \ {c} : at'[d] = at[d] /\ call'[d] = call[d],
         at'[c] \in Busy => call'[c].proc \in Proc /\ call'[c].kind \in Kinds,
         at'[c] \notin Busy => call'[c] = NoCall,
         at'[c] = "wait" \/ call'[c].nested => isDebuggerThread[c] # NoOne,
         call'[c].into # 0 => call'[c].from \in Conn,
         at'[c] = "recv" => call'[c].reads # 0,
         requests' \in [Pair -> Seq(Request)],
         \A k \in Pair : \A i \in DOMAIN requests'[k] : requests'[k][i].kind \in Kinds,
         replies' \in [Pair -> Seq(Reply)],
         owner' \in Conn \cup {NoOne}, sem' \in 0 .. MaxPosts,
         lastRead' \in [Conn -> {"s", "debugfd"}],
         UNCHANGED <<isDebuggerThread, debugfd, procVars, pairs, open>>
  PROVE  Typed'
  <1>1. TypeOK'
    BY DEF Typed, TypeOK, procVars
  <1>2. ASSUME NEW d \in Conn
        PROVE  /\ at'[d] \in Busy => call'[d].proc \in Proc /\ call'[d].kind \in Kinds
               /\ at'[d] \notin Busy => call'[d] = NoCall
               /\ at'[d] = "wait" \/ call'[d].nested => isDebuggerThread'[d] # NoOne
               /\ call'[d].into # 0 => call'[d].from \in Conn
               /\ at'[d] = "recv" => call'[d].reads # 0
    BY DEF Typed, CallsOwned
  <1> QED
    BY <1>1, <1>2 DEF Typed, CallsOwned

\* The call of a thread with a command keeps its types when a field is set.
LEMMA FieldTyped ==
  ASSUME Typed, NEW c \in Conn, NEW k \in 0 .. MaxPairs, NEW b \in BOOLEAN,
         \/ call' = [call EXCEPT ![c].sent = k]
         \/ call' = [call EXCEPT ![c].reads = k]
         \/ call' = [call EXCEPT ![c].ok = b]
  PROVE  /\ call' \in [Conn -> Call]
         /\ \A d \in Conn \ {c} : call'[d] = call[d]
         /\ call'[c].proc = call[c].proc /\ call'[c].kind = call[c].kind
         /\ call'[c].nested = call[c].nested
         /\ call'[c].into = call[c].into /\ call'[c].from = call[c].from
         /\ call'[c].since = call[c].since
         /\ call' = [call EXCEPT ![c].sent = k] =>
              call'[c].sent = k /\ call'[c].ok = call[c].ok
         /\ call' = [call EXCEPT ![c].reads = k] =>
              call'[c].reads = k /\ call'[c].ok = call[c].ok /\ call'[c].sent = call[c].sent
         /\ call' = [call EXCEPT ![c].ok = b] =>
              call'[c].ok = b /\ call'[c].sent = call[c].sent
  <1>1. call \in [Conn -> Call]
    BY DEF Typed, TypeOK
  <1>2. CASE call' = [call EXCEPT ![c].sent = k]
    BY <1>1, <1>2 DEF Call
  <1>3. CASE call' = [call EXCEPT ![c].reads = k]
    BY <1>1, <1>3 DEF Call
  <1>4. CASE call' = [call EXCEPT ![c].ok = b]
    BY <1>1, <1>4 DEF Call
  <1> QED
    BY <1>2, <1>3, <1>4

\* The answers that Finish puts into a pair are replies of its caller.
LEMMA AnswerTyped ==
  ASSUME NEW c \in Conn, NEW more \in BOOLEAN, call[c].from \in Conn
  PROVE  /\ Answer(c, more) \in Seq(Reply)
         /\ AnswerTo(call[c].from, Answer(c, more))
  <1>1. CASE more
    <2> DEFINE s == <<[from |-> call[c].from, more |-> TRUE],
                      [from |-> call[c].from, more |-> FALSE]>>
    <2>1. s \in Seq(Reply) /\ Len(s) = 2
      BY DEF Reply
    <2>2. s[1].from = call[c].from /\ s[2].from = call[c].from /\ s[1].more /\ ~s[2].more
      OBVIOUS
    <2>3. Answer(c, more) = s
      BY <1>1 DEF Answer
    <2> HIDE DEF s
    <2>4. \A i \in 1 .. Len(s) : i = 1 \/ i = 2
      BY <2>1
    <2>5. \A i \in 1 .. Len(s) : s[i].from = call[c].from /\ (s[i].more <=> i < Len(s))
      <3> TAKE i \in 1 .. Len(s)
      <3>1. CASE i = 1
        BY <2>1, <2>2, <3>1
      <3>2. CASE i = 2
        BY <2>1, <2>2, <3>2
      <3> QED
        BY <2>4, <3>1, <3>2
    <2> QED
      BY <2>1, <2>3, <2>5 DEF AnswerTo
  <1>2. CASE ~more
    <2> DEFINE s == <<[from |-> call[c].from, more |-> FALSE]>>
    <2>1. s \in Seq(Reply) /\ Len(s) = 1
      BY DEF Reply
    <2>2. s[1].from = call[c].from /\ ~s[1].more
      OBVIOUS
    <2>3. Answer(c, more) = s
      BY <1>2 DEF Answer
    <2> HIDE DEF s
    <2>4. \A i \in 1 .. Len(s) : s[i].from = call[c].from /\ (s[i].more <=> i < Len(s))
      <3> TAKE i \in 1 .. Len(s)
      <3>1. i = 1
        BY <2>1
      <3> QED
        BY <2>1, <2>2, <3>1
    <2> QED
      BY <2>1, <2>3, <2>4 DEF AnswerTo
  <1> QED
    BY <1>1, <1>2
\* Only the place and the call of thread c change, and the call stays the same
\* command.
Alone(c) ==
  /\ at' \in [Conn -> Places] /\ call' \in [Conn -> Call]
  /\ \A d \in Conn \ {c} : at'[d] = at[d] /\ call'[d] = call[d]
SameCommand(c) ==
  /\ call'[c].proc = call[c].proc /\ call'[c].kind = call[c].kind
  /\ call'[c].nested = call[c].nested
  /\ call'[c].into = call[c].into /\ call'[c].from = call[c].from
Elsewhere == UNCHANGED <<isDebuggerThread, debugfd, lastRead, procVars, pairs, open>>

\* A step of a forwarding thread keeps the types when its call and the pairs do.
LEMMA ForwardTyped ==
  ASSUME Typed, NEW c \in Conn, Alone(c), SameCommand(c), Elsewhere,
         at[c] \in Busy, at'[c] \in Busy, at'[c] = "recv" => call'[c].reads # 0,
         requests' \in [Pair -> Seq(Request)],
         \A k \in Pair : \A i \in DOMAIN requests'[k] : requests'[k][i].kind \in Kinds,
         replies' \in [Pair -> Seq(Reply)],
         owner' \in Conn \cup {NoOne}, sem' \in 0 .. MaxPosts
  PROVE  Typed'
  <1>1. /\ call'[c].proc \in Proc /\ call'[c].kind \in Kinds
        /\ at'[c] = "wait" \/ call'[c].nested => isDebuggerThread[c] # NoOne
        /\ call'[c].into # 0 => call'[c].from \in Conn
    BY DEF Typed, CallsOwned, SameCommand, Busy, Forwarding
  <1>2. lastRead' \in [Conn -> {"s", "debugfd"}]
    BY DEF Typed, TypeOK, Elsewhere
  <1> QED
    BY <1>1, <1>2, CallTyped DEF Alone, Elsewhere

\* What pthread_mutex_lock changes.
LEMMA LockDoes ==
  ASSUME Typed, NEW c \in Conn, Lock(c)
  PROVE  /\ at[c] = "lock" /\ at'[c] = "send" /\ owner = NoOne /\ owner' = c
         /\ Alone(c) /\ SameCommand(c) /\ Elsewhere
         /\ UNCHANGED <<call, requests, replies, sem>>
         /\ Typed'
  <1>1. /\ at[c] = "lock" /\ at'[c] = "send" /\ owner = NoOne /\ owner' = c
        /\ Alone(c) /\ SameCommand(c) /\ Elsewhere
        /\ UNCHANGED <<call, requests, replies, sem>>
    BY GotoTyped DEF Lock, Alone, SameCommand, Elsewhere, pairVars, Typed, TypeOK, Places,
       Forwarding
  <1>2. at[c] \in Busy /\ at'[c] \in Busy /\ at'[c] # "recv"
    BY <1>1 DEF Busy, Forwarding
  <1>3. /\ requests' \in [Pair -> Seq(Request)] /\ replies' \in [Pair -> Seq(Reply)]
        /\ owner' \in Conn \cup {NoOne} /\ sem' \in 0 .. MaxPosts
    BY <1>1 DEF Typed, TypeOK
  <1>4. \A k \in Pair : \A i \in DOMAIN requests'[k] : requests'[k][i].kind \in Kinds
    BY <1>1 DEF Typed, CallsOwned
  <1> QED
    BY <1>1, <1>2, <1>3, <1>4, ForwardTyped

\* A command that blocks is not ended.
LEMMA BlocksDoes ==
  ASSUME Typed, NEW c \in Conn, Blocks(c)
  PROVE  /\ at[c] = "exec" /\ at'[c] = "stuck"
         /\ Alone(c) /\ SameCommand(c) /\ Elsewhere
         /\ UNCHANGED <<call, requests, replies, owner, sem>>
         /\ Typed'
  <1>1. /\ at[c] = "exec" /\ at'[c] = "stuck"
        /\ Alone(c) /\ SameCommand(c) /\ Elsewhere
        /\ UNCHANGED <<call, requests, replies, owner, sem>>
    BY GotoTyped DEF Blocks, Alone, SameCommand, Elsewhere, pairVars, Typed, TypeOK, Places,
       Forwarding
  <1>2. at[c] \in Busy /\ at'[c] \in Busy /\ at'[c] # "recv"
    BY <1>1 DEF Busy, Forwarding
  <1>3. /\ requests' \in [Pair -> Seq(Request)] /\ replies' \in [Pair -> Seq(Reply)]
        /\ owner' \in Conn \cup {NoOne} /\ sem' \in 0 .. MaxPosts
    BY <1>1 DEF Typed, TypeOK
  <1>4. \A k \in Pair : \A i \in DOMAIN requests'[k] : requests'[k][i].kind \in Kinds
    BY <1>1 DEF Typed, CallsOwned
  <1> QED
    BY <1>1, <1>2, <1>3, <1>4, ForwardTyped

\* The command is in the pair that debuggerClient names, if that is open.
LEMMA SendDoes ==
  ASSUME Typed, NEW c \in Conn, Send(c)
  PROVE  LET k == debuggerClient[call[c].proc]
         IN /\ call[c].proc \in Proc /\ k \in 0 .. MaxPairs
            /\ at[c] = "send" /\ at'[c] = "bind"
            /\ Alone(c) /\ SameCommand(c) /\ Elsewhere /\ UNCHANGED <<replies, owner>>
            /\ call'[c].since = call[c].since /\ call'[c].ok = call[c].ok
            /\ call'[c].sent = IF k \in open THEN k ELSE 0
            /\ requests' \in [Pair -> Seq(Request)]
            /\ k \notin open => requests' = requests
            /\ \A j \in Pair \ {k} : requests'[j] = requests[j]
            /\ k \in open =>
                 requests'[k] = Append(requests[k],
                                  [proc |-> call[c].proc, kind |-> call[c].kind, from |-> c])
  <1> DEFINE k == debuggerClient[call[c].proc]
             r == [proc |-> call[c].proc, kind |-> call[c].kind, from |-> c]
             v == IF k \in open THEN k ELSE 0
  <1>1. at[c] = "send" /\ call[c].proc \in Proc /\ call[c].kind \in Forwarded
    BY ChannelAssumption DEF Send, Typed, CallsOwned, Busy, Forwarding
  <1>2. k \in 0 .. MaxPairs
    BY <1>1 DEF Typed, TypeOK
  <1>3. r \in Request
    BY <1>1 DEF Request
  <1>4. /\ call' = [call EXCEPT ![c].sent = v]
        /\ requests' = IF k \in open THEN [requests EXCEPT ![k] = Append(@, r)] ELSE requests
        /\ Goto(c, "bind")
        /\ Elsewhere /\ UNCHANGED <<replies, owner>>
    BY DEF Send, Elsewhere
  <1>5. at' \in [Conn -> Places] /\ at'[c] = "bind" /\ \A d \in Conn \ {c} : at'[d] = at[d]
    BY <1>4, GotoTyped DEF Places, Forwarding
  <1> HIDE DEF k, r
  <1>6. /\ requests' \in [Pair -> Seq(Request)]
        /\ \A j \in Pair \ {k} : requests'[j] = requests[j]
        /\ k \in open => requests'[k] = Append(requests[k], r)
    <2>1. k \in open => k \in Pair
      BY <1>2, ChannelAssumption DEF Typed, TypeOK, Pair
    <2> QED
      BY <1>3, <1>4, <2>1 DEF Typed, TypeOK
  <1>7. v \in 0 .. MaxPairs
    BY <1>2, ChannelAssumption
  <1>8. Alone(c) /\ SameCommand(c) /\ call'[c].since = call[c].since
        /\ call'[c].ok = call[c].ok /\ call'[c].sent = v
    <2> HIDE DEF v
    <2>1. call' = [call EXCEPT ![c].sent = v]
      BY <1>4
    <2>2. /\ call' \in [Conn -> Call] /\ \A d \in Conn \ {c} : call'[d] = call[d]
          /\ SameCommand(c)
      BY <1>7, <2>1, FieldTyped DEF SameCommand
    <2>3. call \in [Conn -> Call]
      BY DEF Typed, TypeOK
    <2>4. /\ call'[c].since = call[c].since /\ call'[c].ok = call[c].ok
          /\ call'[c].sent = v
      BY <2>1, <2>3 DEF Call
    <2> QED
      BY <1>5, <2>2, <2>4 DEF Alone
  <1> QED
    BY <1>1, <1>2, <1>4, <1>5, <1>6, <1>8 DEF k, r

\* The write of the command keeps the types.
LEMMA SendTyped ==
  ASSUME Typed, NEW c \in Conn, Send(c)
  PROVE  Typed'
  <1> DEFINE k == debuggerClient[call[c].proc]
             r == [proc |-> call[c].proc, kind |-> call[c].kind, from |-> c]
  <1>1. at[c] \in Busy /\ call[c].kind \in Kinds /\ at'[c] \in Busy /\ at'[c] # "recv"
    BY SendDoes DEF Typed, CallsOwned, Busy, Forwarding
  <1>2. \A j \in Pair : \A i \in DOMAIN requests'[j] : requests'[j][i].kind \in Kinds
    <2> SUFFICES ASSUME NEW j \in Pair, NEW i \in DOMAIN requests'[j]
                 PROVE  requests'[j][i].kind \in Kinds
      OBVIOUS
    <2>1. CASE k \in open /\ j = k
      <3>1. requests'[j] = Append(requests[j], r) /\ requests[j] \in Seq(Request)
        BY <2>1, SendDoes DEF Typed, TypeOK
      <3>2. CASE i \in DOMAIN requests[j]
        BY <3>1, <3>2 DEF Typed, CallsOwned
      <3>3. CASE i \notin DOMAIN requests[j]
        <4>1. requests'[j][i] = r
          BY <3>1, <3>3
        <4> QED
          BY <4>1, <1>1
      <3> QED
        BY <3>2, <3>3
    <2>2. CASE ~(k \in open /\ j = k)
      <3>1. requests'[j] = requests[j]
        BY <2>2, SendDoes
      <3> QED
        BY <3>1 DEF Typed, CallsOwned
    <2> QED
      BY <2>1, <2>2
  <1>3. sem' \in 0 .. MaxPosts
    BY PostTyped DEF Send
  <1>4. replies' \in [Pair -> Seq(Reply)] /\ owner' \in Conn \cup {NoOne}
    BY SendDoes DEF Typed, TypeOK
  <1> QED
    BY <1>1, <1>2, <1>3, <1>4, SendDoes, ForwardTyped
\* The pairs and the lock are left alone.
LEMMA RestTyped ==
  ASSUME Typed, UNCHANGED <<requests, owner, sem>>
  PROVE  /\ requests' \in [Pair -> Seq(Request)]
         /\ \A k \in Pair : \A i \in DOMAIN requests'[k] : requests'[k][i].kind \in Kinds
         /\ owner' \in Conn \cup {NoOne} /\ sem' \in 0 .. MaxPosts
  BY DEF Typed, TypeOK, CallsOwned

\* What the second read of debuggerClient changes.
LEMMA BindDoes ==
  ASSUME Typed, NEW c \in Conn, Bind(c)
  PROVE  LET k == debuggerClient[call[c].proc]
         IN /\ call[c].proc \in Proc /\ k \in 0 .. MaxPairs
            /\ at[c] = "bind" /\ at'[c] = IF k = 0 THEN "unlock" ELSE "recv"
            /\ Alone(c) /\ SameCommand(c) /\ Elsewhere
            /\ UNCHANGED <<requests, replies, owner, sem>>
            /\ call'[c].since = call[c].since /\ call'[c].ok = call[c].ok
            /\ call'[c].sent = call[c].sent /\ call'[c].reads = k
            /\ Typed'
  <1> DEFINE k == debuggerClient[call[c].proc]
  <1>1. at[c] = "bind" /\ call[c].proc \in Proc
    BY DEF Bind, Typed, CallsOwned, Busy, Forwarding
  <1>2. k \in 0 .. MaxPairs
    BY <1>1 DEF Typed, TypeOK
  <1>3. /\ call' = [call EXCEPT ![c].reads = k]
        /\ Goto(c, IF k = 0 THEN "unlock" ELSE "recv")
        /\ Elsewhere /\ UNCHANGED <<requests, replies, owner, sem>>
    BY DEF Bind, Elsewhere, pairVars
  <1> HIDE DEF k
  <1>4. /\ at' \in [Conn -> Places] /\ at'[c] = (IF k = 0 THEN "unlock" ELSE "recv")
        /\ \A d \in Conn \ {c} : at'[d] = at[d]
    <2>1. (IF k = 0 THEN "unlock" ELSE "recv") \in Places
      BY DEF Places, Forwarding
    <2> QED
      BY <1>3, <2>1, GotoTyped
  <1>5. /\ Alone(c) /\ SameCommand(c) /\ call'[c].since = call[c].since
        /\ call'[c].ok = call[c].ok /\ call'[c].sent = call[c].sent /\ call'[c].reads = k
    BY <1>2, <1>3, <1>4, FieldTyped DEF Alone, SameCommand
  <1>6. at[c] \in Busy /\ at'[c] \in Busy /\ (at'[c] = "recv" => call'[c].reads # 0)
    BY <1>1, <1>4, <1>5 DEF Busy, Forwarding
  <1>7. replies' \in [Pair -> Seq(Reply)]
    BY <1>3 DEF Typed, TypeOK
  <1>8. Typed'
    BY <1>3, <1>5, <1>6, <1>7, RestTyped, ForwardTyped
  <1> QED
    BY <1>1, <1>2, <1>3, <1>4, <1>5, <1>8 DEF k

\* A part of the answer is read.
Reads(c) ==
  LET k == call[c].reads
      r == Head(replies[k])
  IN /\ replies[k] # <<>>
     /\ replies' = [replies EXCEPT ![k] = Tail(@)]
     /\ call'[c].ok = ~r.more
     /\ at'[c] = IF r.more THEN "bind" ELSE "unlock"
\* The pair was closed, and nothing is left in it.
ReadsNothing(c) ==
  LET k == call[c].reads
  IN /\ replies[k] = <<>> /\ k \notin open
     /\ at'[c] = "unlock"
     /\ UNCHANGED <<call, replies>>

\* What the read of a part of the answer changes.
LEMMA ReceiveDoes ==
  ASSUME Typed, NEW c \in Conn, Receive(c)
  PROVE  /\ at[c] = "recv" /\ call[c].proc \in Proc
         /\ Alone(c) /\ SameCommand(c) /\ Elsewhere
         /\ UNCHANGED <<requests, owner, sem>> /\ call[c].reads \in Pair
         /\ call'[c].since = call[c].since /\ call'[c].sent = call[c].sent
         /\ Reads(c) \/ ReadsNothing(c)
         /\ Typed'
  <1> DEFINE k == call[c].reads
             r == Head(replies[k])
  <1>1. at[c] = "recv" /\ call[c].proc \in Proc /\ call[c].reads # 0 /\ call[c] \in Call
    BY DEF Receive, Typed, TypeOK, CallsOwned, Busy, Forwarding
  <1>0. call[c].reads \in Pair
    BY <1>1, ChannelAssumption DEF Call, Pair
  <1>2. Elsewhere /\ UNCHANGED <<requests, owner, sem>>
    BY DEF Receive, Elsewhere
  <1>3. CASE /\ replies[k] # <<>>
             /\ replies' = [replies EXCEPT ![k] = Tail(@)]
             /\ call' = [call EXCEPT ![c].ok = ~r.more]
             /\ Goto(c, IF r.more THEN "bind" ELSE "unlock")
    <2>1. replies[k] \in Seq(Reply)
      BY <1>0 DEF Typed, TypeOK
    <2>2. r \in Reply /\ Tail(replies[k]) \in Seq(Reply)
      BY <2>1, <1>3
    <2>3. (~r.more) \in BOOLEAN
      BY <2>2 DEF Reply
    <2>4. replies' \in [Pair -> Seq(Reply)]
      BY <1>0, <1>3, <2>2 DEF Typed, TypeOK
    <2> HIDE DEF r
    <2>5. /\ at' \in [Conn -> Places] /\ at'[c] = (IF r.more THEN "bind" ELSE "unlock")
          /\ \A d \in Conn \ {c} : at'[d] = at[d]
      <3>1. (IF r.more THEN "bind" ELSE "unlock") \in Places
        BY DEF Places, Forwarding
      <3> QED
        BY <1>3, <3>1, GotoTyped
    <2>6. /\ Alone(c) /\ SameCommand(c) /\ call'[c].since = call[c].since
          /\ call'[c].sent = call[c].sent /\ call'[c].ok = ~r.more
      <3>1. 0 \in 0 .. MaxPairs
        BY ChannelAssumption
      <3> DEFINE b == ~r.more
      <3>2. b \in BOOLEAN /\ call' = [call EXCEPT ![c].ok = b]
        BY <1>3, <2>3 DEF r
      <3> HIDE DEF b
      <3>3. /\ Alone(c) /\ SameCommand(c) /\ call'[c].since = call[c].since
            /\ call'[c].sent = call[c].sent /\ call'[c].ok = b
        BY <2>5, <3>1, <3>2, FieldTyped DEF Alone, SameCommand
      <3> QED
        BY <3>3 DEF b
    <2>7. at[c] \in Busy /\ at'[c] \in Busy /\ at'[c] # "recv"
      BY <1>1, <2>5 DEF Busy, Forwarding
    <2>8. Typed'
      BY <1>2, <2>4, <2>6, <2>7, RestTyped, ForwardTyped
    <2>9. Reads(c)
      BY <1>3, <2>5, <2>6 DEF Reads, r
    <2> QED
      BY <1>0, <1>1, <1>2, <2>6, <2>8, <2>9
  <1>4. CASE /\ replies[k] = <<>> /\ k \notin open
             /\ Goto(c, "unlock") /\ UNCHANGED <<call, replies>>
    <2>1. Alone(c) /\ SameCommand(c) /\ ReadsNothing(c)
      BY <1>4, GotoTyped DEF Alone, SameCommand, ReadsNothing, Typed, TypeOK, Places, Forwarding
    <2>2. at[c] \in Busy /\ at'[c] \in Busy /\ at'[c] # "recv"
      BY <1>1, <2>1 DEF Busy, Forwarding, ReadsNothing
    <2>3. replies' \in [Pair -> Seq(Reply)]
      BY <1>4 DEF Typed, TypeOK
    <2>4. Typed'
      BY <1>2, <2>1, <2>2, <2>3, RestTyped, ForwardTyped
    <2> QED
      BY <1>0, <1>1, <1>2, <1>4, <2>1, <2>4
  <1> QED
    BY <1>3, <1>4 DEF Receive

\* What pthread_mutex_unlock changes.
LEMMA UnlockDoes ==
  ASSUME Typed, NEW c \in Conn, Unlock(c)
  PROVE  /\ at[c] = "unlock" /\ at'[c] = "exec" /\ owner' = NoOne
         /\ Alone(c) /\ SameCommand(c) /\ Elsewhere /\ UNCHANGED <<requests, replies, sem>>
         /\ call'[c].since = 0 /\ call'[c].sent = 0 /\ call'[c].ok = FALSE
         /\ Typed'
  <1> DEFINE x == call[c]
             y == NewCall(x.proc, x.kind, x.from, x.into, x.nested, 0)
  <1>1. /\ at[c] = "unlock" /\ Goto(c, "exec") /\ owner' = NoOne
        /\ call' = [call EXCEPT ![c] = y]
        /\ Elsewhere /\ UNCHANGED <<requests, replies, sem>>
    BY DEF Unlock, Elsewhere, pairVars
  <1>2. x \in Call
    BY DEF Typed, TypeOK
  <1>3. /\ x.proc \in Proc \cup {NoOne} /\ x.kind \in Forwarded \cup {"none"}
        /\ x.from \in Conn \cup {NoOne} /\ x.into \in 0 .. MaxPairs /\ x.nested \in BOOLEAN
    BY <1>2 DEF Call
  <1>4. 0 \in 0 .. MaxPairs
    BY ChannelAssumption
  <1> HIDE DEF x
  <1>5. /\ y \in Call /\ y.proc = x.proc /\ y.kind = x.kind /\ y.from = x.from
        /\ y.into = x.into /\ y.nested = x.nested
        /\ y.since = 0 /\ y.sent = 0 /\ y.ok = FALSE
    BY <1>3, <1>4 DEF NewCall, Call
  <1> HIDE DEF y
  <1>6. call' \in [Conn -> Call] /\ call'[c] = y /\ \A d \in Conn \ {c} : call'[d] = call[d]
    BY <1>1, <1>5 DEF Typed, TypeOK
  <1>7. at' \in [Conn -> Places] /\ at'[c] = "exec" /\ \A d \in Conn \ {c} : at'[d] = at[d]
    BY <1>1, GotoTyped DEF Places
  <1>8. Alone(c) /\ SameCommand(c)
    BY <1>5, <1>6, <1>7 DEF Alone, SameCommand, x
  <1>9. Typed'
    <2>1. at[c] \in Busy /\ at'[c] \in Busy /\ at'[c] # "recv"
      BY <1>1, <1>7 DEF Busy, Forwarding
    <2>2. /\ requests' \in [Pair -> Seq(Request)] /\ replies' \in [Pair -> Seq(Reply)]
          /\ owner' \in Conn \cup {NoOne} /\ sem' \in 0 .. MaxPosts
      BY <1>1 DEF Typed, TypeOK
    <2>3. \A k \in Pair : \A i \in DOMAIN requests'[k] : requests'[k][i].kind \in Kinds
      BY <1>1 DEF Typed, CallsOwned
    <2> QED
      BY <1>1, <1>8, <2>1, <2>2, <2>3, ForwardTyped
  <1> QED
    BY <1>1, <1>5, <1>6, <1>7, <1>8, <1>9

\* What the end of a command changes, its own or a forwarded one.
LEMMA FinishDoes ==
  ASSUME Typed, NEW c \in Conn, Finish(c)
  PROVE  LET k == call[c].into
         IN /\ at[c] = "exec" /\ at'[c] \in {"wait", "loop"} /\ call'[c] = NoCall
            /\ Alone(c) /\ Elsewhere /\ UNCHANGED <<requests, owner, sem>>
            /\ k \notin open => replies' = replies
            /\ k \in open =>
                 /\ call[c].from \in Conn
                 /\ \A j \in Pair \ {k} : replies'[j] = replies[j]
                 /\ \E more \in BOOLEAN : replies'[k] = replies[k] \o Answer(c, more)
            /\ Typed'
  <1> DEFINE k == call[c].into
  <1>1. PICK more \in BOOLEAN :
          replies' = IF k \in open THEN [replies EXCEPT ![k] = @ \o Answer(c, more)] ELSE replies
    BY DEF Finish
  <1>2. /\ at[c] = "exec" /\ Goto(c, IF call[c].nested THEN "wait" ELSE "loop")
        /\ call' = [call EXCEPT ![c] = NoCall]
        /\ Elsewhere /\ UNCHANGED <<requests, owner, sem>>
    BY DEF Finish, Elsewhere
  <1>3. /\ at' \in [Conn -> Places] /\ at'[c] = (IF call[c].nested THEN "wait" ELSE "loop")
        /\ \A d \in Conn \ {c} : at'[d] = at[d]
    <2>1. (IF call[c].nested THEN "wait" ELSE "loop") \in Places
      BY DEF Places
    <2> QED
      BY <1>2, <2>1, GotoTyped
  <1>4. call' \in [Conn -> Call] /\ call'[c] = NoCall /\ \A d \in Conn \ {c} : call'[d] = call[d]
    BY <1>2, NoCallType DEF Typed, TypeOK
  <1>5. ASSUME k \in open
        PROVE  /\ call[c].from \in Conn /\ replies' \in [Pair -> Seq(Reply)]
               /\ \A j \in Pair \ {k} : replies'[j] = replies[j]
               /\ replies'[k] = replies[k] \o Answer(c, more)
    <2>1. k \in Pair /\ k # 0
      BY <1>5, OpenPairs
    <2>2. call[c].from \in Conn
      BY <2>1 DEF Typed, CallsOwned
    <2>3. Answer(c, more) \in Seq(Reply)
      BY <2>2, AnswerTyped
    <2>4. replies[k] \o Answer(c, more) \in Seq(Reply)
      BY <2>1, <2>3 DEF Typed, TypeOK
    <2> QED
      BY <1>1, <1>5, <2>1, <2>2, <2>4 DEF Typed, TypeOK
  <1>6. k \notin open => replies' = replies
    BY <1>1
  <1> HIDE DEF k
  <1>7. replies' \in [Pair -> Seq(Reply)]
    BY <1>5, <1>6 DEF Typed, TypeOK
  <1>8. Typed'
    <2>1. /\ at'[c] \notin Busy /\ at'[c] # "recv"
          /\ at'[c] = "wait" \/ call'[c].nested => isDebuggerThread[c] # NoOne
          /\ call'[c].into = 0
      BY <1>3, <1>4, NoCallType DEF Typed, CallsOwned, Busy, Forwarding
    <2>2. lastRead' \in [Conn -> {"s", "debugfd"}]
      BY <1>2 DEF Typed, TypeOK, Elsewhere
    <2>3. /\ requests' \in [Pair -> Seq(Request)]
          /\ \A j \in Pair : \A i \in DOMAIN requests'[j] : requests'[j][i].kind \in Kinds
          /\ owner' \in Conn \cup {NoOne} /\ sem' \in 0 .. MaxPosts
      BY <1>2, RestTyped
    <2> QED
      BY <1>2, <1>3, <1>4, <1>7, <2>1, <2>2, <2>3, CallTyped DEF Elsewhere
  <1>9. Alone(c) /\ at'[c] \in {"wait", "loop"}
    BY <1>3, <1>4 DEF Alone
  <1> QED
    BY <1>2, <1>4, <1>5, <1>6, <1>8, <1>9 DEF k
\* The processes and pairs after a step of the loop that begins no command.
LEMMA SessionTyped ==
  ASSUME Typed, NEW c \in Conn, Disconnect(c) \/ \E p \in Proc : StartDebug(c, p)
  PROVE  /\ isDebugged' \in [Proc -> BOOLEAN]
         /\ debuggerThreadID' \in [Proc -> Conn \cup {NoOne}]
         /\ debuggerClient' \in [Proc -> 0 .. MaxPairs]
         /\ pairs' \in 0 .. MaxPairs /\ open' \subseteq 1 .. pairs'
         /\ requests' \in [Pair -> Seq(Request)]
         /\ \A k \in Pair : requests'[k] \in {<<>>, requests[k]}
  <1>1. CASE Disconnect(c)
    <2>1. CASE isDebuggerThread[c] # NoOne /\ StopDebug(isDebuggerThread[c])
      <3>1. isDebuggerThread[c] \in Proc
        BY <2>1 DEF Typed, TypeOK
      <3>2. UNCHANGED <<debuggerThreadID, pairs>>
        BY <1>1 DEF Disconnect
      <3>3. open' \subseteq 1 .. pairs'
        BY <2>1, <3>2 DEF StopDebug, Typed, TypeOK
      <3>4. isDebugged' \in [Proc -> BOOLEAN] /\ debuggerClient' \in [Proc -> 0 .. MaxPairs]
        BY <2>1, <3>1, ChannelAssumption DEF StopDebug, Typed, TypeOK
      <3>5. \A k \in Pair : requests'[k] \in {<<>>, requests[k]}
        BY <2>1 DEF StopDebug
      <3>6. requests' \in [Pair -> Seq(Request)]
        BY <2>1, <3>5 DEF StopDebug, Typed, TypeOK
      <3> QED
        BY <3>2, <3>3, <3>4, <3>5, <3>6 DEF Typed, TypeOK
    <2>2. CASE UNCHANGED <<isDebugged, debuggerClient, open, requests>>
      BY <1>1, <2>2 DEF Disconnect, Typed, TypeOK
    <2> QED
      BY <1>1, <2>1, <2>2 DEF Disconnect
  <1>2. CASE \E p \in Proc : StartDebug(c, p)
    <2>1. PICK p \in Proc : StartDebug(c, p)
      BY <1>2
    <2>2. CASE UNCHANGED <<pairs, open, procVars>>
      BY <2>1, <2>2 DEF StartDebug, procVars, Typed, TypeOK
    <2>3. CASE /\ pairs < MaxPairs /\ pairs' = pairs + 1 /\ open' = open \cup {pairs + 1}
               /\ isDebugged' = [isDebugged EXCEPT ![p] = TRUE]
               /\ debuggerThreadID' = [debuggerThreadID EXCEPT ![p] = c]
               /\ debuggerClient' = [debuggerClient EXCEPT ![p] = pairs + 1]
      <3>1. pairs + 1 \in 0 .. MaxPairs /\ open' \subseteq 1 .. pairs'
        BY <2>3, ChannelAssumption DEF Typed, TypeOK
      <3> QED
        BY <2>1, <2>3, <3>1 DEF StartDebug, Typed, TypeOK
    <2> QED
      BY <2>1, <2>2, <2>3 DEF StartDebug
  <1> QED
    BY <1>1, <1>2

\* A command of a client keeps the types.
LEMMA ClientCommandTyped ==
  ASSUME Typed, NEW c \in Conn, NEW p \in Proc, NEW kind \in Kinds, ClientCommand(c, p, kind)
  PROVE  Typed'
  <1>1. /\ Begin(c, p, kind, NoOne, 0, FALSE) /\ lastRead' = [lastRead EXCEPT ![c] = "s"]
        /\ UNCHANGED <<isDebuggerThread, debugfd, procVars, pairVars, owner, sem>>
    BY DEF ClientCommand, FromClient
  <1>2. /\ at' \in [Conn -> Places] /\ at'[c] \in {"exec", "lock"}
        /\ call' \in [Conn -> Call]
        /\ call'[c] = NewCall(p, kind, NoOne, 0, FALSE, Session(p))
        /\ \A d \in Conn \ {c} : at'[d] = at[d] /\ call'[d] = call[d]
    <2>1. 0 \in 0 .. MaxPairs
      BY ChannelAssumption
    <2> QED
      BY <1>1, <2>1, BeginTyped
  <1>3. /\ call'[c].proc = p /\ call'[c].kind = kind /\ ~call'[c].nested /\ call'[c].into = 0
    BY <1>2 DEF NewCall
  <1>4. lastRead' \in [Conn -> {"s", "debugfd"}] /\ replies' \in [Pair -> Seq(Reply)]
    BY <1>1 DEF Typed, TypeOK, pairVars
  <1>5. UNCHANGED <<requests, owner, sem>>
    BY <1>1 DEF pairVars
  <1>6. /\ requests' \in [Pair -> Seq(Request)]
        /\ \A k \in Pair : \A i \in DOMAIN requests'[k] : requests'[k][i].kind \in Kinds
        /\ owner' \in Conn \cup {NoOne} /\ sem' \in 0 .. MaxPosts
    BY <1>5, RestTyped
  <1>7. /\ at'[c] \in Busy /\ at'[c] # "wait" /\ at'[c] # "recv"
    BY <1>2 DEF Busy, Forwarding
  <1>8. UNCHANGED <<isDebuggerThread, debugfd, procVars, pairs, open>>
    BY <1>1 DEF pairVars
  <1> QED
    BY <1>2, <1>3, <1>4, <1>6, <1>7, <1>8, CallTyped

\* Every step keeps the types.
LEMMA TypedStep ==
  ASSUME Typed, [Next]_vars
  PROVE  Typed'
  <1>1. ASSUME NEW c \in Conn, Client(c)
        PROVE  Typed'
    <2>1. CASE \E p \in Proc, kind \in Kinds : ClientCommand(c, p, kind)
      BY <2>1, ClientCommandTyped
    <2>2. CASE Disconnect(c) \/ \E p \in Proc : StartDebug(c, p)
      BY <2>2, QuietSteps, SessionTyped, QuietTyped
    <2>3. CASE newconnection(c) \/ WaitForDebugEvent(c) \/ CloseConnection(c) \/ ReadError(c)
      <3>1. UNCHANGED <<procVars, pairVars>>
        BY <2>3 DEF newconnection, WaitForDebugEvent, CloseConnection, ReadError
      <3> QED
        BY <2>3, <3>1, QuietSteps, QuietTyped DEF Typed, TypeOK, procVars, pairVars
    <2> QED
      BY <1>1, <2>1, <2>2, <2>3 DEF Client
  <1>2. ASSUME NEW c \in Conn, Forwards(c)
        PROVE  Typed'
    BY <1>2, LockDoes, SendTyped, BindDoes, ReceiveDoes, UnlockDoes DEF Forwards
  <1>3. ASSUME NEW c \in Conn, Dispatches(c)
        PROVE  Typed'
    <2>1. CASE ReadsDebugfd(c)
      <3>1. lastRead' \in [Conn -> {"s", "debugfd"}]
        BY <2>1 DEF ReadsDebugfd, Typed, TypeOK
      <3>2. sem' \in 0 .. MaxPosts
        BY <2>1 DEF ReadsDebugfd, Typed, TypeOK
      <3>3. FALSE \in BOOLEAN
        OBVIOUS
      <3> QED
        BY <2>1, <3>1, <3>2, <3>3, TakeTyped DEF ReadsDebugfd, Readable
    <2>2. CASE SelectFails(c) \/ TimesOut(c)
      <3>1. UNCHANGED <<procVars, pairVars>>
        BY <2>2 DEF SelectFails, TimesOut
      <3> QED
        BY <2>2, <3>1, QuietSteps, QuietTyped DEF Typed, TypeOK, procVars, pairVars
    <2>3. CASE WakesUp(c)
      <3>1. /\ isDebuggerThread[c] # NoOne /\ at[c] = "wait"
            /\ sem' \in 0 .. MaxPosts
            /\ UNCHANGED <<isDebuggerThread, debugfd, lastRead, procVars, owner>>
            /\ lastRead' \in [Conn -> {"s", "debugfd"}]
        BY <2>3, ChannelAssumption DEF WakesUp, Typed, TypeOK, CallsOwned
      <3> DEFINE k == debuggerClient[isDebuggerThread[c]]
      <3>2. CASE k \in open /\ requests[k] # <<>> /\ Take(c, k, TRUE)
        <4> HIDE DEF k
        <4>1. TRUE \in BOOLEAN
          OBVIOUS
        <4> QED
          BY <3>1, <3>2, <4>1, TakeTyped
      <3>3. CASE (Goto(c, "wait") \/ Goto(c, "loop")) /\ UNCHANGED <<call, pairVars>>
        <4>3. Quiet(c)
          BY <2>3, <3>3, WakesQuietly
        <4> QED
          BY <3>1, <3>3, <4>3, QuietTyped DEF Typed, TypeOK, procVars, pairVars
      <3> QED
        BY <2>3, <3>2, <3>3 DEF WakesUp
    <2>4. CASE Finish(c)
      BY <2>4, FinishDoes
    <2> QED
      BY <1>3, <2>1, <2>2, <2>3, <2>4 DEF Dispatches
  <1>4. CASE mychildhandler
    <2>1. sem' \in 0 .. MaxPosts
      BY <1>4, PostTyped DEF mychildhandler
    <2> QED
      BY <1>4, <2>1 DEF mychildhandler, Typed, TypeOK, CallsOwned, threadVars, procVars, pairVars
  <1>5. CASE UNCHANGED vars
    BY <1>5 DEF vars, Typed, TypeOK, CallsOwned, threadVars, procVars, pairVars
  <1>6. ASSUME NEW c \in Conn, Blocks(c)
        PROVE  Typed'
    BY <1>6, BlocksDoes
  <1> QED
    BY <1>1, <1>2, <1>3, <1>4, <1>5, <1>6 DEF Next

\* They hold at first.
LEMMA TypedInit == Init => Typed
  <1> SUFFICES ASSUME Init PROVE Typed
    OBVIOUS
  <1>1. TypeOK
    BY NoCallType, ChannelAssumption DEF Init, TypeOK, Places
  <1>2. CallsOwned
    BY NoCallType DEF Init, CallsOwned, Busy, Forwarding
  <1> QED
    BY <1>1, <1>2 DEF Typed

\* Every connection, process and pair has a value that the code can give it.
THEOREM TypeCorrect == Spec => []TypeOK
  <1>1. Typed => TypeOK
    BY DEF Typed
  <1>2. Typed /\ [Next]_vars => Typed'
    BY TypedStep
  <1> QED
    BY <1>1, <1>2, TypedInit, PTL DEF Spec
-----------------------------------------------------------------------------
(* One command at a time, answered to who asked.                            *)

\* Who awaits an answer holds the lock: there is one at most.
LEMMA AwaitsOwns ==
  ASSUME IInv, NEW c, NEW k, Awaits(c, k)
  PROVE  owner = c /\ c \in Conn
  BY DEF IInv, OneExchange, Awaits, Exchanging

\* At first there are no sessions, no pairs and no calls.
LEMMA IInvInit == Init => IInv
  <1> SUFFICES ASSUME Init PROVE IInv
    OBVIOUS
  <1>1. Typed
    BY TypedInit
  <1>2. SessionsApart
    BY DEF Init, SessionsApart
  <1>3. OneExchange
    BY ChannelAssumption DEF Init, OneExchange, Exchanging
  <1>4. NoFuture
    BY NoCallType, ChannelAssumption DEF Init, NoFuture
  <1>5. CallsFollow
    BY NoCallType DEF Init, CallsFollow
  <1>6. OneCommand
    BY DEF Init, OneCommand
  <1>7. ReadsOwn
    BY DEF Init, ReadsOwn
  <1> QED
    BY <1>1, <1>2, <1>3, <1>4, <1>5, <1>6, <1>7 DEF IInv

\* A thread without a command moves, and nothing else happens.
LEMMA QuietKeeps ==
  ASSUME IInv, Typed', NEW c \in Conn, Quiet(c), UNCHANGED <<procVars, pairVars>>
  PROVE  IInv'
  <1> USE DEF Quiet, procVars, pairVars
  <1>1. SessionsApart'
    BY DEF IInv, SessionsApart
  <1>2. OneExchange'
    BY DEF IInv, OneExchange, Exchanging, Busy, Forwarding
  <1>3. NoFuture'
    BY DEF IInv, NoFuture
  <1>4. CallsFollow'
    BY DEF IInv, CallsFollow, Session, Busy, Forwarding
  <1>5. OneCommand'
    <2>1. \A d, k : Awaits(d, k) => Awaits(d, k)'
      BY DEF Awaits, Busy, Forwarding
    <2> QED
      BY <2>1 DEF IInv, OneCommand
  <1>6. ReadsOwn'
    BY DEF IInv, ReadsOwn, Busy, Forwarding
  <1> QED
    BY <1>1, <1>2, <1>3, <1>4, <1>5, <1>6 DEF IInv

\* A session begins: its pair is new to everyone.
LEMMA StartKeeps ==
  ASSUME IInv, Typed', NEW c \in Conn, NEW p \in Proc, StartDebug(c, p)
  PROVE  IInv'
  <1>1. Quiet(c) /\ at[c] = "loop" /\ UNCHANGED <<at, call, requests, replies, owner>>
    BY QuietSteps DEF StartDebug, ReadsClient, IInv
  <1>2. CASE UNCHANGED <<pairs, open, procVars>>
    BY <1>1, <1>2, QuietKeeps DEF pairVars
  <1>3. CASE /\ ~isDebugged[p] /\ pairs < MaxPairs
             /\ pairs' = pairs + 1 /\ open' = open \cup {pairs + 1}
             /\ isDebugged' = [isDebugged EXCEPT ![p] = TRUE]
             /\ debuggerClient' = [debuggerClient EXCEPT ![p] = pairs + 1]
    <2> DEFINE n == pairs + 1
    <2>1. /\ pairs \in Nat /\ n \in Pair /\ n > pairs /\ n # 0 /\ n \notin open
          /\ \A k \in open : k <= pairs
      BY <1>3, OpenPairs, ChannelAssumption DEF IInv, Typed, TypeOK, Pair
    <2>2. /\ isDebugged \in [Proc -> BOOLEAN] /\ debuggerClient \in [Proc -> 0 .. MaxPairs]
          /\ call \in [Conn -> Call]
      BY DEF IInv, Typed, TypeOK
    <2>3. debuggerClient[p] = 0 /\ \A q \in Proc : debuggerClient[q] # n
      <3>1. debuggerClient[p] = 0
        BY <1>3 DEF IInv, SessionsApart
      <3>2. ASSUME NEW q \in Proc, debuggerClient[q] = n
            PROVE  FALSE
        BY <3>2, <2>1 DEF IInv, SessionsApart
      <3> QED
        BY <3>1, <3>2
    <2>4. \A q \in Proc \ {p} : /\ isDebugged'[q] = isDebugged[q]
                                 /\ debuggerClient'[q] = debuggerClient[q]
      BY <1>3, <2>2
    <2>5. isDebugged'[p] /\ debuggerClient'[p] = n /\ open' = open \cup {n}
      BY <1>3, <2>2
    <2> HIDE DEF n
    <2>6. SessionsApart'
      <3>1. \A q \in Proc : isDebugged'[q] <=> debuggerClient'[q] # 0
        BY <2>1, <2>4, <2>5 DEF IInv, SessionsApart
      <3>2. \A q \in Proc : isDebugged'[q] => debuggerClient'[q] \in open'
        BY <2>4, <2>5 DEF IInv, SessionsApart
      <3>3. \A k \in open' : \E q \in Proc : debuggerClient'[q] = k
        <4>1. ASSUME NEW k \in open
              PROVE  \E q \in Proc : debuggerClient'[q] = k
          <5>1. PICK q \in Proc : debuggerClient[q] = k
            BY DEF IInv, SessionsApart
          <5>2. q # p
            BY <5>1, <2>3, OpenPairs DEF IInv
          <5> QED
            BY <5>1, <5>2, <2>4
        <4> QED
          BY <4>1, <2>5
      <3>4. ASSUME NEW q \in Proc, NEW u \in Proc, debuggerClient'[q] = debuggerClient'[u],
                   isDebugged'[q]
            PROVE  q = u
        BY <3>4, <2>3, <2>4, <2>5 DEF IInv, SessionsApart
      <3> QED
        BY <3>1, <3>2, <3>3, <3>4 DEF SessionsApart
    <2>7. OneExchange'
      BY <1>1 DEF IInv, OneExchange
    <2>8. NoFuture'
      <3>1. \A k \in Pair : k > pairs' => k > pairs
        BY <1>3, <2>1 DEF Pair
      <3>2. \A d \in Conn : /\ call[d].into <= pairs' /\ call[d].since <= pairs'
                            /\ call[d].sent <= pairs'
        BY <1>3, <2>1, <2>2 DEF IInv, NoFuture, Call
      <3> QED
        BY <1>1, <3>1, <3>2 DEF IInv, NoFuture
    <2>9. CallsFollow'
      <3> SUFFICES ASSUME NEW d \in Conn
                   PROVE  /\ at[d] \in {"lock", "send"} => call[d].sent = 0
                          /\ at[d] # "unlock" => ~call[d].ok
                          /\ at[d] \in {"bind", "recv"} /\ call[d].sent \in open'
                               => debuggerClient'[call[d].proc] = call[d].sent
                          /\ at[d] = "recv" => call[d].reads \in 1 .. pairs'
                          /\ at[d] = "recv" /\ call[d].sent \in open'
                               => call[d].reads = call[d].sent
                          /\ at[d] = "recv" /\ call[d].since # 0
                               /\ Session(call[d].proc)' = call[d].since
                               => call[d].reads = call[d].since
        BY <1>1 DEF CallsFollow, Session
      <3>1. call[d] \in Call /\ call[d].sent # n /\ call[d].since # n
        BY <2>1, <2>2 DEF IInv, NoFuture, Call
      <3>2. at[d] \in {"bind", "recv"} => call[d].proc \in Proc
        BY DEF IInv, Typed, CallsOwned, Busy, Forwarding
      <3>3. call[d].sent \in open' => call[d].sent \in open
        BY <2>5, <3>1
      <3>4. ASSUME at[d] \in {"bind", "recv"}, call[d].sent \in open
            PROVE  debuggerClient'[call[d].proc] = call[d].sent
        <4>1. debuggerClient[call[d].proc] = call[d].sent /\ call[d].sent # 0
          BY <3>4, OpenPairs DEF IInv, CallsFollow
        <4> QED
          BY <4>1, <2>3, <2>4, <3>2, <3>4
      <3>5. ASSUME at[d] = "recv", call[d].since # 0, Session(call[d].proc)' = call[d].since
            PROVE  call[d].reads = call[d].since
        <4>1. call[d].proc # p
          BY <1>1, <3>1, <3>5, <2>5 DEF Session
        <4>2. Session(call[d].proc) = call[d].since
          BY <4>1, <1>1, <3>2, <3>5, <2>4 DEF Session
        <4> QED
          BY <4>2, <3>5 DEF IInv, CallsFollow
      <3>6. at[d] = "recv" => call[d].reads \in 1 .. pairs'
        BY <1>3, <2>1 DEF IInv, CallsFollow
      <3> QED
        BY <3>3, <3>4, <3>5, <3>6 DEF IInv, CallsFollow
    <2>10. OneCommand'
      <3>1. \A d, k : Awaits(d, k) => Awaits(d, k)'
        BY <1>1 DEF Awaits
      <3>2. requests[n] = <<>> /\ replies[n] = <<>> /\ \A d \in Conn : call[d].into # n
        BY <2>1, <2>2 DEF IInv, NoFuture, Call
      <3> QED
        BY <1>1, <2>5, <3>1, <3>2 DEF IInv, OneCommand
    <2>11. ReadsOwn'
      BY <1>1 DEF IInv, ReadsOwn
    <2> QED
      BY <2>6, <2>7, <2>8, <2>9, <2>10, <2>11 DEF IInv
  <1> QED
    BY <1>2, <1>3 DEF StartDebug

\* A session ends: its pair is closed, with what is left of its answers.
LEMMA StopKeeps ==
  ASSUME IInv, Typed', NEW c \in Conn, Quiet(c), NEW p \in Proc, StopDebug(p),
         UNCHANGED <<pairs, replies>>
  PROVE  IInv'
  <1> USE DEF Quiet
  <1> DEFINE n == debuggerClient[p]
  <1>1. /\ isDebugged' = [isDebugged EXCEPT ![p] = FALSE]
        /\ debuggerClient' = [debuggerClient EXCEPT ![p] = 0]
        /\ open' = open \ {n}
        /\ \A k \in Pair : requests'[k] = IF k = n THEN <<>> ELSE requests[k]
    BY DEF StopDebug
  <1>2. /\ isDebugged \in [Proc -> BOOLEAN] /\ debuggerClient \in [Proc -> 0 .. MaxPairs]
        /\ call \in [Conn -> Call]
    BY DEF IInv, Typed, TypeOK
  <1>3. /\ ~isDebugged'[p] /\ debuggerClient'[p] = 0
        /\ \A q \in Proc \ {p} : /\ isDebugged'[q] = isDebugged[q]
                                 /\ debuggerClient'[q] = debuggerClient[q]
    BY <1>1, <1>2
  <1> HIDE DEF n
  <1>4. SessionsApart'
    <2>1. \A q \in Proc : isDebugged'[q] <=> debuggerClient'[q] # 0
      BY <1>3 DEF IInv, SessionsApart
    <2>2. ASSUME NEW q \in Proc, isDebugged'[q]
          PROVE  debuggerClient'[q] \in open'
      <3>1. q # p /\ isDebugged[q] /\ debuggerClient[q] \in open
        BY <1>3, <2>2 DEF IInv, SessionsApart
      <3>2. debuggerClient[q] # n
        BY <3>1 DEF IInv, SessionsApart, n
      <3> QED
        BY <1>1, <1>3, <3>1, <3>2
    <2>3. ASSUME NEW k \in open'
          PROVE  \E q \in Proc : debuggerClient'[q] = k
      <3>1. k \in open /\ k # n
        BY <1>1
      <3>2. PICK q \in Proc : debuggerClient[q] = k
        BY <3>1 DEF IInv, SessionsApart
      <3> QED
        BY <1>3, <3>1, <3>2 DEF n
    <2>4. ASSUME NEW q \in Proc, NEW u \in Proc, debuggerClient'[q] = debuggerClient'[u],
                 isDebugged'[q]
          PROVE  q = u
      BY <2>4, <2>1, <1>3 DEF IInv, SessionsApart
    <2> QED
      BY <2>1, <2>2, <2>3, <2>4 DEF SessionsApart
  <1>5. OneExchange'
    BY DEF IInv, OneExchange, Exchanging, Busy, Forwarding
  <1>6. NoFuture'
    BY <1>1 DEF IInv, NoFuture
  <1>7. CallsFollow'
    <2> SUFFICES ASSUME NEW d \in Conn
                 PROVE  /\ at'[d] \in {"lock", "send"} => call[d].sent = 0
                        /\ at'[d] # "unlock" => ~call[d].ok
                        /\ at'[d] \in {"bind", "recv"} /\ call[d].sent \in open'
                             => debuggerClient'[call[d].proc] = call[d].sent
                        /\ at'[d] = "recv" => call[d].reads \in 1 .. pairs'
                        /\ at'[d] = "recv" /\ call[d].sent \in open'
                             => call[d].reads = call[d].sent
                        /\ at'[d] = "recv" /\ call[d].since # 0
                             /\ Session(call[d].proc)' = call[d].since
                             => call[d].reads = call[d].since
      BY DEF CallsFollow, Session
    <2>1. at'[d] = at[d] \/ (at'[d] \notin Busy /\ at[d] \notin Busy)
      BY SMT DEF Quiet
    <2>2. at'[d] \in {"bind", "recv"} => at[d] = at'[d] /\ call[d].proc \in Proc
      BY <2>1 DEF IInv, Typed, CallsOwned, Busy, Forwarding
    <2>3. ASSUME at'[d] \in {"bind", "recv"}, call[d].sent \in open'
          PROVE  debuggerClient'[call[d].proc] = call[d].sent
      <3>1. debuggerClient[call[d].proc] = call[d].sent /\ call[d].sent # n
        BY <1>1, <2>2, <2>3 DEF IInv, CallsFollow
      <3> QED
        BY <3>1, <1>3, <2>2, <2>3 DEF n
    <2>4. ASSUME at'[d] = "recv", call[d].since # 0, Session(call[d].proc)' = call[d].since
          PROVE  call[d].reads = call[d].since
      <3>1. call[d].proc \in Proc /\ at[d] = "recv"
        BY <2>2, <2>4
      <3>2. call[d].proc # p
        BY <2>4, <1>3 DEF Session
      <3>3. Session(call[d].proc) = call[d].since
        BY <2>4, <3>1, <3>2, <1>3 DEF Session
      <3> QED
        BY <3>1, <3>3, <2>4 DEF IInv, CallsFollow
    <2> QED
      BY <1>1, <2>1, <2>3, <2>4 DEF IInv, CallsFollow, Busy, Forwarding
  <1>8. OneCommand'
    <2>1. \A d, k : Awaits(d, k) => Awaits(d, k)'
      BY DEF Awaits, Busy, Forwarding
    <2>2. \A k \in open' : k \in open /\ requests'[k] = requests[k]
      BY <1>1, OpenPairs DEF IInv
    <2> QED
      BY <2>1, <2>2 DEF IInv, OneCommand
  <1>9. ReadsOwn'
    BY DEF IInv, ReadsOwn, Busy, Forwarding
  <1> QED
    BY <1>4, <1>5, <1>6, <1>7, <1>8, <1>9 DEF IInv
\* A step of one thread that leaves the sessions alone: what has to be shown of
\* its call, and of what is in the pairs.
LEMMA AloneKeeps ==
  ASSUME IInv, Typed', NEW c \in Conn, Alone(c), UNCHANGED <<procVars, pairs, open>>,
         at'[c] \in Exchanging <=> owner' = c,
         \A d \in Conn \ {c} : owner' = d <=> owner = d,
         \A k \in Pair : k > pairs => requests'[k] = <<>> /\ replies'[k] = <<>>,
         call'[c].into <= pairs, call'[c].since <= pairs, call'[c].sent <= pairs,
         at'[c] \in {"lock", "send"} => call'[c].sent = 0,
         at'[c] # "unlock" => ~call'[c].ok,
         at'[c] \in {"bind", "recv"} /\ call'[c].sent \in open
           => debuggerClient[call'[c].proc] = call'[c].sent,
         at'[c] = "recv" => call'[c].reads \in 1 .. pairs,
         at'[c] = "recv" /\ call'[c].sent \in open => call'[c].reads = call'[c].sent,
         at'[c] = "recv" /\ call'[c].since # 0 /\ Session(call'[c].proc) = call'[c].since
           => call'[c].reads = call'[c].since,
         OneCommand', ReadsOwn'
  PROVE  IInv'
  <1> USE DEF Alone, procVars
  <1>1. SessionsApart'
    BY DEF IInv, SessionsApart
  <1>2. OneExchange'
    BY DEF IInv, OneExchange
  <1>3. NoFuture'
    BY DEF IInv, NoFuture
  <1>4. CallsFollow'
    <2> SUFFICES ASSUME NEW d \in Conn
                 PROVE  /\ at'[d] \in {"lock", "send"} => call'[d].sent = 0
                        /\ at'[d] # "unlock" => ~call'[d].ok
                        /\ at'[d] \in {"bind", "recv"} /\ call'[d].sent \in open
                             => debuggerClient[call'[d].proc] = call'[d].sent
                        /\ at'[d] = "recv" => call'[d].reads \in 1 .. pairs
                        /\ at'[d] = "recv" /\ call'[d].sent \in open
                             => call'[d].reads = call'[d].sent
                        /\ at'[d] = "recv" /\ call'[d].since # 0
                             /\ Session(call'[d].proc) = call'[d].since
                             => call'[d].reads = call'[d].since
      BY DEF CallsFollow, Session
    <2>1. CASE d = c
      BY <2>1
    <2>2. CASE d # c
      BY <2>2 DEF IInv, CallsFollow
    <2> QED
      BY <2>1, <2>2
  <1> QED
    BY <1>1, <1>2, <1>3, <1>4 DEF IInv

\* OneCommand after a step, pair by pair.
AwaitsNext(c, k) == c \in Conn /\ at'[c] \in {"bind", "recv"} /\ call'[c].sent = k
OneCommandIn(k, req, rep) ==
  /\ req # <<>> =>
       /\ Len(req) = 1
       /\ AwaitsNext(Head(req).from, k)
       /\ rep = <<>>
       /\ \A d \in Conn : call'[d].into # k
  /\ \A d \in Conn : call'[d].into = k =>
       /\ AwaitsNext(call'[d].from, k)
       /\ rep = <<>>
       /\ \A e \in Conn : call'[e].into = k => e = d
  /\ rep # <<>> => \E c \in Conn : AwaitsNext(c, k) /\ AnswerTo(c, rep)

\* What OneCommand says of the next state, for one pair at a time.
LEMMA OneCommandNext ==
  ASSUME \A k \in open' : OneCommandIn(k, requests'[k], replies'[k])
  PROVE  OneCommand'
  BY DEF OneCommand, OneCommandIn, AwaitsNext, Awaits

\* A pair with one command is empty after it was taken.
LEMMA TailOfOne ==
  ASSUME NEW S, NEW s \in Seq(S), Len(s) = 1
  PROVE  Tail(s) = <<>>
  <1>1. Tail(s) \in Seq(S) /\ Len(Tail(s)) = 0
    OBVIOUS
  <1> QED
    BY <1>1, EmptySeq

\* What NoFuture says of the pairs holds for pairs that change only when open.
LEMMA ClosedStay ==
  ASSUME IInv, \A k \in Pair \ open : requests'[k] = requests[k] /\ replies'[k] = replies[k]
  PROVE  \A k \in Pair : k > pairs => requests'[k] = <<>> /\ replies'[k] = <<>>
  <1> SUFFICES ASSUME NEW k \in Pair, k > pairs
               PROVE  requests'[k] = <<>> /\ replies'[k] = <<>>
    OBVIOUS
  <1>1. k \notin open
    BY OpenPairs, ChannelAssumption DEF IInv, Typed, TypeOK, Pair
  <1> QED
    BY <1>1 DEF IInv, NoFuture

\* The numbers of pairs in the call of a thread.
LEMMA CallBounds ==
  ASSUME IInv, NEW c \in Conn
  PROVE  /\ call[c] \in Call
         /\ call[c].into <= pairs /\ call[c].since <= pairs /\ call[c].sent <= pairs
         /\ pairs \in Nat /\ 0 <= pairs
  BY ChannelAssumption DEF IInv, NoFuture, Typed, TypeOK

\* The session of a process is one of the pairs made so far.
LEMMA SessionBound ==
  ASSUME IInv, NEW p \in Proc
  PROVE  Session(p) \in 0 .. pairs
  <1>1. pairs \in Nat
    BY ChannelAssumption DEF IInv, Typed, TypeOK
  <1>2. isDebugged[p] => debuggerClient[p] \in 1 .. pairs
    BY OpenPairs DEF IInv, SessionsApart
  <1> QED
    BY <1>1, <1>2 DEF Session

\* A client's command: nothing is sent yet.
LEMMA ClientCommandKeeps ==
  ASSUME IInv, Typed', NEW c \in Conn, NEW p \in Proc, NEW kind \in Kinds,
         ClientCommand(c, p, kind)
  PROVE  IInv'
  <1>1. /\ Begin(c, p, kind, NoOne, 0, FALSE) /\ at[c] = "loop"
        /\ UNCHANGED <<procVars, pairVars, owner>>
    BY DEF ClientCommand, ReadsClient
  <1>2. /\ Alone(c) /\ at'[c] \in {"exec", "lock"}
        /\ call'[c] = NewCall(p, kind, NoOne, 0, FALSE, Session(p))
    <2>1. 0 \in 0 .. MaxPairs
      BY ChannelAssumption
    <2> QED
      BY <1>1, <2>1, BeginTyped DEF IInv, Alone
  <1>3. /\ call'[c].into = 0 /\ call'[c].since = Session(p) /\ call'[c].sent = 0
        /\ ~call'[c].ok
    BY <1>2 DEF NewCall
  <1>4. call'[c].into <= pairs /\ call'[c].since <= pairs /\ call'[c].sent <= pairs
    BY <1>3, SessionBound, CallBounds
  <1>5. (at'[c] \in Exchanging <=> owner' = c) /\ UNCHANGED <<requests, replies, pairs, open, owner>>
    BY <1>1, <1>2 DEF IInv, OneExchange, Exchanging, pairVars
  <1>6. OneCommand'
    <2>1. \A d, k : Awaits(d, k) => Awaits(d, k)'
      BY <1>1, <1>2 DEF Awaits, Alone
    <2>2. \A d \in Conn, k \in open : call'[d].into = k => call[d].into = k /\ call'[d] = call[d]
      BY <1>2, <1>3, OpenPairs DEF Alone, IInv
    <2> QED
      BY <1>5, <2>1, <2>2 DEF IInv, OneCommand
  <1>7. ReadsOwn'
    BY <1>2, <1>5 DEF IInv, ReadsOwn, Alone
  <1>8. \A k \in Pair : k > pairs => requests'[k] = <<>> /\ replies'[k] = <<>>
    BY <1>5, ClosedStay
  <1> QED
    BY <1>1, <1>2, <1>3, <1>4, <1>5, <1>6, <1>7, <1>8, AloneKeeps

\* The debugger thread takes a command: it is the only one in the pair, and it
\* is carried out for the connection that waits.
LEMMA TakeKeeps ==
  ASSUME IInv, Typed', Kinds \cap Unhandled = {},
         NEW c \in Conn, NEW k \in open, NEW nested \in BOOLEAN,
         at[c] \in {"loop", "wait"}, requests[k] # <<>>, Take(c, k, nested),
         UNCHANGED <<procVars, owner>>
  PROVE  IInv'
  <1> DEFINE r == Head(requests[k])
  <1>1. k \in Pair /\ k \in 0 .. MaxPairs /\ requests[k] \in Seq(Request) /\ r \in Request
    BY OpenPairs, ChannelAssumption DEF IInv, Typed, TypeOK, Pair
  <1>2. r.kind \in Kinds /\ r.kind \notin Unhandled /\ r.proc \in Proc /\ r.from \in Conn
    <2>1. 1 \in DOMAIN requests[k] /\ r = requests[k][1]
      BY <1>1
    <2>2. r.kind \in Kinds
      BY <1>1, <2>1 DEF IInv, Typed, CallsOwned
    <2> QED
      BY <1>1, <2>2 DEF Request
  <1>3. /\ requests' = [requests EXCEPT ![k] = Tail(@)]
        /\ Begin(c, r.proc, r.kind, r.from, k, nested)
        /\ UNCHANGED <<pairs, open, replies>>
    BY <1>2 DEF Take
  <1>4. /\ Len(requests[k]) = 1 /\ Awaits(r.from, k) /\ replies[k] = <<>>
        /\ \A d \in Conn : call[d].into # k
    BY DEF IInv, OneCommand
  <1>5. requests'[k] = <<>> /\ \A j \in Pair \ {k} : requests'[j] = requests[j]
    <2>1. Tail(requests[k]) = <<>>
      BY <1>1, <1>4, TailOfOne
    <2> QED
      BY <1>1, <1>3, <2>1 DEF IInv, Typed, TypeOK
  <1> HIDE DEF r
  <1>6. /\ Alone(c) /\ at'[c] \in {"exec", "lock"}
        /\ call'[c] = NewCall(r.proc, r.kind, r.from, k, nested, Session(r.proc))
    BY <1>1, <1>2, <1>3, BeginTyped DEF IInv, Alone
  <1>7. /\ call'[c].into = k /\ call'[c].since = Session(r.proc) /\ call'[c].sent = 0
        /\ ~call'[c].ok /\ call'[c].from = r.from
    BY <1>6 DEF NewCall
  <1>8. call'[c].into <= pairs /\ call'[c].since <= pairs /\ call'[c].sent <= pairs
    <2>1. k <= pairs
      BY OpenPairs, CallBounds DEF IInv
    <2> QED
      BY <1>2, <1>7, <2>1, SessionBound, CallBounds
  <1>9. (at'[c] \in Exchanging <=> owner' = c) /\ UNCHANGED owner
    BY <1>6 DEF IInv, OneExchange, Exchanging
  <1>10. \A d, j : Awaits(d, j) => AwaitsNext(d, j)
    BY <1>6 DEF Awaits, AwaitsNext, Alone
  <1>11. OneCommand'
    <2> SUFFICES ASSUME NEW j \in open
                 PROVE  OneCommandIn(j, requests'[j], replies[j])
      BY <1>3, OneCommandNext
    <2>0. j \in Pair
      BY OpenPairs DEF IInv
    <2>1. CASE j = k
      <3>1. \A d \in Conn : call'[d].into = k => d = c
        BY <1>4, <1>6 DEF Alone
      <3>2. AwaitsNext(call'[c].from, k)
        BY <1>4, <1>7, <1>10
      <3>3. ASSUME NEW d \in Conn, call'[d].into = j
            PROVE  /\ AwaitsNext(call'[d].from, j)
                   /\ \A e \in Conn : call'[e].into = j => e = d
        BY <2>1, <3>1, <3>2, <3>3
      <3> QED
        BY <2>1, <3>3, <1>4, <1>5 DEF OneCommandIn
    <2>2. CASE j # k
      <3>1. requests'[j] = requests[j]
        BY <2>0, <2>2, <1>5
      <3>2. \A d \in Conn : call'[d].into = j => d # c /\ call'[d] = call[d]
        BY <2>2, <1>6, <1>7 DEF Alone
      <3>3. \A d \in Conn : call[d].into = j => d # c
        BY NoCallType, OpenPairs DEF IInv, Typed, CallsOwned, Busy, Forwarding
      <3> QED
        BY <3>1, <3>2, <3>3, <1>10 DEF IInv, OneCommand, OneCommandIn
    <2> QED
      BY <2>1, <2>2
  <1>12. ReadsOwn'
    BY <1>3, <1>6 DEF IInv, ReadsOwn, Alone
  <1>13. \A j \in Pair : j > pairs => requests'[j] = <<>> /\ replies'[j] = <<>>
    BY <1>3, <1>5, ClosedStay
  <1> QED
    BY <1>3, <1>6, <1>7, <1>8, <1>9, <1>11, <1>12, <1>13, AloneKeeps
\* A pair for which nobody waits is empty.
LEMMA EmptyPair ==
  ASSUME IInv, NEW k \in open, \A c \in Conn : ~Awaits(c, k)
  PROVE  requests[k] = <<>> /\ replies[k] = <<>> /\ \A d \in Conn : call[d].into # k
  <1>1. \A c : ~Awaits(c, k)
    BY DEF Awaits
  <1> QED
    BY <1>1 DEF IInv, OneCommand

\* The mutex is taken when no exchange is under way.
LEMMA LockKeeps ==
  ASSUME IInv, Typed', NEW c \in Conn, Lock(c)
  PROVE  IInv'
  <1>1. /\ at[c] = "lock" /\ at'[c] = "send" /\ owner = NoOne /\ owner' = c
        /\ Alone(c) /\ Elsewhere /\ UNCHANGED <<call, requests, replies>>
    BY LockDoes DEF IInv
  <1>2. UNCHANGED <<procVars, pairs, open>>
    BY <1>1 DEF Elsewhere
  <1>3. OneCommand'
    <2>1. \A d, k : Awaits(d, k) => Awaits(d, k)'
      BY <1>1 DEF Awaits, Alone
    <2> QED
      BY <1>1, <1>2, <2>1 DEF IInv, OneCommand
  <1>4. ReadsOwn'
    BY <1>1 DEF IInv, ReadsOwn, Alone
  <1>5. \A k \in Pair : k > pairs => requests'[k] = <<>> /\ replies'[k] = <<>>
    BY <1>1, ClosedStay
  <1>6. /\ at'[c] \in Exchanging <=> owner' = c
        /\ \A d \in Conn \ {c} : owner' = d <=> owner = d
    BY <1>1, ChannelAssumption DEF Exchanging
  <1>7. call[c].sent = 0 /\ ~call[c].ok
    BY <1>1 DEF IInv, CallsFollow
  <1> QED
    BY <1>1, <1>2, <1>3, <1>4, <1>5, <1>6, <1>7, CallBounds, AloneKeeps

\* Who awaits the answer of a command that blocks goes on to do so.
LEMMA BlocksKeeps ==
  ASSUME IInv, Typed', NEW c \in Conn, Blocks(c)
  PROVE  IInv'
  <1>1. /\ at[c] = "exec" /\ at'[c] = "stuck"
        /\ Alone(c) /\ Elsewhere /\ UNCHANGED <<call, requests, replies, owner>>
    BY BlocksDoes DEF IInv
  <1>2. UNCHANGED <<procVars, pairs, open>>
    BY <1>1 DEF Elsewhere
  <1>3. OneCommand'
    <2>1. \A d, k : Awaits(d, k) => Awaits(d, k)'
      BY <1>1 DEF Awaits, Alone
    <2> QED
      BY <1>1, <1>2, <2>1 DEF IInv, OneCommand
  <1>4. ReadsOwn'
    BY <1>1 DEF IInv, ReadsOwn, Alone
  <1>5. \A k \in Pair : k > pairs => requests'[k] = <<>> /\ replies'[k] = <<>>
    BY <1>1, ClosedStay
  <1>6. /\ at'[c] \in Exchanging <=> owner' = c
        /\ \A d \in Conn \ {c} : owner' = d <=> owner = d
    BY <1>1 DEF IInv, OneExchange, Exchanging
  <1>7. ~call[c].ok
    BY <1>1 DEF IInv, CallsFollow
  <1> QED
    BY <1>1, <1>2, <1>3, <1>4, <1>5, <1>6, <1>7, CallBounds, AloneKeeps

\* The command goes into an empty pair, or into none.
LEMMA SendKeeps ==
  ASSUME IInv, Typed', NEW c \in Conn, Send(c)
  PROVE  IInv'
  <1> DEFINE n == debuggerClient[call[c].proc]
             r == [proc |-> call[c].proc, kind |-> call[c].kind, from |-> c]
  <1>1. /\ at[c] = "send" /\ at'[c] = "bind" /\ Alone(c) /\ SameCommand(c) /\ Elsewhere
        /\ UNCHANGED <<replies, owner>>
        /\ call'[c].since = call[c].since /\ call'[c].ok = call[c].ok
        /\ call'[c].sent = IF n \in open THEN n ELSE 0
        /\ n \notin open => requests' = requests
        /\ \A j \in Pair \ {n} : requests'[j] = requests[j]
        /\ n \in open => requests'[n] = Append(requests[n], r)
    BY SendDoes DEF IInv
  <1>2. UNCHANGED <<procVars, pairs, open>>
    BY <1>1 DEF Elsewhere
  <1>3. owner = c
    BY <1>1 DEF IInv, OneExchange, Exchanging
  <1>4. \A j, d : ~Awaits(d, j)
    BY <1>1, <1>3, AwaitsOwns DEF Awaits
  <1>5. \A j \in open : /\ requests[j] = <<>> /\ replies[j] = <<>>
                        /\ \A d \in Conn : call[d].into # j
    BY <1>4, EmptyPair
  <1>6. \A j \in open, d \in Conn : call'[d].into # j
    BY <1>1, <1>5 DEF Alone, SameCommand
  <1> HIDE DEF n
  <1>7. OneCommand'
    <2> SUFFICES ASSUME NEW j \in open
                 PROVE  OneCommandIn(j, requests'[j], replies[j])
      BY <1>1, <1>2, OneCommandNext
    <2>0. j \in Pair
      BY OpenPairs DEF IInv
    <2>1. CASE j = n
      <3>1. requests'[j] = <<r>>
        <4>1. requests'[j] = Append(<<>>, r)
          BY <2>1, <1>1, <1>5
        <4> QED
          BY <4>1
      <3>2. AwaitsNext(c, j)
        BY <2>1, <1>1 DEF AwaitsNext
      <3>3. Len(<<r>>) = 1 /\ Head(<<r>>).from = c
        OBVIOUS
      <3> HIDE DEF r
      <3> QED
        BY <3>1, <3>2, <3>3, <1>5, <1>6 DEF OneCommandIn
    <2>2. CASE j # n
      BY <2>0, <2>2, <1>1, <1>5, <1>6 DEF OneCommandIn
    <2> QED
      BY <2>1, <2>2
  <1>8. ReadsOwn'
    <2>1. \A d \in Conn : at'[d] # "recv"
      BY <1>1, <1>3 DEF IInv, OneExchange, Exchanging, Alone
    <2> QED
      BY <2>1 DEF ReadsOwn
  <1>9. \A j \in Pair : j > pairs => requests'[j] = <<>> /\ replies'[j] = <<>>
    <2>1. \A j \in Pair \ open : requests'[j] = requests[j]
      BY <1>1
    <2> QED
      BY <2>1, <1>1, ClosedStay
  <1>10. /\ at'[c] \in Exchanging <=> owner' = c
         /\ ~call'[c].ok /\ call'[c].into <= pairs /\ call'[c].since <= pairs
    BY <1>1, <1>3, CallBounds DEF Exchanging, IInv, CallsFollow, SameCommand
  <1>11. call'[c].sent <= pairs
    BY <1>1, OpenPairs, CallBounds DEF IInv
  <1>12. call'[c].sent \in open => debuggerClient[call'[c].proc] = call'[c].sent
    BY <1>1, OpenPairs DEF IInv, SameCommand, n
  <1> QED
    BY <1>1, <1>2, <1>7, <1>8, <1>9, <1>10, <1>11, <1>12, AloneKeeps

\* The second read finds the same pair, unless the session was replaced.
LEMMA BindKeeps ==
  ASSUME IInv, Typed', NEW c \in Conn, Bind(c)
  PROVE  IInv'
  <1> DEFINE n == debuggerClient[call[c].proc]
  <1>1. /\ call[c].proc \in Proc
        /\ at[c] = "bind" /\ at'[c] = IF n = 0 THEN "unlock" ELSE "recv"
        /\ Alone(c) /\ SameCommand(c) /\ Elsewhere /\ UNCHANGED <<requests, replies, owner>>
        /\ call'[c].since = call[c].since /\ call'[c].ok = call[c].ok
        /\ call'[c].sent = call[c].sent /\ call'[c].reads = n
    BY BindDoes DEF IInv
  <1>2. UNCHANGED <<procVars, pairs, open>>
    BY <1>1 DEF Elsewhere
  <1>3. owner = c
    BY <1>1 DEF IInv, OneExchange, Exchanging
  <1>4. n # 0 => n \in open /\ isDebugged[call[c].proc]
    BY <1>1 DEF IInv, SessionsApart
  <1>5. call[c].sent \in open => n = call[c].sent /\ n # 0
    BY <1>1, OpenPairs DEF IInv, CallsFollow
  <1> HIDE DEF n
  <1>6. \A j \in open, d \in Conn : Awaits(d, j) => AwaitsNext(d, j)
    <2> SUFFICES ASSUME NEW j \in open, NEW d \in Conn, Awaits(d, j)
                 PROVE  AwaitsNext(d, j)
      OBVIOUS
    <2>1. d = c
      BY <1>3, AwaitsOwns
    <2>2. call[c].sent = j /\ n # 0
      BY <2>1, <1>5 DEF Awaits
    <2> QED
      BY <2>1, <2>2, <1>1 DEF AwaitsNext
  <1>7. OneCommand'
    <2> SUFFICES ASSUME NEW j \in open
                 PROVE  OneCommandIn(j, requests[j], replies[j])
      BY <1>1, <1>2, OneCommandNext
    <2>1. \A d \in Conn : call'[d].into = call[d].into /\ call'[d].from = call[d].from
      BY <1>1 DEF Alone, SameCommand
    <2>2. \A x : Awaits(x, j) => AwaitsNext(x, j)
      BY <1>6 DEF Awaits
    <2> QED
      BY <2>1, <2>2 DEF IInv, OneCommand, OneCommandIn
  <1>8. ReadsOwn'
    <2> SUFFICES ASSUME NEW d \in Conn, at'[d] = "recv", replies[call'[d].reads] # <<>>
                 PROVE  /\ AnswerTo(d, replies[call'[d].reads])
                        /\ call'[d].sent = call'[d].reads
      BY <1>1 DEF ReadsOwn
    <2>1. CASE d = c
      <3>1. n \in open /\ call'[c].reads = n
        BY <2>1, <1>1, <1>4
      <3>2. PICK x \in Conn : Awaits(x, n) /\ AnswerTo(x, replies[n])
        BY <3>1, <2>1 DEF IInv, OneCommand
      <3>3. x = c
        BY <3>2, <1>3, AwaitsOwns
      <3> QED
        BY <2>1, <3>1, <3>2, <3>3, <1>1 DEF Awaits
    <2>2. CASE d # c
      BY <2>2, <1>1 DEF IInv, ReadsOwn, Alone
    <2> QED
      BY <2>1, <2>2
  <1>9. \A j \in Pair : j > pairs => requests'[j] = <<>> /\ replies'[j] = <<>>
    BY <1>1, ClosedStay
  <1>10. /\ at'[c] \in Exchanging <=> owner' = c
         /\ ~call'[c].ok
    BY <1>1, <1>3 DEF Exchanging, IInv, CallsFollow
  <1>11. call'[c].into <= pairs /\ call'[c].since <= pairs /\ call'[c].sent <= pairs
    BY <1>1, CallBounds DEF SameCommand
  <1>12. /\ at'[c] = "recv" => call'[c].reads \in 1 .. pairs
         /\ call'[c].sent \in open => debuggerClient[call'[c].proc] = call'[c].sent
         /\ at'[c] = "recv" /\ call'[c].sent \in open => call'[c].reads = call'[c].sent
    <2>1. n # 0 => n \in 1 .. pairs
      BY <1>4, OpenPairs DEF IInv
    <2>2. call'[c].proc = call[c].proc
      BY <1>1 DEF SameCommand
    <2> QED
      BY <1>1, <1>5, <2>1, <2>2 DEF n
  <1>13. at'[c] = "recv" /\ call'[c].since # 0 /\ Session(call'[c].proc) = call'[c].since
           => call'[c].reads = call'[c].since
    BY <1>1, <1>4 DEF SameCommand, Session, n
  <1>14. at'[c] \notin {"lock", "send"}
    BY <1>1
  <1> QED
    BY <1>1, <1>2, <1>7, <1>8, <1>9, <1>10, <1>11, <1>12, <1>13, <1>14, AloneKeeps
\* The rest of an answer of two parts is the answer's last part.
LEMMA AnswerRest ==
  ASSUME NEW c \in Conn, NEW s \in Seq(Reply), AnswerTo(c, s), s # <<>>
  PROVE  /\ Head(s).from = c
         /\ Head(s).more => AnswerTo(c, Tail(s)) /\ Tail(s) # <<>>
         /\ ~Head(s).more => Tail(s) = <<>>
  <1>1. Head(s) = s[1] /\ 1 \in 1 .. Len(s) /\ Len(s) \in {1, 2}
    BY DEF AnswerTo
  <1>2. Head(s).from = c /\ (Head(s).more <=> 1 < Len(s))
    BY <1>1 DEF AnswerTo
  <1>3. CASE Len(s) = 2
    <2>1. Len(Tail(s)) = 1 /\ Tail(s)[1] = s[2] /\ 2 \in 1 .. Len(s)
      <3> DEFINE t == Tail(s)
      <3>1. Len(t) = Len(s) - 1 /\ \A i \in 1 .. Len(t) : t[i] = s[i + 1]
        BY HeadTailProperties
      <3> HIDE DEF t
      <3>2. Len(t) = 1 /\ t[1] = s[2] /\ 2 \in 1 .. Len(s)
        BY <1>3, <3>1
      <3> QED
        BY <3>2 DEF t
    <2>2. s[2].from = c /\ (s[2].more <=> 2 < Len(s))
      BY <2>1 DEF AnswerTo
    <2>3. \A i \in 1 .. Len(Tail(s)) :
            Tail(s)[i].from = c /\ (Tail(s)[i].more <=> i < Len(Tail(s)))
      <3> DEFINE t == Tail(s)
      <3> HIDE DEF t
      <3>0. Len(t) = 1 /\ t[1] = s[2]
        BY <2>1 DEF t
      <3>1. ASSUME NEW i \in 1 .. Len(t)
            PROVE  t[i].from = c /\ (t[i].more <=> i < Len(t))
        <4>1. i = 1
          BY <3>0
        <4> QED
          BY <4>1, <3>0, <2>2, <1>3
      <3> QED
        BY <3>1 DEF t
    <2>4. AnswerTo(c, Tail(s))
      BY <2>1, <2>3 DEF AnswerTo
    <2>5. Tail(s) # <<>>
      BY <2>1
    <2> QED
      BY <1>2, <1>3, <2>4, <2>5
  <1>4. CASE Len(s) = 1
    BY <1>2, <1>4, TailOfOne
  <1> QED
    BY <1>1, <1>3, <1>4

\* The owner reads a part of its own answer, or learns that the session is over.
LEMMA ReceiveKeeps ==
  ASSUME IInv, Typed', NEW c \in Conn, Receive(c)
  PROVE  IInv'
  <1> DEFINE n == call[c].reads
  <1>1. /\ at[c] = "recv" /\ call[c].proc \in Proc /\ n \in Pair
        /\ Alone(c) /\ SameCommand(c) /\ Elsewhere /\ UNCHANGED <<requests, owner>>
        /\ call'[c].since = call[c].since /\ call'[c].sent = call[c].sent
        /\ Reads(c) \/ ReadsNothing(c)
    BY ReceiveDoes DEF IInv
  <1>2. UNCHANGED <<procVars, pairs, open>>
    BY <1>1 DEF Elsewhere
  <1>3. owner = c
    BY <1>1 DEF IInv, OneExchange, Exchanging
  <1>4. \A d, j : Awaits(d, j) => d = c /\ j = call[c].sent
    BY <1>3, AwaitsOwns DEF Awaits
  <1>5. \A d \in Conn : call'[d].into = call[d].into /\ call'[d].from = call[d].from
    BY <1>1 DEF Alone, SameCommand
  <1>6. at'[c] \in {"bind", "unlock"}
    BY <1>1 DEF Reads, ReadsNothing
  <1>7. ReadsOwn'
    <2>1. \A d \in Conn : at'[d] # "recv"
      BY <1>1, <1>3, <1>6 DEF IInv, OneExchange, Exchanging, Alone
    <2> QED
      BY <2>1 DEF ReadsOwn
  <1>8. replies \in [Pair -> Seq(Reply)]
    BY DEF IInv, Typed, TypeOK
  <1> HIDE DEF n
  <1>9. /\ OneCommand'
        /\ at'[c] = "bind" => ~call'[c].ok
        /\ \A j \in Pair : j > pairs => requests'[j] = <<>> /\ replies'[j] = <<>>
    <2>1. CASE Reads(c)
      <3> DEFINE r == Head(replies[n])
      <3>1. /\ replies[n] # <<>> /\ replies' = [replies EXCEPT ![n] = Tail(@)]
            /\ call'[c].ok = ~r.more /\ at'[c] = IF r.more THEN "bind" ELSE "unlock"
        BY <2>1 DEF Reads, n
      <3>2. AnswerTo(c, replies[n]) /\ call[c].sent = n
        BY <1>1, <3>1 DEF IInv, ReadsOwn, n
      <3>3. replies'[n] = Tail(replies[n]) /\ \A j \in Pair \ {n} : replies'[j] = replies[j]
        BY <1>1, <1>8, <3>1
      <3>4. /\ r.more => AnswerTo(c, replies'[n]) /\ replies'[n] # <<>>
            /\ ~r.more => replies'[n] = <<>>
        BY <1>1, <1>8, <3>1, <3>2, <3>3, AnswerRest
      <3>5. r.more => AwaitsNext(c, n)
        BY <1>1, <3>1, <3>2 DEF AwaitsNext
      <3>6. ASSUME NEW j \in open
            PROVE  OneCommandIn(j, requests[j], replies'[j])
        <4>0. j \in Pair
          BY OpenPairs DEF IInv
        <4>1. CASE j = n
          <5>1. requests[j] = <<>> /\ \A d \in Conn : call'[d].into # j
            BY <4>1, <3>1, <1>5 DEF IInv, OneCommand
          <5> QED
            BY <4>1, <5>1, <3>4, <3>5 DEF OneCommandIn
        <4>2. CASE j # n
          <5>1. \A d \in Conn : ~Awaits(d, j)
            BY <1>4, <3>2, <4>2
          <5>2. requests[j] = <<>> /\ replies'[j] = <<>> /\ \A d \in Conn : call'[d].into # j
            BY <5>1, <4>0, <4>2, <3>3, <1>5, EmptyPair
          <5> QED
            BY <5>2 DEF OneCommandIn
        <4> QED
          BY <4>1, <4>2
      <3>7. ASSUME NEW j \in Pair, j > pairs
            PROVE  requests'[j] = <<>> /\ replies'[j] = <<>>
        <4>1. requests[j] = <<>> /\ replies[j] = <<>>
          BY <3>7 DEF IInv, NoFuture
        <4>2. j # n
          BY <3>1, <4>1
        <4> QED
          BY <4>1, <4>2, <3>3, <1>1
      <3> QED
        BY <1>1, <1>2, <3>1, <3>6, <3>7, OneCommandNext
    <2>2. CASE ReadsNothing(c)
      <3>1. n \notin open /\ at'[c] = "unlock" /\ UNCHANGED <<call, replies>>
        BY <2>2 DEF ReadsNothing, n
      <3>2. call[c].sent \notin open
        BY <1>1, <3>1 DEF IInv, CallsFollow, n
      <3>3. ASSUME NEW j \in open
            PROVE  OneCommandIn(j, requests[j], replies[j])
        <4>1. \A d \in Conn : ~Awaits(d, j)
          BY <1>4, <3>2
        <4>2. requests[j] = <<>> /\ replies[j] = <<>> /\ \A d \in Conn : call'[d].into # j
          BY <4>1, <1>5, EmptyPair
        <4> QED
          BY <4>2 DEF OneCommandIn
      <3> QED
        BY <1>1, <1>2, <3>1, <3>3, OneCommandNext, ClosedStay
    <2> QED
      BY <1>1, <2>1, <2>2
  <1>10. at'[c] \in Exchanging <=> owner' = c
    BY <1>1, <1>3, <1>6 DEF Exchanging
  <1>11. call'[c].into <= pairs /\ call'[c].since <= pairs /\ call'[c].sent <= pairs
    BY <1>1, CallBounds DEF SameCommand
  <1>12. call'[c].sent \in open => debuggerClient[call'[c].proc] = call'[c].sent
    BY <1>1 DEF IInv, CallsFollow, SameCommand
  <1>13. at'[c] \notin {"lock", "send", "recv"}
    BY <1>6
  <1> QED
    BY <1>1, <1>2, <1>6, <1>7, <1>9, <1>10, <1>11, <1>12, <1>13, AloneKeeps

\* Whoever releases the mutex has nothing left in a pair.
LEMMA UnlockKeeps ==
  ASSUME IInv, Typed', NEW c \in Conn, Unlock(c)
  PROVE  IInv'
  <1>1. /\ at[c] = "unlock" /\ at'[c] = "exec" /\ owner' = NoOne
        /\ Alone(c) /\ SameCommand(c) /\ Elsewhere /\ UNCHANGED <<requests, replies>>
        /\ call'[c].since = 0 /\ call'[c].sent = 0 /\ call'[c].ok = FALSE
    BY UnlockDoes DEF IInv
  <1>2. UNCHANGED <<procVars, pairs, open>>
    BY <1>1 DEF Elsewhere
  <1>3. owner = c
    BY <1>1 DEF IInv, OneExchange, Exchanging
  <1>4. \A d, j : ~Awaits(d, j)
    BY <1>1, <1>3, AwaitsOwns DEF Awaits
  <1>5. OneCommand'
    <2> SUFFICES ASSUME NEW j \in open
                 PROVE  OneCommandIn(j, requests[j], replies[j])
      BY <1>1, <1>2, OneCommandNext
    <2>1. \A d \in Conn : call'[d].into = call[d].into
      BY <1>1 DEF Alone, SameCommand
    <2> QED
      BY <1>4, <2>1, EmptyPair DEF OneCommandIn
  <1>6. ReadsOwn'
    BY <1>1 DEF IInv, ReadsOwn, Alone
  <1>7. \A j \in Pair : j > pairs => requests'[j] = <<>> /\ replies'[j] = <<>>
    BY <1>1, ClosedStay
  <1>8. /\ at'[c] \in Exchanging <=> owner' = c
        /\ \A d \in Conn \ {c} : owner' = d <=> owner = d
    BY <1>1, <1>3, ChannelAssumption DEF Exchanging
  <1>9. call'[c].into <= pairs /\ call'[c].since <= pairs /\ call'[c].sent <= pairs
    BY <1>1, CallBounds DEF SameCommand
  <1> QED
    BY <1>1, <1>2, <1>5, <1>6, <1>7, <1>8, <1>9, AloneKeeps

\* The answer goes into the pair the command came from, to the connection that
\* waits there, and is the only thing in it.
LEMMA FinishAnswers ==
  ASSUME IInv, NEW c \in Conn, Finish(c), call[c].into \in open
  PROVE  LET k == call[c].into
         IN /\ Awaits(call[c].from, k) /\ call[c].from # c
            /\ requests[k] = <<>> /\ replies[k] = <<>>
            /\ AnswerTo(call[c].from, replies'[k]) /\ replies'[k] # <<>>
            /\ \A d \in Conn : call[d].into = k => d = c
            /\ \A j \in Pair \ {k} : replies'[j] = replies[j]
  <1> DEFINE k == call[c].into
  <1>1. Awaits(call[c].from, k) /\ replies[k] = <<>> /\ \A d \in Conn : call[d].into = k => d = c
    BY DEF IInv, OneCommand
  <1>2. requests[k] = <<>>
    BY DEF IInv, OneCommand
  <1>3. /\ at[c] = "exec" /\ call[c].from \in Conn
        /\ \A j \in Pair \ {k} : replies'[j] = replies[j]
        /\ \E more \in BOOLEAN : replies'[k] = replies[k] \o Answer(c, more)
    BY FinishDoes DEF IInv
  <1>4. PICK more \in BOOLEAN : replies'[k] = <<>> \o Answer(c, more)
    BY <1>1, <1>3
  <1>5. Answer(c, more) \in Seq(Reply) /\ AnswerTo(call[c].from, Answer(c, more))
    BY <1>3, AnswerTyped
  <1>6. replies'[k] = Answer(c, more)
    BY <1>4, <1>5, ConcatEmptySeq
  <1>7. Answer(c, more) # <<>>
    BY <1>5 DEF AnswerTo
  <1>8. call[c].from # c
    BY <1>1, <1>3 DEF Awaits
  <1> QED
    BY <1>1, <1>2, <1>3, <1>5, <1>6, <1>7, <1>8

\* The answer goes into the pair that the command came from.
LEMMA FinishKeeps ==
  ASSUME IInv, Typed', NEW c \in Conn, Finish(c)
  PROVE  IInv'
  <1> DEFINE k == call[c].into
  <1>1. /\ at[c] = "exec" /\ at'[c] \in {"wait", "loop"} /\ call'[c] = NoCall
        /\ Alone(c) /\ Elsewhere /\ UNCHANGED <<requests, owner>>
        /\ k \notin open => replies' = replies
    BY FinishDoes DEF IInv
  <1>2. UNCHANGED <<procVars, pairs, open>>
    BY <1>1 DEF Elsewhere
  <1>3. \A d, j : Awaits(d, j) => AwaitsNext(d, j)
    BY <1>1 DEF Awaits, AwaitsNext, Alone
  <1>4. \A j \in open, d \in Conn : call'[d].into = j => d # c /\ call'[d] = call[d]
    BY <1>1, NoCallType, OpenPairs DEF Alone, IInv
  <1>5. ASSUME k \in open
        PROVE  /\ Awaits(call[c].from, k) /\ requests[k] = <<>> /\ replies[k] = <<>>
               /\ AnswerTo(call[c].from, replies'[k])
               /\ \A d \in Conn : call[d].into = k => d = c
               /\ \A j \in Pair \ {k} : replies'[j] = replies[j]
    BY <1>5, FinishAnswers
  <1> HIDE DEF k
  <1>6. ASSUME NEW j \in open
        PROVE  OneCommandIn(j, requests[j], replies'[j])
    <2>0. j \in Pair
      BY OpenPairs DEF IInv
    <2>1. CASE j = k
      <3>1. AwaitsNext(call[c].from, k) /\ call[c].from \in Conn
        BY <2>1, <1>3, <1>5 DEF Awaits
      <3>2. \A d \in Conn : call'[d].into # j
        BY <2>1, <1>4, <1>5
      <3> QED
        BY <2>1, <3>1, <3>2, <1>5 DEF OneCommandIn
    <2>2. CASE j # k
      <3>1. replies'[j] = replies[j]
        BY <2>0, <2>2, <1>1, <1>5
      <3> QED
        BY <3>1, <1>3, <1>4, <2>2 DEF IInv, OneCommand, OneCommandIn, k
    <2> QED
      BY <2>1, <2>2
  <1>7. OneCommand'
    BY <1>1, <1>2, <1>6, OneCommandNext
  <1>8. ReadsOwn'
    <2> SUFFICES ASSUME NEW d \in Conn, at'[d] = "recv", replies'[call'[d].reads] # <<>>
                 PROVE  /\ AnswerTo(d, replies'[call'[d].reads])
                        /\ call'[d].sent = call'[d].reads
      BY DEF ReadsOwn
    <2>1. d # c /\ at[d] = "recv" /\ call'[d] = call[d]
      BY <1>1 DEF Alone
    <2>2. call[d].reads \in Pair
      <3>1. call[d].reads # 0 /\ call[d] \in Call
        BY <2>1 DEF IInv, Typed, TypeOK, CallsOwned
      <3> QED
        BY <3>1, ChannelAssumption DEF Call, Pair
    <2>3. CASE k \in open /\ call[d].reads = k
      <3>1. owner = d /\ owner = call[c].from /\ call[call[c].from].sent = k
        BY <2>1, <2>3, <1>5, AwaitsOwns DEF IInv, OneExchange, Exchanging, Awaits
      <3> QED
        BY <3>1, <2>1, <2>3, <1>5
    <2>4. CASE ~(k \in open /\ call[d].reads = k)
      <3>1. replies'[call[d].reads] = replies[call[d].reads]
        BY <2>2, <2>4, <1>1, <1>5
      <3> QED
        BY <3>1, <2>1 DEF IInv, ReadsOwn
    <2> QED
      BY <2>3, <2>4
  <1>9. \A j \in Pair : j > pairs => requests'[j] = <<>> /\ replies'[j] = <<>>
    <2>1. \A j \in Pair \ open : replies'[j] = replies[j]
      BY <1>1, <1>5
    <2> QED
      BY <2>1, <1>1, ClosedStay
  <1>10. at'[c] \in Exchanging <=> owner' = c
    BY <1>1 DEF IInv, OneExchange, Exchanging
  <1>11. /\ call'[c].into <= pairs /\ call'[c].since <= pairs /\ call'[c].sent <= pairs
         /\ ~call'[c].ok
    BY <1>1, NoCallType, CallBounds
  <1> QED
    BY <1>1, <1>2, <1>7, <1>8, <1>9, <1>10, <1>11, AloneKeeps
\* Every step keeps the invariant.
LEMMA IInvStep ==
  ASSUME Kinds \cap Unhandled = {}, IInv, [Next]_vars
  PROVE  IInv'
  <1>0. Typed'
    BY TypedStep DEF IInv
  <1>1. ASSUME NEW c \in Conn, Client(c)
        PROVE  IInv'
    <2>1. CASE \E p \in Proc, kind \in Kinds : ClientCommand(c, p, kind)
      BY <1>0, <2>1, ClientCommandKeeps
    <2>2. CASE \E p \in Proc : StartDebug(c, p)
      BY <1>0, <2>2, StartKeeps
    <2>3. CASE newconnection(c) \/ WaitForDebugEvent(c) \/ CloseConnection(c) \/ ReadError(c)
      <3>1. UNCHANGED <<procVars, pairVars>>
        BY <2>3 DEF newconnection, WaitForDebugEvent, CloseConnection, ReadError
      <3>2. Quiet(c)
        BY <2>3, QuietSteps DEF IInv
      <3> QED
        BY <1>0, <3>1, <3>2, QuietKeeps
    <2>4. CASE Disconnect(c)
      <3>1. Quiet(c) /\ UNCHANGED <<debuggerThreadID, pairs, replies>>
        BY <2>4, QuietSteps DEF IInv, Disconnect
      <3>2. CASE isDebuggerThread[c] # NoOne /\ StopDebug(isDebuggerThread[c])
        <4>1. isDebuggerThread[c] \in Proc
          BY <3>2 DEF IInv, Typed, TypeOK
        <4> QED
          BY <1>0, <3>1, <3>2, <4>1, StopKeeps
      <3>3. CASE UNCHANGED <<isDebugged, debuggerClient, open, requests>>
        BY <1>0, <3>1, <3>3, QuietKeeps DEF procVars, pairVars
      <3> QED
        BY <2>4, <3>2, <3>3 DEF Disconnect
    <2> QED
      BY <1>1, <2>1, <2>2, <2>3, <2>4 DEF Client
  <1>2. ASSUME NEW c \in Conn, Forwards(c)
        PROVE  IInv'
    BY <1>0, <1>2, LockKeeps, SendKeeps, BindKeeps, ReceiveKeeps, UnlockKeeps DEF Forwards
  <1>3. ASSUME NEW c \in Conn, Dispatches(c)
        PROVE  IInv'
    <2>1. CASE ReadsDebugfd(c)
      <3>1. FALSE \in BOOLEAN
        OBVIOUS
      <3> QED
        BY <1>0, <2>1, <3>1, TakeKeeps DEF ReadsDebugfd, Readable
    <2>2. CASE SelectFails(c) \/ TimesOut(c)
      <3>1. UNCHANGED <<procVars, pairVars>>
        BY <2>2 DEF SelectFails, TimesOut
      <3>2. Quiet(c)
        BY <2>2, QuietSteps DEF IInv
      <3> QED
        BY <1>0, <3>1, <3>2, QuietKeeps
    <2>3. CASE WakesUp(c)
      <3>1. at[c] = "wait" /\ UNCHANGED <<procVars, owner>>
        BY <2>3 DEF WakesUp
      <3> DEFINE k == debuggerClient[isDebuggerThread[c]]
      <3>2. CASE k \in open /\ requests[k] # <<>> /\ Take(c, k, TRUE)
        <4> HIDE DEF k
        <4>1. TRUE \in BOOLEAN
          OBVIOUS
        <4> QED
          BY <1>0, <3>1, <3>2, <4>1, TakeKeeps
      <3>3. CASE (Goto(c, "wait") \/ Goto(c, "loop")) /\ UNCHANGED <<call, pairVars>>
        <4>1. Quiet(c)
          BY <2>3, <3>3, WakesQuietly DEF IInv
        <4> QED
          BY <1>0, <3>1, <3>3, <4>1, QuietKeeps
      <3> QED
        BY <2>3, <3>2, <3>3 DEF WakesUp
    <2>4. CASE Finish(c)
      BY <1>0, <2>4, FinishKeeps
    <2> QED
      BY <1>3, <2>1, <2>2, <2>3, <2>4 DEF Dispatches
  <1>4. CASE mychildhandler \/ UNCHANGED vars
    <2>1. UNCHANGED <<threadVars, procVars, pairVars, owner>>
      BY <1>4 DEF mychildhandler, vars
    <2> QED
      BY <1>0, <2>1 DEF IInv, SessionsApart, OneExchange, NoFuture, CallsFollow, OneCommand,
         ReadsOwn, Awaits, Session, threadVars, procVars, pairVars
  <1>5. ASSUME NEW c \in Conn, Blocks(c)
        PROVE  IInv'
    BY <1>0, <1>5, BlocksKeeps
  <1> QED
    BY <1>1, <1>2, <1>3, <1>4, <1>5 DEF Next

\* What a forwarding connection reads is the answer to its own command, sent into
\* the pair that it reads, however sessions end and begin meanwhile: for commands
\* that DispatchCommand has a case for.
THEOREM AnswersMatch ==
  ASSUME Kinds \cap Unhandled = {}
  PROVE  Spec => []AnswerIsOwn
  <1>1. IInv => AnswerIsOwn
    <2> SUFFICES ASSUME IInv, NEW c \in Conn, at[c] = "recv", replies[call[c].reads] # <<>>
                 PROVE  Head(replies[call[c].reads]).from = c /\ call[c].sent = call[c].reads
      BY DEF AnswerIsOwn
    <2> DEFINE k == call[c].reads
    <2>1. k \in Pair
      <3>1. k # 0 /\ call[c] \in Call
        BY DEF IInv, Typed, TypeOK, CallsOwned
      <3> QED
        BY <3>1, ChannelAssumption DEF Call, Pair
    <2>2. AnswerTo(c, replies[k]) /\ call[c].sent = k
      BY DEF IInv, ReadsOwn
    <2>3. replies[k] \in Seq(Reply)
      BY <2>1 DEF IInv, Typed, TypeOK
    <2> QED
      BY <2>2, <2>3, AnswerRest
  <1>2. IInv /\ [Next]_vars => IInv'
    BY IInvStep
  <1> QED
    BY <1>1, <1>2, IInvInit, PTL DEF Spec

\* Who takes debugsocketmutex finds the pair of every session empty: no exchange
\* leaves a command or a part of an answer behind.
THEOREM PairsDrained ==
  ASSUME Kinds \cap Unhandled = {}
  PROVE  Spec => []Drained
  <1>1. IInv => Drained
    <2> SUFFICES ASSUME IInv, owner = NoOne, NEW k \in open
                 PROVE  requests[k] = <<>> /\ replies[k] = <<>>
      BY DEF Drained
    <2>1. \A c \in Conn : ~Awaits(c, k)
      BY AwaitsOwns, ChannelAssumption
    <2> QED
      BY <2>1, EmptyPair
  <1>2. IInv /\ [Next]_vars => IInv'
    BY IInvStep
  <1> QED
    BY <1>1, <1>2, IInvInit, PTL DEF Spec

-----------------------------------------------------------------------------
(* The channel implements ForwardedCall.                                    *)

\* What the clients see, as functions.
seen    == [c \in Conn |-> callOf(c)]
session == [p \in Proc |-> Session(p)]

\* A call looks the same while its thread, and what is in its pair, do not change.
LEMMA SeenSame ==
  ASSUME NEW d \in Conn, at'[d] = at[d], call'[d] = call[d],
         at[d] \in Forwarding /\ call[d].sent # 0 =>
           replies'[call[d].sent] = replies[call[d].sent]
  PROVE  callOf(d)' = callOf(d)
  <1>1. CASE at[d] \notin Forwarding
    BY <1>1 DEF callOf
  <1>2. CASE at[d] \in Forwarding
    <2>1. HasAnswer(d)' <=> HasAnswer(d)
      <3>1. CASE call[d].sent = 0
        BY <3>1 DEF HasAnswer
      <3>2. CASE call[d].sent # 0
        BY <1>2, <3>2 DEF HasAnswer
      <3> QED
        BY <3>1, <3>2
    <2>2. phaseOf(d)' = phaseOf(d)
      BY <2>1 DEF phaseOf
    <2> QED
      BY <1>2, <2>2 DEF callOf
  <1> QED
    BY <1>1, <1>2

\* Of the forwarding threads only the owner of the lock has sent anything.
LEMMA OthersSentNothing ==
  ASSUME IInv, NEW d \in Conn, at[d] \in Forwarding, owner # d
  PROVE  at[d] = "lock" /\ call[d].sent = 0 /\ callOf(d).phase = "asked"
  <1>1. at[d] = "lock"
    BY DEF IInv, OneExchange, Exchanging, Forwarding
  <1>2. call[d].sent = 0
    BY <1>1 DEF IInv, CallsFollow
  <1> QED
    BY <1>1, <1>2 DEF callOf, phaseOf, HasAnswer

\* The calls of all threads but c look the same after a step of c.
LEMMA OthersSame ==
  ASSUME IInv, NEW c \in Conn, Alone(c), owner = c \/ UNCHANGED replies
  PROVE  seen' = [seen EXCEPT ![c] = callOf(c)']
  <1>1. ASSUME NEW d \in Conn \ {c}
        PROVE  callOf(d)' = callOf(d)
    <2>1. at'[d] = at[d] /\ call'[d] = call[d]
      BY DEF Alone
    <2>2. at[d] \in Forwarding /\ call[d].sent # 0 =>
            replies'[call[d].sent] = replies[call[d].sent]
      BY OthersSentNothing
    <2> QED
      BY <2>1, <2>2, SeenSame
  <1>2. seen' = [d \in Conn |-> callOf(d)']
    BY DEF seen
  <1> HIDE DEF seen
  <1> QED
    BY <1>1, <1>2 DEF seen

\* A thread that does not forward is not seen.
LEMMA NotForwarding ==
  ASSUME NEW c \in Conn
  PROVE  /\ at[c] \notin Forwarding => callOf(c) = [phase |-> "idle"]
         /\ at'[c] \notin Forwarding => callOf(c)' = [phase |-> "idle"]
  BY DEF callOf

\* A step that changes no forwarding call and no session stutters in ForwardedCall.
LEMMA Unseen ==
  ASSUME IInv, NEW c \in Conn, Alone(c), owner = c \/ UNCHANGED replies,
         callOf(c)' = callOf(c), UNCHANGED procVars
  PROVE  UNCHANGED <<seen, session>>
  <1>1. seen' = [seen EXCEPT ![c] = callOf(c)]
    BY OthersSame
  <1>2. seen' = seen
    BY <1>1 DEF seen
  <1>3. session' = session
    BY DEF session, Session, procVars
  <1> QED
    BY <1>2, <1>3

\* A command that has to be forwarded is asked for.
LEMMA BeginAsks ==
  ASSUME IInv, NEW c \in Conn, NEW p \in Proc, NEW kind \in Kinds,
         NEW from \in Conn \cup {NoOne}, NEW into \in 0 .. MaxPairs, NEW nested \in BOOLEAN,
         at[c] \notin Forwarding,
         Begin(c, p, kind, from, into, nested), UNCHANGED <<procVars, replies>>
  PROVE  [Promise!Next]_(Promise!vars)
  <1>1. /\ Alone(c) /\ at'[c] \in {"exec", "lock"}
        /\ call'[c] = NewCall(p, kind, from, into, nested, Session(p))
    BY BeginTyped DEF IInv, Alone
  <1>2. seen' = [seen EXCEPT ![c] = callOf(c)'] /\ session' = session
    BY <1>1, OthersSame DEF session, Session, procVars
  <1>3. callOf(c) = [phase |-> "idle"] /\ seen[c] = [phase |-> "idle"]
    BY NotForwarding DEF seen
  <1>4. CASE at'[c] = "exec"
    <2>1. callOf(c)' = callOf(c)
      BY <1>3, <1>4, NotForwarding DEF Forwarding
    <2>2. UNCHANGED <<seen, session>>
      BY <1>1, <2>1, Unseen
    <2> QED
      BY <2>2 DEF Promise!vars, seen, session
  <1>5. CASE at'[c] = "lock"
    <2>1. call'[c].proc = p /\ call'[c].since = Session(p) /\ call'[c].sent = 0
      BY <1>1 DEF NewCall
    <2>2. callOf(c)' = [phase |-> "asked", proc |-> p, since |-> Session(p)]
      BY <1>5, <2>1 DEF callOf, phaseOf, HasAnswer, Forwarding
    <2>3. session[p] = Session(p)
      BY DEF session
    <2>4. Promise!Ask(c, p)
      BY <1>2, <1>3, <2>2, <2>3 DEF Promise!Ask, Promise!Idle, seen, session
    <2> QED
      BY <2>4 DEF Promise!Next
  <1> QED
    BY <1>1, <1>4, <1>5
\* A step that does not show.
LEMMA Stutters ==
  ASSUME UNCHANGED <<seen, session>>
  PROVE  [Promise!Next]_(Promise!vars)
  BY DEF Promise!vars, seen, session

\* Taking the mutex is not seen.
LEMMA LockStutters ==
  ASSUME IInv, NEW c \in Conn, Lock(c)
  PROVE  [Promise!Next]_(Promise!vars)
  <1>1. /\ at[c] = "lock" /\ at'[c] = "send" /\ Alone(c) /\ Elsewhere
        /\ UNCHANGED <<call, replies>>
    BY LockDoes DEF IInv
  <1>2. HasAnswer(c)' <=> HasAnswer(c)
    BY <1>1 DEF HasAnswer
  <1>3. callOf(c)' = callOf(c)
    BY <1>1, <1>2 DEF callOf, phaseOf, Forwarding
  <1> QED
    BY <1>1, <1>3, Unseen, Stutters DEF Elsewhere

\* Nor is a command that blocks.
LEMMA BlocksStutters ==
  ASSUME IInv, NEW c \in Conn, Blocks(c)
  PROVE  [Promise!Next]_(Promise!vars)
  <1>1. at[c] = "exec" /\ at'[c] = "stuck" /\ Alone(c) /\ Elsewhere /\ UNCHANGED replies
    BY BlocksDoes DEF IInv
  <1>2. callOf(c)' = callOf(c)
    BY <1>1, NotForwarding DEF Forwarding
  <1> QED
    BY <1>1, <1>2, Unseen, Stutters DEF Elsewhere

\* The pair that a command is written into has no answer of an earlier one.
LEMMA SendStutters ==
  ASSUME IInv, NEW c \in Conn, Send(c)
  PROVE  [Promise!Next]_(Promise!vars)
  <1> DEFINE n == debuggerClient[call[c].proc]
  <1>1. /\ at[c] = "send" /\ at'[c] = "bind" /\ Alone(c) /\ SameCommand(c) /\ Elsewhere
        /\ UNCHANGED <<replies, owner>>
        /\ call'[c].since = call[c].since
        /\ call'[c].sent = IF n \in open THEN n ELSE 0
    BY SendDoes DEF IInv
  <1> HIDE DEF n
  <1>2. owner = c
    BY <1>1 DEF IInv, OneExchange, Exchanging
  <1>3. call[c].sent = 0
    BY <1>1 DEF IInv, CallsFollow
  <1>4. ~HasAnswer(c)
    BY <1>3 DEF HasAnswer
  <1>5. ~HasAnswer(c)'
    <2>1. CASE n \in open
      <3>1. \A d \in Conn : ~Awaits(d, n)
        BY <1>1, <1>2, AwaitsOwns DEF Awaits
      <3>2. replies[n] = <<>>
        BY <2>1, <3>1, EmptyPair
      <3>3. DOMAIN replies'[call'[c].sent] = {}
        BY <1>1, <2>1, <3>2
      <3> QED
        BY <3>3 DEF HasAnswer
    <2>2. CASE n \notin open
      BY <1>1, <2>2 DEF HasAnswer
    <2> QED
      BY <2>1, <2>2
  <1>6. callOf(c)' = callOf(c)
    BY <1>1, <1>4, <1>5 DEF callOf, phaseOf, Forwarding, SameCommand
  <1> QED
    BY <1>1, <1>6, Unseen, Stutters DEF Elsewhere

\* A call fails only when the session it began in is over.
LEMMA Fails ==
  ASSUME IInv, NEW c \in Conn, Alone(c), SameCommand(c), Elsewhere,
         at[c] \in {"bind", "recv"}, at'[c] = "unlock", ~call'[c].ok, owner = c,
         call'[c].since = call[c].since, call[c].proc \in Proc,
         call[c].since # 0 => Session(call[c].proc) # call[c].since
  PROVE  [Promise!Next]_(Promise!vars)
  <1>1. seen' = [seen EXCEPT ![c] = callOf(c)'] /\ session' = session
    BY OthersSame DEF session, Session, procVars, Elsewhere
  <1>2. callOf(c)' = [phase |-> "failed", proc |-> call[c].proc, since |-> call[c].since]
    BY DEF callOf, phaseOf, Forwarding, SameCommand
  <1>3. /\ seen[c].phase \in {"asked", "executed"} /\ seen[c].proc = call[c].proc
        /\ seen[c].since = call[c].since
    <2>1. callOf(c) = [phase |-> phaseOf(c), proc |-> call[c].proc, since |-> call[c].since]
      BY DEF callOf, Forwarding
    <2>2. phaseOf(c) \in {"asked", "executed"}
      BY DEF phaseOf
    <2> QED
      BY <2>1, <2>2 DEF seen
  <1>4. session[seen[c].proc] = Session(call[c].proc)
    BY <1>3 DEF session
  <1>5. Promise!Fail(c)
    BY <1>1, <1>2, <1>3, <1>4 DEF Promise!Fail, Promise!InPhase, seen, session
  <1> QED
    BY <1>5 DEF Promise!Next

\* The call fails when there is no session at the second read; otherwise the
\* read is not seen.
LEMMA BindFails ==
  ASSUME IInv, NEW c \in Conn, Bind(c)
  PROVE  [Promise!Next]_(Promise!vars)
  <1> DEFINE n == debuggerClient[call[c].proc]
  <1>1. /\ call[c].proc \in Proc
        /\ at[c] = "bind" /\ at'[c] = IF n = 0 THEN "unlock" ELSE "recv"
        /\ Alone(c) /\ SameCommand(c) /\ Elsewhere /\ UNCHANGED replies
        /\ call'[c].since = call[c].since /\ call'[c].ok = call[c].ok
        /\ call'[c].sent = call[c].sent
    BY BindDoes DEF IInv
  <1>2. owner = c /\ ~call[c].ok
    BY <1>1 DEF IInv, OneExchange, Exchanging, CallsFollow
  <1>3. CASE n = 0
    <2>1. Session(call[c].proc) = 0
      BY <1>3 DEF Session
    <2>2. ~call'[c].ok /\ at'[c] = "unlock"
      BY <1>1, <1>2, <1>3
    <2> QED
      BY <1>1, <1>2, <2>1, <2>2, Fails
  <1>4. CASE n # 0
    <2>1. HasAnswer(c)' <=> HasAnswer(c)
      BY <1>1 DEF HasAnswer
    <2>2. callOf(c)' = callOf(c)
      BY <1>1, <1>4, <2>1 DEF callOf, phaseOf, Forwarding, SameCommand
    <2> QED
      BY <1>1, <2>2, Unseen, Stutters DEF Elsewhere
  <1> QED
    BY <1>3, <1>4

\* The last part of the answer settles the call; a closed pair without an answer
\* is one of a session that is over.
LEMMA ReceiveSettles ==
  ASSUME IInv, NEW c \in Conn, Receive(c)
  PROVE  [Promise!Next]_(Promise!vars)
  <1> DEFINE n == call[c].reads
             r == Head(replies[n])
  <1>1. /\ at[c] = "recv" /\ call[c].proc \in Proc /\ n \in Pair
        /\ Alone(c) /\ SameCommand(c) /\ Elsewhere
        /\ call'[c].since = call[c].since /\ call'[c].sent = call[c].sent
        /\ Reads(c) \/ ReadsNothing(c)
    BY ReceiveDoes DEF IInv
  <1>2. owner = c /\ ~call[c].ok /\ n # 0
    BY <1>1 DEF IInv, OneExchange, Exchanging, CallsFollow, Typed, CallsOwned
  <1>3. CASE Reads(c)
    <2>1. /\ replies[n] # <<>> /\ replies' = [replies EXCEPT ![n] = Tail(@)]
          /\ call'[c].ok = ~r.more /\ at'[c] = IF r.more THEN "bind" ELSE "unlock"
      BY <1>3 DEF Reads
    <2>2. replies \in [Pair -> Seq(Reply)] /\ replies[n] \in Seq(Reply)
      BY <1>1 DEF IInv, Typed, TypeOK
    <2>3. AnswerTo(c, replies[n]) /\ call[c].sent = n
      BY <1>1, <2>1 DEF IInv, ReadsOwn
    <2>4. /\ r.from = c
          /\ r.more => AnswerTo(c, Tail(replies[n])) /\ Tail(replies[n]) # <<>>
      BY <2>1, <2>2, <2>3, AnswerRest
    <2>5. HasAnswer(c)
      <3>1. 1 \in DOMAIN replies[n] /\ replies[n][1].from = c
        BY <2>1, <2>2, <2>4
      <3> QED
        BY <1>2, <2>3, <3>1 DEF HasAnswer
    <2>6. callOf(c) = [phase |-> "executed", proc |-> call[c].proc, since |-> call[c].since]
      BY <1>1, <2>5 DEF callOf, phaseOf, Forwarding
    <2>7. CASE r.more
      <3>1. HasAnswer(c)'
        <4> DEFINE t == Tail(replies[n])
        <4>1. replies'[n] = t /\ t \in Seq(Reply) /\ t # <<>>
          BY <1>1, <2>1, <2>2, <2>4, <2>7
        <4>2. AnswerTo(c, t)
          BY <2>4, <2>7
        <4> HIDE DEF t
        <4>3. 1 \in DOMAIN t /\ t[1].from = c
          BY <4>1, <4>2 DEF AnswerTo
        <4> QED
          BY <1>1, <1>2, <2>3, <4>1, <4>3 DEF HasAnswer
      <3>2. callOf(c)' = callOf(c)
        BY <1>1, <2>1, <2>6, <2>7, <3>1 DEF callOf, phaseOf, Forwarding, SameCommand
      <3> QED
        BY <1>1, <1>2, <3>2, Unseen, Stutters DEF Elsewhere
    <2>8. CASE ~r.more
      <3>1. at'[c] = "unlock" /\ call'[c].ok
        BY <2>1, <2>8
      <3>2. callOf(c)' = [phase |-> "answered", proc |-> call[c].proc, since |-> call[c].since]
        BY <1>1, <3>1 DEF callOf, phaseOf, Forwarding, SameCommand
      <3>3. seen' = [seen EXCEPT ![c] = callOf(c)'] /\ session' = session
        BY <1>1, <1>2, OthersSame DEF session, Session, procVars, Elsewhere
      <3>4. /\ seen[c].phase = "executed" /\ seen[c].proc = call[c].proc
            /\ seen[c].since = call[c].since
        BY <2>6 DEF seen
      <3>5. Promise!Answer(c)
        BY <3>2, <3>3, <3>4 DEF Promise!Answer, Promise!InPhase, seen, session
      <3> QED
        BY <3>5 DEF Promise!Next
    <2> QED
      BY <2>7, <2>8
  <1>4. CASE ReadsNothing(c)
    <2>1. n \notin open /\ at'[c] = "unlock" /\ call' = call
      BY <1>4 DEF ReadsNothing
    <2>2. ASSUME call[c].since # 0, Session(call[c].proc) = call[c].since
          PROVE  FALSE
      <3>1. n = call[c].since
        BY <1>1, <2>2 DEF IInv, CallsFollow
      <3>2. isDebugged[call[c].proc] /\ debuggerClient[call[c].proc] = n
        BY <2>2, <3>1 DEF Session
      <3> QED
        BY <1>1, <2>1, <3>2 DEF IInv, SessionsApart
    <2> QED
      BY <1>1, <1>2, <2>1, <2>2, Fails
  <1> QED
    BY <1>1, <1>3, <1>4

\* The release of the mutex is the return of the call.
LEMMA UnlockReturns ==
  ASSUME IInv, NEW c \in Conn, Unlock(c)
  PROVE  [Promise!Next]_(Promise!vars)
  <1>1. /\ at[c] = "unlock" /\ at'[c] = "exec" /\ Alone(c) /\ Elsewhere /\ UNCHANGED replies
    BY UnlockDoes DEF IInv
  <1>2. callOf(c)' = [phase |-> "idle"]
    BY <1>1, NotForwarding DEF Forwarding
  <1>3. seen' = [seen EXCEPT ![c] = callOf(c)'] /\ session' = session
    BY <1>1, OthersSame DEF session, Session, procVars, Elsewhere
  <1>4. seen[c].phase \in {"answered", "failed"}
    <2>1. phaseOf(c) \in {"answered", "failed"}
      BY <1>1 DEF phaseOf
    <2> QED
      BY <1>1, <2>1 DEF seen, callOf, Forwarding
  <1>5. Promise!Return(c)
    BY <1>2, <1>3, <1>4 DEF Promise!Return, Promise!Idle, seen, session
  <1> QED
    BY <1>5 DEF Promise!Next

\* The command of the connection that waits is carried out.
LEMMA FinishExecutes ==
  ASSUME IInv, NEW c \in Conn, Finish(c)
  PROVE  [Promise!Next]_(Promise!vars)
  <1> DEFINE k == call[c].into
  <1>1. /\ at[c] = "exec" /\ at'[c] \in {"wait", "loop"} /\ Alone(c) /\ Elsewhere
        /\ k \notin open => replies' = replies
    BY FinishDoes DEF IInv
  <1>2. callOf(c) = [phase |-> "idle"] /\ callOf(c)' = callOf(c)
    BY <1>1, NotForwarding DEF Forwarding
  <1>3. CASE k \notin open
    BY <1>1, <1>2, <1>3, Unseen, Stutters DEF Elsewhere
  <1>4. CASE k \in open
    <2>0. PICK w \in Conn : w = call[c].from
      BY <1>4, FinishAnswers DEF Awaits
    <2>1. /\ Awaits(w, k) /\ w # c /\ replies[k] = <<>>
          /\ AnswerTo(w, replies'[k])
          /\ \A j \in Pair \ {k} : replies'[j] = replies[j]
      BY <1>4, <2>0, FinishAnswers
    <2> HIDE DEF k
    <2>2. w \in Conn /\ owner = w /\ at[w] \in {"bind", "recv"} /\ call[w].sent = k /\ k # 0
      BY <1>4, <2>1, AwaitsOwns, OpenPairs DEF Awaits, IInv
    <2>3. at'[w] = at[w] /\ call'[w] = call[w]
      BY <1>1, <2>1, <2>2 DEF Alone
    <2>4. callOf(w) = [phase |-> "asked", proc |-> call[w].proc, since |-> call[w].since]
      <3>1. DOMAIN replies[call[w].sent] = {}
        BY <2>1, <2>2
      <3>2. ~HasAnswer(w)
        BY <3>1 DEF HasAnswer
      <3> QED
        BY <2>2, <3>2 DEF callOf, phaseOf, Forwarding
    <2>5. callOf(w)' = [phase |-> "executed", proc |-> call[w].proc, since |-> call[w].since]
      <3>1. k \in Pair /\ replies' \in [Pair -> Seq(Reply)]
        BY <1>4, FinishDoes, OpenPairs DEF IInv, Typed, TypeOK
      <3>2. replies'[k] \in Seq(Reply)
        BY <3>1
      <3>3. 1 \in DOMAIN replies'[k] /\ replies'[k][1].from = w
        BY <2>1, <3>2 DEF AnswerTo
      <3>4. HasAnswer(w)'
        BY <2>2, <2>3, <3>3 DEF HasAnswer
      <3> QED
        BY <2>2, <2>3, <3>4 DEF callOf, phaseOf, Forwarding
    <2>6. ASSUME NEW d \in Conn \ {w}
          PROVE  callOf(d)' = callOf(d) /\ callOf(d).phase # "executed"
      <3>1. CASE d = c
        BY <3>1, <1>2
      <3>2. CASE d # c /\ at[d] \notin Forwarding
        <4>1. at'[d] = at[d]
          BY <3>2, <1>1 DEF Alone
        <4> QED
          BY <3>2, <4>1, NotForwarding
      <3>3. CASE d # c /\ at[d] \in Forwarding
        <4>1. at'[d] = at[d] /\ call'[d] = call[d]
          BY <3>3, <1>1 DEF Alone
        <4>2. call[d].sent = 0 /\ callOf(d).phase = "asked"
          BY <3>3, <2>2, OthersSentNothing
        <4> QED
          BY <4>1, <4>2, SeenSame
      <3> QED
        BY <3>1, <3>2, <3>3
    <2>7. seen' = [seen EXCEPT ![w] = callOf(w)']
      <3>1. seen' = [d \in Conn |-> callOf(d)']
        BY DEF seen
      <3> HIDE DEF seen
      <3> QED
        BY <2>2, <2>6, <3>1 DEF seen
    <2>8. session' = session
      BY <1>1 DEF session, Session, procVars, Elsewhere
    <2>9. /\ seen[w].phase = "asked" /\ seen[w].proc = call[w].proc
          /\ seen[w].since = call[w].since /\ \A d \in Conn : seen[d].phase # "executed"
      BY <2>2, <2>4, <2>6 DEF seen
    <2>10. Promise!Execute(w)
      BY <2>2, <2>5, <2>7, <2>8, <2>9 DEF Promise!Execute, Promise!InPhase, seen, session
    <2> QED
      BY <2>2, <2>10 DEF Promise!Next
  <1> QED
    BY <1>3, <1>4

\* The steps of the loop and of the timed wait that begin no command do not show
\* in the calls.
LEMMA QuietSeen ==
  ASSUME IInv, NEW c \in Conn, Quiet(c)
  PROVE  seen' = seen
  <1>1. ASSUME NEW d \in Conn
        PROVE  callOf(d)' = callOf(d)
    <2>1. CASE d = c
      <3>1. at[c] \notin Forwarding /\ at'[c] \notin Forwarding
        BY DEF Quiet, Busy
      <3> QED
        BY <2>1, <3>1, NotForwarding
    <2>2. CASE d # c
      <3>1. at'[d] = at[d] /\ call' = call /\ replies' = replies
        BY <2>2 DEF Quiet
      <3> QED
        BY <3>1, SeenSame
    <2> QED
      BY <2>1, <2>2
  <1>2. seen' = [d \in Conn |-> callOf(d)']
    BY DEF seen
  <1> HIDE DEF seen
  <1> QED
    BY <1>1, <1>2 DEF seen

\* A session begins or ends, and nobody's call moves.
LEMMA SessionsShow ==
  ASSUME IInv, IInv', NEW c \in Conn, Quiet(c)
  PROVE  [Promise!Next]_(Promise!vars)
  <1>1. seen' = seen
    BY QuietSeen
  <1>2. session' \in [Proc -> Nat]
    <2>1. ASSUME NEW p \in Proc
          PROVE  Session(p)' \in Nat
      <3>1. isDebugged'[p] \in BOOLEAN /\ debuggerClient'[p] \in 0 .. MaxPairs
        BY DEF IInv, Typed, TypeOK
      <3> QED
        BY <3>1, ChannelAssumption DEF Session
    <2>2. session' = [p \in Proc |-> Session(p)']
      BY DEF session
    <2> QED
      BY <2>1, <2>2
  <1>3. Promise!Sessions
    BY <1>1, <1>2 DEF Promise!Sessions, seen, session
  <1> QED
    BY <1>3 DEF Promise!Next

\* A command taken from the pair of a session is carried out or forwarded.
LEMMA TakeAsks ==
  ASSUME IInv, Kinds \cap Unhandled = {},
         NEW c \in Conn, NEW k \in open, NEW nested \in BOOLEAN,
         at[c] \in {"loop", "wait"}, requests[k] # <<>>, Take(c, k, nested),
         UNCHANGED procVars
  PROVE  [Promise!Next]_(Promise!vars)
  <1> DEFINE r == Head(requests[k])
  <1>1. k \in Pair /\ k \in 0 .. MaxPairs /\ requests[k] \in Seq(Request) /\ r \in Request
    BY OpenPairs, ChannelAssumption DEF IInv, Typed, TypeOK, Pair
  <1>2. r.kind \in Kinds /\ r.kind \notin Unhandled /\ r.proc \in Proc /\ r.from \in Conn
    <2>1. 1 \in DOMAIN requests[k] /\ r = requests[k][1]
      BY <1>1
    <2>2. r.kind \in Kinds
      BY <1>1, <2>1 DEF IInv, Typed, CallsOwned
    <2> QED
      BY <1>1, <2>2 DEF Request
  <1>3. Begin(c, r.proc, r.kind, r.from, k, nested) /\ UNCHANGED replies
    BY <1>2 DEF Take
  <1>4. at[c] \notin Forwarding
    BY DEF Forwarding
  <1> HIDE DEF r
  <1> QED
    BY <1>1, <1>2, <1>3, <1>4, BeginAsks

\* Every step of the channel is one that ForwardedCall allows, or does not show.
LEMMA PromiseStep ==
  ASSUME Kinds \cap Unhandled = {}, IInv, IInv', [Next]_vars
  PROVE  [Promise!Next]_(Promise!vars)
  <1>1. ASSUME NEW c \in Conn, Client(c)
        PROVE  [Promise!Next]_(Promise!vars)
    <2>1. CASE \E p \in Proc, kind \in Kinds : ClientCommand(c, p, kind)
      <3>1. PICK p \in Proc, kind \in Kinds : ClientCommand(c, p, kind)
        BY <2>1
      <3>2. /\ Begin(c, p, kind, NoOne, 0, FALSE) /\ at[c] \notin Forwarding
            /\ UNCHANGED <<procVars, replies>>
        BY <3>1 DEF ClientCommand, ReadsClient, pairVars, Forwarding
      <3>3. 0 \in 0 .. MaxPairs /\ FALSE \in BOOLEAN
        BY ChannelAssumption
      <3> QED
        BY <3>2, <3>3, BeginAsks
    <2>2. CASE \/ newconnection(c) \/ WaitForDebugEvent(c) \/ CloseConnection(c)
               \/ ReadError(c) \/ Disconnect(c) \/ \E p \in Proc : StartDebug(c, p)
      <3>1. Quiet(c)
        BY <2>2, QuietSteps DEF IInv
      <3> QED
        BY <3>1, SessionsShow
    <2> QED
      BY <1>1, <2>1, <2>2 DEF Client
  <1>2. ASSUME NEW c \in Conn, Forwards(c)
        PROVE  [Promise!Next]_(Promise!vars)
    BY <1>2, LockStutters, SendStutters, BindFails, ReceiveSettles, UnlockReturns DEF Forwards
  <1>3. ASSUME NEW c \in Conn, Dispatches(c)
        PROVE  [Promise!Next]_(Promise!vars)
    <2>1. CASE ReadsDebugfd(c)
      <3>1. /\ at[c] = "loop" /\ debugfd[c] \in open /\ requests[debugfd[c]] # <<>>
            /\ Take(c, debugfd[c], FALSE) /\ UNCHANGED procVars
        BY <2>1 DEF ReadsDebugfd, Readable
      <3>2. FALSE \in BOOLEAN
        OBVIOUS
      <3> QED
        BY <3>1, <3>2, TakeAsks
    <2>2. CASE SelectFails(c) \/ TimesOut(c)
      <3>1. Quiet(c)
        BY <2>2, QuietSteps DEF IInv
      <3> QED
        BY <3>1, SessionsShow
    <2>3. CASE WakesUp(c)
      <3>1. at[c] = "wait" /\ UNCHANGED procVars
        BY <2>3 DEF WakesUp
      <3> DEFINE k == debuggerClient[isDebuggerThread[c]]
      <3>2. CASE k \in open /\ requests[k] # <<>> /\ Take(c, k, TRUE)
        <4> HIDE DEF k
        <4>1. TRUE \in BOOLEAN
          OBVIOUS
        <4> QED
          BY <3>1, <3>2, <4>1, TakeAsks
      <3>3. CASE (Goto(c, "wait") \/ Goto(c, "loop")) /\ UNCHANGED <<call, pairVars>>
        <4>1. Quiet(c)
          BY <2>3, <3>3, WakesQuietly DEF IInv
        <4> QED
          BY <4>1, SessionsShow
      <3> QED
        BY <2>3, <3>2, <3>3 DEF WakesUp
    <2>4. CASE Finish(c)
      BY <2>4, FinishExecutes
    <2> QED
      BY <1>3, <2>1, <2>2, <2>3, <2>4 DEF Dispatches
  <1>4. CASE mychildhandler \/ UNCHANGED vars
    <2>1. UNCHANGED <<threadVars, procVars, pairVars>>
      BY <1>4 DEF mychildhandler, vars
    <2>2. \A c \in Conn : callOf(c)' = callOf(c)
      BY <2>1, SeenSame DEF threadVars, pairVars
    <2>3. seen' = [c \in Conn |-> callOf(c)']
      BY DEF seen
    <2>4. session' = session
      BY <2>1 DEF session, Session, procVars
    <2> HIDE DEF seen
    <2>5. seen' = seen
      BY <2>2, <2>3 DEF seen
    <2> QED
      BY <2>4, <2>5, Stutters
  <1>5. ASSUME NEW c \in Conn, Blocks(c)
        PROVE  [Promise!Next]_(Promise!vars)
    BY <1>5, BlocksStutters
  <1> QED
    BY <1>1, <1>2, <1>3, <1>4, <1>5 DEF Next

\* The initial states are initial states of ForwardedCall.
LEMMA PromiseInit ==
  ASSUME Init
  PROVE  Promise!Init
  <1>0. at = [c \in Conn |-> "ended"] /\ isDebugged = [p \in Proc |-> FALSE]
    BY DEF Init
  <1>1. \A c \in Conn : at[c] = "ended"
    BY <1>0
  <1>2. \A c \in Conn : callOf(c) = [phase |-> "idle"]
    BY <1>1 DEF callOf, Forwarding
  <1>3. \A p \in Proc : Session(p) = 0
    BY <1>0 DEF Session
  <1> QED
    BY <1>2, <1>3 DEF Promise!Init, Promise!Idle

\* The channel implements ForwardedCall: a forwarded command is carried out at
\* most once and by one thread at a time, answered only after that, and fails
\* only when the session it was made in is over.
THEOREM ChannelImplements ==
  ASSUME Kinds \cap Unhandled = {}
  PROVE  Spec => KeepsPromise
  <1>1. Init => Promise!Init
    BY PromiseInit
  <1>2. IInv /\ [Next]_vars => IInv'
    BY IInvStep
  <1>3. IInv /\ IInv' /\ [Next]_vars => [Promise!Next]_(Promise!vars)
    BY PromiseStep
  <1> QED
    BY <1>1, <1>2, <1>3, IInvInit, PTL DEF Spec, KeepsPromise, Promise!Spec
===========================================================================
