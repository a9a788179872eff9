------------------------ MODULE HandleThreadsProofs ------------------------
(* Proofs that the calls which share the handle table without a lock misuse  *)
(* no memory and keep the reference counts exact until two of them meet in   *)
(* one of the ways that HandleThreads names, for every number of             *)
(* connections, processes, handles and calls.                                *)
EXTENDS HandleThreads, FiniteSetTheorems, TLAPS

-----------------------------------------------------------------------------
(* The inductive invariant.                                                 *)

\* No two calls have met in a way that hurts.
Clean == ~Among({"first", "spot", "count", "last"})

\* What meets is remembered.
RacesSeen == Overlaps \subseteq races

\* The object that only this call knows: the one it makes a handle for, or the
\* module list while OpenProcess has not come to that.
Makes(t) == t.at \in FirstTime \cup Creating
HasList(t) == t.result # 0 /\ t.kind = Process
OwnOf(t) == IF Makes(t) THEN t.p ELSE IF HasList(t) THEN t.ml ELSE NULL
Own(c) == OwnOf(th[c])

\* The references to handles: of the slots of the clients; 0, that of a call
\* which closes a handle; -1, that of an OpenProcess which will return one.
Tags == -1 .. MaxHeld
HandOf(t) == IF t.at \in {"close", "closewrite"} THEN t.i ELSE 0
RefOf(c, n) ==
  IF n = -1 THEN th[c].result ELSE IF n = 0 THEN HandOf(th[c]) ELSE held[c][n].h
Refs(h) == {x \in Conn \X Tags : RefOf(x[1], x[2]) = h}

\* A thread is about to empty handle h, whose object is freed.
Dying(h) == \E c \in Conn : At(c, "remove") /\ th[c].i = h

\* Handle h leads to a living object, and to p.
Live(h) == HandleList[h].type # "htEmpty" /\ ~Dying(h)
Names(h, p) == Live(h) /\ HandleList[h].pointer = p

\* Until the table is made it is empty, and whoever makes it is alone.
Phases ==
  /\ table # "zeroed" =>
       /\ \A h \in Handles : HandleList[h] = EmptyEntry
       /\ \A c \in Conn, n \in Slots : held[c][n].h = 0
       /\ \A c \in Conn : th[c].at \in {"idle", "search"} \cup FirstTime /\ th[c].result = 0
  /\ BadTable => \E c \in Conn : th[c].at \in FirstTime
  /\ \A c \in Conn : /\ At(c, "size") => table = "null"
                     /\ At(c, "alloc") => table = "sized"
                     /\ At(c, "zero") => table = "raw"

\* What a call makes has one reference and is of the kind and process it is for;
\* its spot stays empty, and has the pointer before the type.
MakesGood(t) ==
  /\ Makes(t) =>
       /\ IsObject(t.p, t.kind) /\ heap[t.p].pid = IF t.kind = Module THEN NULL ELSE t.pid
       /\ t.result # 0 <=> t.kind = Module
       /\ t.pid = NULL <=> t.kind = Snapshot
  /\ ~Makes(t) /\ HasList(t) => IsObject(t.ml, Module) /\ heap[t.ml].pid = NULL
  /\ OwnOf(t) # NULL => heap[OwnOf(t)].rc = 1
  /\ t.at \in {"pointer", "type"} => HandleList[t.i].type = "htEmpty"
  /\ t.at = "type" => HandleList[t.i].pointer = t.p

\* What a call has found is there, and the count it has read is the count.
FindsGood(t) ==
  /\ t.at \in Searching => t.kind = Process /\ t.pid # NULL
  /\ t.at \in {"look", "deref", "ref", "refwrite"} => HandleList[t.i].type = Process
  /\ t.at = "ref" => heap[HandleList[t.i].pointer].pid = t.pid
  /\ t.at = "refwrite" => /\ HandleList[t.i].pointer = t.p
                          /\ heap[t.p].pid = t.pid /\ heap[t.p].rc = t.n
  /\ t.at = "use" => IsObject(t.p, Process)
  /\ t.at \in {"search", "deref"} /\ t.result # 0 => t.i <= t.result

\* What a call closes is there; OpenProcess closes what it says it closes.
ClosesGood(t) ==
  /\ t.at \in Closing => HandleList[t.i].type # "htEmpty"
  /\ t.at \in Closing /\ t.result # 0 => HandleList[t.i].type = t.kind
  /\ t.at \in {"closewrite", "recheck", "free", "remove"} =>
       HandleList[t.i].type = t.kind /\ HandleList[t.i].pointer = t.p
  /\ t.at = "closewrite" => heap[t.p].rc = t.n
  /\ t.at \in {"idle", "look", "use"} => t.result = 0
  /\ t.result # 0 => t.kind \in {Process, Module} /\ t.pid # NULL

Local(t) == MakesGood(t) /\ FindsGood(t) /\ ClosesGood(t)

\* Handles lead to living objects of their type, and no two to one.
EntriesGood ==
  /\ \A h \in Handles : Live(h) => IsObject(HandleList[h].pointer, HandleList[h].type)
  /\ \A h, g \in Handles : Live(h) /\ Live(g) /\ HandleList[h].pointer = HandleList[g].pointer => h = g

\* What a call makes is no other call's and in no handle yet.
OwnApart ==
  \A c \in Conn : Own(c) # NULL =>
    /\ \A h \in Handles : ~Names(h, Own(c))
    /\ \A d \in Conn : Own(d) = Own(c) => d = c

\* A handle is emptied by one call, when no reference to it is left; and one call
\* at most has given up a reference to it and has yet to see whether that was so.
Ending == {"recheck", "free", "remove"}
EndsGood ==
  \A c \in Conn :
    /\ th[c].at \in {"free", "remove"} => Refs(th[c].i) = {}
    /\ \A d \in Conn : th[c].at \in Ending /\ th[d].at \in Ending /\ th[d].i = th[c].i => d = c

\* Handle h is one that a client may be given for `pid`.
Gives(h, pid) ==
  /\ HandleList[h].type = (IF pid = NULL THEN Snapshot ELSE Process)
  /\ heap[HandleList[h].pointer].pid = pid

\* What clients hold, and will be given, is what they asked for.
RefsGood ==
  /\ \A c \in Conn, n \in Slots : held[c][n].h # 0 => Gives(held[c][n].h, held[c][n].pid)
  /\ \A c \in Conn : th[c].result # 0 => Gives(th[c].result, th[c].pid)

\* Every count is the number of references.
CountsGood ==
  \A h \in Handles : Live(h) => heap[HandleList[h].pointer].rc = Cardinality(Refs(h))

\* A handle without a reference is about to be freed by the call that gave up the
\* last one.
NoneLeft ==
  \A h \in Handles : Live(h) /\ Refs(h) = {} =>
    \E c \in Conn : th[c].at \in {"recheck", "free"} /\ th[c].i = h

\* No object is lost but module lists.
NoneLost ==
  \A p \in Ptr :
    \/ heap[p] = Freed \/ heap[p].kind = Module
    \/ (\E c \in Conn : Own(c) = p) \/ (\E h \in Handles : Names(h, p))

\* One process has one ProcessData, when nobody overlaps: a thread that opens it
\* has not gone past its handle, and a thread that makes it is the only one.
Unique ==
  \A pid \in Pid :
    /\ \A p, q \in Processes(pid) : p = q
    /\ \A c \in Conn, p \in Processes(pid) :
         Opening(c) /\ th[c].pid = pid =>
           \/ Makes(th[c]) /\ th[c].p = p
           \/ ~Makes(th[c]) /\ \E h \in Handles : Names(h, p) /\ th[c].i <= h

Good ==
  /\ Phases /\ EntriesGood
  /\ \A c \in Conn : Local(th[c])
  /\ OwnApart /\ EndsGood
  /\ RefsGood /\ CountsGood /\ NoneLeft /\ NoneLost

\* The spots that threads are at and the handles that clients hold are in the
\* table; a search ends behind it.
Placed ==
  /\ \A c \in Conn : ~At(c, "search") => th[c].i \in Handles
  /\ \A c \in Conn, n \in Slots : held[c][n] # Nothing => held[c][n].h \in Handles

Typed == TypeOK /\ Placed

IInv ==
  /\ Typed /\ RacesSeen
  /\ Clean => ~fault /\ Good
  /\ races = {} => Unique

-----------------------------------------------------------------------------
(* Types.                                                                   *)

TableOK   == /\ HandleList \in [Handles -> [type : Kinds \cup {"htEmpty"}, pointer : Ptr \cup {NULL}]]
             /\ table \in {"null", "sized", "raw", "zeroed"}
HeapOK    == heap \in [Ptr -> [kind : Kinds \cup {"free"}, pid : Pid \cup {NULL}, rc : Int]]
ThreadsOK == th \in [Conn -> Thread] /\ \A c \in Conn : ~At(c, "search") => th[c].i \in Handles
HeldOK    == /\ held \in [Conn -> [Slots -> Held]]
             /\ \A c \in Conn, n \in Slots : held[c][n] # Nothing => held[c][n].h \in Handles
CountsOK  == calls \in 0 .. MaxCalls /\ races \subseteq {"first", "spot", "count", "last", "open"}

\* Together these say what Typed says.
LEMMA TypedParts ==
  Typed <=> TableOK /\ HeapOK /\ ThreadsOK /\ HeldOK /\ CountsOK /\ fault \in BOOLEAN
BY DEF Typed, TypeOK, Placed, TableOK, HeapOK, ThreadsOK, HeldOK, CountsOK

\* And so they do of the next state.
LEMMA TypedPartsNext ==
  TableOK' /\ HeapOK' /\ ThreadsOK' /\ HeldOK' /\ CountsOK' /\ fault' \in BOOLEAN => Typed'
BY DEF Typed, TypeOK, Placed, TableOK, HeapOK, ThreadsOK, HeldOK, CountsOK

\* The constants.
LEMMA Constants ==
  /\ Spots \in Nat /\ Spots >= 1 /\ NULL \notin Ptr /\ NULL \notin Pid
  /\ 1 \in Handles /\ \A h \in Handles : h \in Nat /\ h >= 1 /\ h \in 1 .. Spots + 1 /\ h \in 0 .. Spots
  /\ MaxHeld \in Nat
BY ThreadsAssumption DEF Handles

\* A call in its fields.
LEMMA ThreadFields ==
  ASSUME NEW t \in Thread
  PROVE  /\ t.at \in Places /\ t.pid \in Pid \cup {NULL} /\ t.kind \in Kinds /\ t.i \in 1 .. Spots + 1
         /\ t.p \in Ptr \cup {NULL} /\ t.n \in Int /\ t.result \in 0 .. Spots /\ t.ml \in Ptr \cup {NULL}
BY DEF Thread

\* A thread without a call.
LEMMA IdleFields ==
  /\ Idle \in Thread /\ Idle.at = "idle" /\ Idle.pid = NULL /\ Idle.kind = Process /\ Idle.i = 1
  /\ Idle.p = NULL /\ Idle.n = 0 /\ Idle.result = 0 /\ Idle.ml = NULL
<1>1. /\ Idle.at = "idle" /\ Idle.pid = NULL /\ Idle.kind = Process /\ Idle.i = 1
      /\ Idle.p = NULL /\ Idle.n = 0 /\ Idle.result = 0 /\ Idle.ml = NULL
  BY DEF Idle
<1>2. 1 \in 1 .. Spots + 1 /\ 0 \in 0 .. Spots /\ "idle" \in Places /\ Process \in Kinds
  BY Constants DEF Places, Kinds
<1> QED
  BY <1>1, <1>2 DEF Idle, Thread

\* What a search is at its beginning.
LEMMA SearchFields ==
  ASSUME NEW pid \in Pid, NEW r \in 0 .. Spots, NEW ml \in Ptr \cup {NULL}
  PROVE  LET t == Search(pid, r, ml)
         IN /\ t \in Thread /\ t.at = "search" /\ t.pid = pid /\ t.kind = Process /\ t.i = 1
            /\ t.result = r /\ t.ml = ml
<1>1. 1 \in 1 .. Spots + 1 /\ 0 \in Int /\ "search" \in Places /\ Process \in Kinds
  BY Constants DEF Places, Searching, Kinds
<1> QED
  BY <1>1 DEF Search, Idle, Thread

\* Thread c moves to call t, and no other one.
Moves(c, t) ==
  /\ th' = [th EXCEPT ![c] = t]
  /\ th'[c] = t /\ \A d \in Conn : d # c => th'[d] = th[d]

\* That is what Goto says.
LEMMA GotoMoves ==
  ASSUME Typed, NEW c \in Conn, NEW t, Goto(c, t)
  PROVE  Moves(c, t)
BY DEF Typed, TypeOK, Goto, Moves

\* A call that is in the table or searches it is a call of the right type.
LEMMA MovesTyped ==
  ASSUME Typed, NEW c \in Conn, NEW t \in Thread, Moves(c, t), t.at # "search" => t.i \in Handles
  PROVE  ThreadsOK'
<1>1. th' \in [Conn -> Thread]
  BY DEF Typed, TypeOK, Moves
<1>2. \A d \in Conn : th'[d].at # "search" => th'[d].i \in Handles
  BY DEF Typed, Placed, At, Moves
<1> QED
  BY <1>1, <1>2 DEF ThreadsOK, At

\* A client is given a handle.
LEMMA GetsTyped ==
  ASSUME Typed, NEW c \in Conn, NEW h \in Handles, NEW pid \in Pid \cup {NULL}, Gets(c, h, pid)
  PROVE  HeldOK'
<1>1. [h |-> h, pid |-> pid] \in Held /\ [h |-> h, pid |-> pid].h = h
  BY Constants DEF Held
<1>2. PICK n \in Slots : held' = [held EXCEPT ![c][n] = [h |-> h, pid |-> pid]]
  BY DEF Gets
<1>3. held' \in [Conn -> [Slots -> Held]]
  BY <1>1, <1>2 DEF Typed, TypeOK
<1>4. \A d \in Conn, m \in Slots : held'[d][m] = held[d][m] \/ held'[d][m].h = h
  BY <1>1, <1>2 DEF Typed, TypeOK
<1> QED
  BY <1>3, <1>4 DEF HeldOK, Typed, Placed

\* A fault ends the call.
LEMMA FaultsTyped ==
  ASSUME Typed, NEW c \in Conn, Faults(c)
  PROVE  TableOK' /\ HeapOK' /\ ThreadsOK' /\ HeldOK' /\ fault' \in BOOLEAN
<1>1. Moves(c, Idle) /\ UNCHANGED <<HandleList, table, heap, held>> /\ fault' = TRUE
  BY GotoMoves DEF Faults, Returns
<1>2. ThreadsOK'
  BY <1>1, MovesTyped, IdleFields, Constants
<1> QED
  BY <1>1, <1>2, TypedParts DEF TableOK, HeapOK, HeldOK

\* Every kind of new object is one.
LEMMA ObjectTyped ==
  ASSUME NEW kind \in Kinds, NEW pid \in Pid \cup {NULL}
  PROVE  /\ Object(kind, pid) \in [kind : Kinds \cup {"free"}, pid : Pid \cup {NULL}, rc : Int]
         /\ Object(kind, pid).kind = kind /\ Object(kind, pid).pid = pid /\ Object(kind, pid).rc = 1
BY DEF Object

\* What a malloc and the call of CreateHandleFromPointer give.
LEMMA CreateMoves ==
  ASSUME Typed, NEW c \in Conn, NEW kind \in Kinds, NEW pid \in Pid \cup {NULL}, Create(c, kind, pid)
  PROVE  \E p \in FreeCells, t \in Thread :
           /\ heap' = [heap EXCEPT ![p] = Object(kind, pid)]
           /\ Moves(c, t)
           /\ t.at = (IF table \in {"null", "sized"} THEN "size" ELSE "scan")
           /\ t.pid = pid /\ t.kind = kind /\ t.i = 1 /\ t.p = p /\ t.result = 0 /\ t.n = 0 /\ t.ml = NULL
<1>1. PICK p \in FreeCells :
        /\ heap' = [heap EXCEPT ![p] = Object(kind, pid)]
        /\ Goto(c, [Idle EXCEPT !.at = IF table \in {"null", "sized"} THEN "size" ELSE "scan",
                                !.pid = pid, !.kind = kind, !.p = p])
  BY DEF Create
<1>2. PICK place : place = IF table \in {"null", "sized"} THEN "size" ELSE "scan"
  OBVIOUS
<1>3. PICK t : t = [Idle EXCEPT !.at = place, !.pid = pid, !.kind = kind, !.p = p]
  OBVIOUS
<1>4. /\ t.at = place /\ t.pid = pid /\ t.kind = kind /\ t.i = 1 /\ t.p = p /\ t.result = 0
      /\ t.n = 0 /\ t.ml = NULL
  BY <1>3 DEF Idle
<1>5. t \in Thread
  <2>1. 1 \in 1 .. Spots + 1 /\ 0 \in 0 .. Spots /\ place \in Places /\ p \in Ptr
    BY <1>2, Constants DEF Places, FirstTime, Creating, FreeCells
  <2>2. t = [at |-> place, pid |-> pid, kind |-> kind, i |-> 1, p |-> p, n |-> 0,
             result |-> 0, ml |-> NULL]
    BY <1>3 DEF Idle
  <2> QED
    BY <2>1, <2>2 DEF Thread
<1>6. Moves(c, t)
  BY <1>1, <1>2, <1>3, GotoMoves
<1> QED
  BY <1>1, <1>2, <1>4, <1>5, <1>6

\* The steps of a call keep the types of what they change.  A new process or
\* process list,
LEMMA CreateTyped ==
  ASSUME Typed, NEW c \in Conn, NEW kind \in Kinds, NEW pid \in Pid \cup {NULL}, Create(c, kind, pid)
  PROVE  HeapOK' /\ ThreadsOK'
<1>1. PICK p \in FreeCells, t \in Thread :
        heap' = [heap EXCEPT ![p] = Object(kind, pid)] /\ Moves(c, t) /\ t.i = 1
  BY CreateMoves
<1>2. HeapOK'
  BY <1>1, ObjectTyped, TypedParts DEF HeapOK
<1>3. ThreadsOK'
  BY <1>1, MovesTyped, Constants
<1> QED
  BY <1>2, <1>3

\* the calls at their beginning,
LEMMA BeginTyped ==
  ASSUME Typed, NEW c \in Conn, Begin(c)
  PROVE  TableOK' /\ HeapOK' /\ ThreadsOK' /\ HeldOK' /\ fault' \in BOOLEAN
<1> USE TypedParts
<1>1. CASE OpenProcess(c)
  <2>1. PICK pid \in Pid : Goto(c, Search(pid, 0, NULL))
    BY <1>1 DEF OpenProcess
  <2>2. ThreadsOK'
    BY <2>1, SearchFields, GotoMoves, MovesTyped, Constants
  <2> QED
    BY <1>1, <2>2 DEF OpenProcess, TableOK, HeapOK, HeldOK
<1>2. CASE SnapProcess(c)
  <2>1. HeapOK' /\ ThreadsOK'
    BY <1>2, CreateTyped DEF SnapProcess, Kinds
  <2> QED
    BY <1>2, <2>1 DEF SnapProcess, TableOK, HeldOK
<1>3. CASE CloseHandle(c)
  <2>1. PICK n \in Slots : /\ held[c][n] # Nothing
                           /\ held' = [held EXCEPT ![c][n] = Nothing]
                           /\ Goto(c, [Idle EXCEPT !.at = "close", !.i = held[c][n].h])
    BY <1>3 DEF CloseHandle
  <2>2. PICK h \in Handles : h = held[c][n].h
    BY <2>1 DEF HeldOK
  <2>3. PICK t : t = [Idle EXCEPT !.at = "close", !.i = h]
    OBVIOUS
  <2>4. t = [at |-> "close", pid |-> NULL, kind |-> Process, i |-> h, p |-> NULL, n |-> 0,
             result |-> 0, ml |-> NULL]
    BY <2>3 DEF Idle
  <2>5. t \in Thread /\ t.i = h
    BY <2>4, Constants DEF Thread, Places, Closing, Kinds
  <2>6. ThreadsOK'
    BY <2>1, <2>2, <2>3, <2>5, GotoMoves, MovesTyped
  <2>7. HeldOK'
    <3>1. Nothing \in Held
      BY Constants DEF Nothing, Held
    <3> QED
      BY <2>1, <3>1 DEF HeldOK
  <2> QED
    BY <1>3, <2>6, <2>7 DEF CloseHandle, TableOK, HeapOK
<1>4. CASE UseHandle(c)
  <2>1. CASE Faults(c)
    BY <2>1, FaultsTyped
  <2>2. CASE ~Faults(c)
    <3>1. PICK d \in Conn, n \in Slots :
            /\ held[d][n] # Nothing
            /\ Goto(c, [Idle EXCEPT !.at = "look", !.i = held[d][n].h])
            /\ UNCHANGED <<HandleList, table, heap, held, fault>>
      BY <1>4, <2>2 DEF UseHandle
    <3>2. PICK h \in Handles : h = held[d][n].h
      BY <3>1 DEF HeldOK
    <3>3. PICK t : t = [Idle EXCEPT !.at = "look", !.i = h]
      OBVIOUS
    <3>4. t = [at |-> "look", pid |-> NULL, kind |-> Process, i |-> h, p |-> NULL, n |-> 0,
               result |-> 0, ml |-> NULL]
      BY <3>3 DEF Idle
    <3>5. t \in Thread /\ t.i = h
      BY <3>4, Constants DEF Thread, Places, Kinds
    <3>6. ThreadsOK'
      BY <3>1, <3>2, <3>3, <3>5, GotoMoves, MovesTyped
    <3> QED
      BY <3>1, <3>6 DEF TableOK, HeapOK, HeldOK
  <2> QED
    BY <2>1, <2>2
<1> QED
  BY <1>1, <1>2, <1>3, <1>4 DEF Begin

\* the search and the reference that is added,
LEMMA SearchTyped ==
  ASSUME Typed, NEW c \in Conn,
         \/ SearchSpot(c) \/ Compare(c) \/ ReadCount(c) \/ AddReference(c)
         \/ LookPointer(c) \/ UseProcess(c)
  PROVE  TableOK' /\ HeapOK' /\ ThreadsOK' /\ HeldOK' /\ fault' \in BOOLEAN
<1> USE TypedParts
<1>1. PICK t \in Thread : t = th[c]
  BY DEF ThreadsOK
<1>2. CASE Faults(c)
  BY <1>2, FaultsTyped
<1>3. ASSUME NEW x, Goto(c, x), x \in Thread, x.at # "search" => x.i \in Handles,
             UNCHANGED <<HandleList, table, heap, held, fault>>
      PROVE  TableOK' /\ HeapOK' /\ ThreadsOK' /\ HeldOK' /\ fault' \in BOOLEAN
  <2>1. ThreadsOK'
    BY <1>3, GotoMoves, MovesTyped
  <2> QED
    BY <1>3, <2>1 DEF TableOK, HeapOK, HeldOK
<1>4. CASE SearchSpot(c) /\ ~Faults(c)
  <2>1. CASE NoTable \/ t.i > Spots
    <3>1. CASE Create(c, Process, t.pid) /\ UNCHANGED <<HandleList, table, held, fault>>
      <4>1. HeapOK' /\ ThreadsOK'
        BY <1>1, <3>1, CreateTyped DEF Thread, Kinds
      <4> QED
        BY <3>1, <4>1 DEF TableOK, HeldOK
    <3>2. CASE Goto(c, Idle) /\ UNCHANGED <<HandleList, table, heap, held, fault>>
      BY <1>3, <3>2, IdleFields, Constants
    <3> QED
      BY <1>1, <1>4, <2>1, <3>1, <3>2 DEF SearchSpot, NotFound, Returns
  <2>2. CASE ~(NoTable \/ t.i > Spots)
    <3>1. t.i \in Handles /\ t.i + 1 \in 1 .. Spots + 1
      BY <1>1, <2>2, Constants DEF Thread, Handles
    <3>2. /\ [t EXCEPT !.at = "deref"] \in Thread /\ [t EXCEPT !.at = "deref"].i = t.i
          /\ t.at = "search" => [t EXCEPT !.i = @ + 1] \in Thread /\ [t EXCEPT !.i = @ + 1].at = "search"
      BY <1>1, <3>1 DEF Thread, Places, Searching
    <3> QED
      BY <1>1, <1>3, <1>4, <2>2, <3>1, <3>2 DEF SearchSpot, At
  <2> QED
    BY <2>1, <2>2
<1>5. CASE Compare(c) /\ ~Faults(c)
  <2>1. t.at = "deref" /\ t.i \in Handles /\ t.i + 1 \in 1 .. Spots + 1
    BY <1>1, <1>5, Constants DEF Compare, At, ThreadsOK, Handles
  <2>2. /\ [t EXCEPT !.at = "ref"] \in Thread /\ [t EXCEPT !.at = "ref"].i = t.i
        /\ [t EXCEPT !.at = "search", !.i = @ + 1] \in Thread
        /\ [t EXCEPT !.at = "search", !.i = @ + 1].at = "search"
    BY <1>1, <2>1 DEF Thread, Places, Searching
  <2> QED
    BY <1>1, <1>3, <1>5, <2>1, <2>2 DEF Compare
<1>6. CASE ReadCount(c) /\ ~Faults(c)
  <2>1. PICK p : /\ IsObject(p, Process) /\ p \in Ptr \cup {NULL}
                 /\ Goto(c, [t EXCEPT !.at = "refwrite", !.p = p, !.n = heap[p].rc])
                 /\ UNCHANGED <<HandleList, table, heap, held, fault>>
                 /\ t.i \in Handles
    BY <1>1, <1>6 DEF ReadCount, At, ThreadsOK, TableOK
  <2>2. PICK n \in Int : n = heap[p].rc
    BY <2>1 DEF IsObject, HeapOK
  <2>3. PICK x : x = [t EXCEPT !.at = "refwrite", !.p = p, !.n = n]
    OBVIOUS
  <2>4. x \in Thread /\ x.i = t.i
    BY <1>1, <2>1, <2>3 DEF Thread, Places, Searching
  <2> QED
    BY <1>3, <2>1, <2>2, <2>3, <2>4
<1>7. CASE AddReference(c) /\ ~Faults(c)
  <2>1. /\ IsObject(t.p, Process) /\ t.at = "refwrite" /\ t.i \in Handles
        /\ heap' = [heap EXCEPT ![t.p].rc = t.n + 1]
        /\ \/ Gets(c, t.i, t.pid) /\ Goto(c, Idle)
           \/ Goto(c, [t EXCEPT !.at = "close"]) /\ UNCHANGED held
        /\ UNCHANGED <<HandleList, table, fault>>
    BY <1>1, <1>7 DEF AddReference, At, ThreadsOK, Returns
  <2>2. HeapOK'
    BY <1>1, <2>1 DEF HeapOK, Thread, IsObject
  <2>3. [t EXCEPT !.at = "close"] \in Thread /\ [t EXCEPT !.at = "close"].i = t.i
    BY <1>1 DEF Thread, Places, Closing
  <2>4. ThreadsOK'
    BY <2>1, <2>3, IdleFields, Constants, GotoMoves, MovesTyped
  <2>5. HeldOK'
    BY <1>1, <2>1, GetsTyped, ThreadFields DEF HeldOK
  <2> QED
    BY <2>1, <2>2, <2>4, <2>5 DEF TableOK
<1>8. CASE LookPointer(c)
  <2>1. t.at = "look" /\ t.i \in Handles
    BY <1>1, <1>8 DEF LookPointer, At, ThreadsOK
  <2>2. PICK p \in Ptr \cup {NULL} :
          /\ Goto(c, [t EXCEPT !.at = "use", !.p = p])
          /\ UNCHANGED <<HandleList, table, heap, held, fault>>
    BY <1>1, <1>8, <2>1 DEF LookPointer, TableOK
  <2>3. PICK x : x = [t EXCEPT !.at = "use", !.p = p]
    OBVIOUS
  <2>4. x \in Thread /\ x.i = t.i
    BY <1>1, <2>2, <2>3 DEF Thread, Places
  <2> QED
    BY <1>3, <2>1, <2>2, <2>3, <2>4
<1>9. CASE UseProcess(c) /\ ~Faults(c)
  BY <1>3, <1>9, IdleFields, Constants DEF UseProcess, Returns
<1> QED
  BY <1>2, <1>4, <1>5, <1>6, <1>7, <1>8, <1>9

\* the end of a close, which may be followed by the scan for the module list,
LEMMA ClosedMoves ==
  ASSUME Typed, NEW c \in Conn, Closed(c, th[c])
  PROVE  \/ /\ th[c].result # 0 /\ th[c].kind = Process /\ held' = held
            /\ \E t \in Thread :
                 /\ Moves(c, t) /\ t.at = "scan" /\ t.pid = th[c].pid /\ t.kind = Module /\ t.i = 1
                 /\ t.p = th[c].ml /\ t.n = 0 /\ t.result = th[c].result /\ t.ml = th[c].ml
         \/ /\ th[c].result \in Handles /\ th[c].kind = Module
            /\ Gets(c, th[c].result, th[c].pid) /\ Moves(c, Idle)
         \/ th[c].result = 0 /\ Moves(c, Idle) /\ held' = held
<1>1. PICK t \in Thread : t = th[c]
  BY DEF Typed, TypeOK
<1>2. CASE t.result # 0 /\ t.kind = Process
  <2>1. /\ Goto(c, [t EXCEPT !.at = "scan", !.i = 1, !.kind = Module, !.p = t.ml, !.n = 0])
        /\ held' = held
    BY <1>1, <1>2 DEF Closed, Process, Module
  <2>2. PICK x : x = [t EXCEPT !.at = "scan", !.i = 1, !.kind = Module, !.p = t.ml, !.n = 0]
    OBVIOUS
  <2>3. x = [at |-> "scan", pid |-> t.pid, kind |-> Module, i |-> 1, p |-> t.ml, n |-> 0,
             result |-> t.result, ml |-> t.ml]
    BY <1>1, <2>2 DEF Thread
  <2>4. x \in Thread
    <3>1. 1 \in 1 .. Spots + 1 /\ "scan" \in Places /\ Module \in Kinds /\ 0 \in Int
      BY Constants DEF Places, Creating, Kinds
    <3> QED
      BY <1>1, <2>3, <3>1, ThreadFields DEF Thread
  <2>5. Moves(c, x)
    BY <2>1, <2>2, GotoMoves
  <2>6. /\ x.at = "scan" /\ x.pid = t.pid /\ x.kind = Module /\ x.i = 1
        /\ x.p = t.ml /\ x.n = 0 /\ x.result = t.result /\ x.ml = t.ml
    BY <2>3
  <2> QED
    BY <1>1, <1>2, <2>1, <2>4, <2>5, <2>6
<1>3. CASE t.result # 0 /\ t.kind # Process
  <2>1. t.result \in Handles
    BY <1>3, ThreadFields, Constants DEF Handles
  <2> QED
    BY <1>1, <1>3, <2>1, GotoMoves DEF Closed, Returns
<1>4. CASE t.result = 0
  BY <1>1, <1>4, GotoMoves DEF Closed, Returns
<1> QED
  BY <1>2, <1>3, <1>4

\* which keeps the types as well,
LEMMA ClosedTyped ==
  ASSUME Typed, NEW c \in Conn, Closed(c, th[c])
  PROVE  ThreadsOK' /\ HeldOK'
<1>1. PICK t \in Thread : t = th[c]
  BY DEF Typed, TypeOK
<1>2. CASE held' = held /\ \E x \in Thread : Moves(c, x) /\ x.i = 1
  <2>1. HeldOK'
    BY <1>2, TypedParts DEF HeldOK
  <2>2. ThreadsOK'
    BY <1>2, MovesTyped, Constants
  <2> QED
    BY <2>1, <2>2
<1>3. CASE t.result \in Handles /\ Gets(c, t.result, t.pid) /\ Moves(c, Idle)
  <2>1. HeldOK'
    BY <1>3, GetsTyped, ThreadFields
  <2>2. ThreadsOK'
    BY <1>3, MovesTyped, IdleFields, Constants
  <2> QED
    BY <2>1, <2>2
<1> QED
  BY <1>1, <1>2, <1>3, ClosedMoves, IdleFields

\* the creation of a handle,
LEMMA CreatingTyped ==
  ASSUME Typed, NEW c \in Conn, MakeTable(c) \/ Scan(c) \/ WritePointer(c) \/ WriteType(c)
  PROVE  TableOK' /\ HeapOK' /\ ThreadsOK' /\ HeldOK' /\ fault' \in BOOLEAN
<1> USE TypedParts
<1>1. PICK t \in Thread : t = th[c]
  BY DEF ThreadsOK
<1>a. t.at # "search" => t.i \in Handles
  BY <1>1 DEF ThreadsOK, At
<1>b. ASSUME NEW place \in Places, Goto(c, [t EXCEPT !.at = place]), t.i \in Handles
      PROVE  ThreadsOK'
  <2>1. [t EXCEPT !.at = place] \in Thread /\ [t EXCEPT !.at = place].i = t.i
    BY <1>1 DEF Thread
  <2> QED
    BY <1>b, <2>1, GotoMoves, MovesTyped
<1>2. CASE MakeTable(c)
  <2>1. EmptyEntry \in [type : Kinds \cup {"htEmpty"}, pointer : Ptr \cup {NULL}]
    BY DEF EmptyEntry
  <2>2. TableOK'
    BY <1>2, <2>1 DEF MakeTable, TableOK
  <2>3. \E place \in Places : Goto(c, [t EXCEPT !.at = place])
    BY <1>1, <1>2 DEF MakeTable, Places, FirstTime, Creating
  <2>4. t.i \in Handles
    BY <1>1, <1>2, <1>a DEF MakeTable, FirstTime
  <2>5. ThreadsOK'
    BY <1>b, <2>3, <2>4
  <2> QED
    BY <1>2, <2>2, <2>5 DEF MakeTable, HeapOK, HeldOK
<1>3. CASE Scan(c)
  <2>1. CASE Faults(c)
    BY <2>1, FaultsTyped
  <2>2. CASE ~Faults(c)
    <3>1. t.at = "scan" /\ t.i \in Handles
      BY <1>1, <1>3, <1>a DEF Scan, At
    <3>2. \/ Goto(c, [t EXCEPT !.at = "pointer"])
          \/ Goto(c, [t EXCEPT !.i = t.i + 1]) /\ t.i < Spots
      BY <1>1, <1>3, <2>2 DEF Scan
    <3>3. ASSUME Goto(c, [t EXCEPT !.at = "pointer"]) PROVE ThreadsOK'
      <4>1. "pointer" \in Places
        BY DEF Places, Creating
      <4> QED
        BY <1>b, <3>1, <3>3, <4>1
    <3>4. ASSUME Goto(c, [t EXCEPT !.i = t.i + 1]), t.i < Spots PROVE ThreadsOK'
      <4>1. t.i + 1 \in Handles /\ t.i + 1 \in 1 .. Spots + 1
        BY <3>1, <3>4, Constants DEF Handles
      <4>2. [t EXCEPT !.i = t.i + 1] \in Thread /\ [t EXCEPT !.i = t.i + 1].i = t.i + 1
        BY <1>1, <4>1 DEF Thread
      <4>3. Moves(c, [t EXCEPT !.i = t.i + 1])
        BY <3>4, GotoMoves
      <4> QED
        BY <4>1, <4>2, <4>3, MovesTyped
    <3>5. ThreadsOK'
      BY <3>2, <3>3, <3>4
    <3>6. UNCHANGED <<HandleList, table, heap, held, fault>>
      BY <1>1, <1>3, <2>2 DEF Scan
    <3> QED
      BY <3>5, <3>6 DEF TableOK, HeapOK, HeldOK
  <2> QED
    BY <2>1, <2>2
<1>4. CASE WritePointer(c)
  <2>1. t.at = "pointer" /\ t.i \in Handles
    BY <1>1, <1>4, <1>a DEF WritePointer, At
  <2>2. TableOK'
    BY <1>1, <1>4, <2>1, ThreadFields DEF WritePointer, WriteEntry, TableOK, At
  <2>3. ThreadsOK'
    BY <1>1, <1>b, <1>4, <2>1 DEF WritePointer, Places, Creating
  <2> QED
    BY <1>4, <2>2, <2>3 DEF WritePointer, HeapOK, HeldOK
<1>5. CASE WriteType(c)
  <2>1. t.at = "type" /\ t.i \in Handles
    BY <1>1, <1>5, <1>a DEF WriteType, At
  <2>2. TableOK'
    BY <1>1, <1>5, <2>1, ThreadFields DEF WriteType, WriteEntry, TableOK, At
  <2>a. ASSUME NEW ml \in FreeCells, heap' = [heap EXCEPT ![ml] = Object(Module, NULL)]
        PROVE  HeapOK'
    BY <2>a, ObjectTyped DEF HeapOK, Kinds, FreeCells
  <2>3. CASE Goto(c, Idle) /\ Gets(c, t.i, t.pid) /\ HeapOK'
    <3>1. HeldOK'
      BY <2>1, <2>3, GetsTyped, ThreadFields
    <3>2. ThreadsOK'
      BY <2>3, GotoMoves, MovesTyped, IdleFields, Constants
    <3> QED
      BY <1>5, <2>2, <2>3, <3>1, <3>2 DEF WriteType
  <2>4. CASE Goto(c, [t EXCEPT !.at = "close"]) /\ UNCHANGED <<heap, held>>
    <3>1. ThreadsOK'
      BY <1>b, <2>1, <2>4 DEF Places, Closing
    <3> QED
      BY <1>5, <2>2, <2>4, <3>1 DEF WriteType, HeapOK, HeldOK
  <2>5. ASSUME NEW ml \in FreeCells, heap' = [heap EXCEPT ![ml] = Object(Module, NULL)],
               Goto(c, Search(t.pid, t.i, ml)), UNCHANGED held
        PROVE  TableOK' /\ HeapOK' /\ ThreadsOK' /\ HeldOK' /\ fault' \in BOOLEAN
    <3>1. Search(t.pid, t.i, ml) \in Thread /\ Search(t.pid, t.i, ml).i = 1
      <4>1. /\ 1 \in 1 .. Spots + 1 /\ 0 \in Int /\ "search" \in Places /\ Process \in Kinds
            /\ ml \in Ptr /\ t.i \in 0 .. Spots
        BY <2>1, Constants DEF Places, Searching, Kinds, FreeCells
      <4> QED
        BY <4>1, ThreadFields DEF Search, Idle, Thread
    <3>2. ThreadsOK'
      BY <2>5, <3>1, GotoMoves, MovesTyped, Constants
    <3>3. HeapOK'
      BY <2>a, <2>5
    <3> QED
      BY <1>5, <2>2, <2>5, <3>2, <3>3 DEF WriteType, HeldOK
  <2>6. \/ Goto(c, Idle) /\ Gets(c, t.i, t.pid) /\ HeapOK'
        \/ Goto(c, [t EXCEPT !.at = "close"]) /\ UNCHANGED <<heap, held>>
        \/ \E ml \in FreeCells : /\ heap' = [heap EXCEPT ![ml] = Object(Module, NULL)]
                                 /\ Goto(c, Search(t.pid, t.i, ml)) /\ UNCHANGED held
    <3>1. UNCHANGED heap => HeapOK'
      BY DEF HeapOK
    <3> QED
      BY <1>1, <1>5, <2>a, <3>1 DEF WriteType, Returns
  <2> QED
    BY <2>3, <2>4, <2>5, <2>6
<1> QED
  BY <1>2, <1>3, <1>4, <1>5

\* and the close of one.
LEMMA ClosingTyped ==
  ASSUME Typed, NEW c \in Conn,
         LookUp(c) \/ DropReference(c) \/ RereadCount(c) \/ Free(c) \/ RemoveHandle(c)
  PROVE  TableOK' /\ HeapOK' /\ ThreadsOK' /\ HeldOK' /\ fault' \in BOOLEAN
<1> USE TypedParts
<1>1. PICK t \in Thread : t = th[c]
  BY DEF ThreadsOK
<1>2. t.i \in Handles
  BY <1>1 DEF ThreadsOK, At, LookUp, DropReference, RereadCount, Free, RemoveHandle
<1>3. CASE Faults(c)
  BY <1>3, FaultsTyped
<1>4. ASSUME NEW place \in Places, Goto(c, [t EXCEPT !.at = place])
      PROVE  ThreadsOK'
  <2>1. [t EXCEPT !.at = place] \in Thread /\ [t EXCEPT !.at = place].i = t.i
    BY <1>1 DEF Thread
  <2> QED
    BY <1>2, <1>4, <2>1, GotoMoves, MovesTyped
<1>5. CASE LookUp(c) /\ ~Faults(c)
  <2>1. PICK e \in [type : Kinds \cup {"htEmpty"}, pointer : Ptr \cup {NULL}] : e = HandleList[t.i]
    BY <1>2 DEF TableOK
  <2>2. UNCHANGED <<HandleList, table, heap, fault>>
    BY <1>1, <1>5 DEF LookUp
  <2>3. CASE e.type = "htEmpty"
    BY <1>1, <1>5, <2>1, <2>2, <2>3, ClosedTyped DEF LookUp, TableOK, HeapOK
  <2>4. CASE e.type # "htEmpty"
    <3>1. /\ IsObject(e.pointer, e.type) /\ held' = held
          /\ Goto(c, [t EXCEPT !.at = "closewrite", !.kind = e.type,
                               !.p = e.pointer, !.n = heap[e.pointer].rc])
      BY <1>1, <1>5, <2>1, <2>4 DEF LookUp
    <3>2. PICK n \in Int : n = heap[e.pointer].rc
      BY <2>1, <3>1 DEF IsObject, HeapOK
    <3>3. PICK x : x = [t EXCEPT !.at = "closewrite", !.kind = e.type, !.p = e.pointer, !.n = n]
      OBVIOUS
    <3>4. x \in Thread /\ x.i = t.i
      BY <1>1, <2>1, <2>4, <3>3 DEF Thread, Places, Closing
    <3>5. ThreadsOK'
      BY <1>2, <3>1, <3>2, <3>3, <3>4, GotoMoves, MovesTyped
    <3> QED
      BY <2>2, <3>1, <3>5 DEF TableOK, HeapOK, HeldOK
  <2> QED
    BY <2>3, <2>4
<1>6. CASE DropReference(c) /\ ~Faults(c)
  <2>1. /\ heap' = [heap EXCEPT ![t.p].rc = t.n - 1]
        /\ UNCHANGED <<HandleList, table, held, fault>>
        /\ Goto(c, [t EXCEPT !.at = "recheck"])
    BY <1>1, <1>6 DEF DropReference
  <2>2. HeapOK'
    <3>1. t.n - 1 \in Int
      BY ThreadFields
    <3> QED
      BY <2>1, <3>1 DEF HeapOK
  <2>3. ThreadsOK'
    BY <1>4, <2>1 DEF Places, Closing
  <2> QED
    BY <2>1, <2>2, <2>3 DEF TableOK, HeldOK
<1>a. CASE RereadCount(c) /\ ~Faults(c)
  <2>1. /\ UNCHANGED <<HandleList, table, heap, fault>>
        /\ Closed(c, th[c]) \/ (Goto(c, [t EXCEPT !.at = "free"]) /\ UNCHANGED held)
    BY <1>1, <1>a DEF RereadCount
  <2>2. ThreadsOK' /\ HeldOK'
    BY <1>4, <2>1, ClosedTyped DEF Places, Closing, HeldOK
  <2> QED
    BY <2>1, <2>2 DEF TableOK, HeapOK
<1>7. CASE Free(c) /\ ~Faults(c)
  <2>1. /\ heap' = [heap EXCEPT ![t.p] = Freed]
        /\ Goto(c, [t EXCEPT !.at = "remove"])
        /\ UNCHANGED <<HandleList, table, held, fault>>
    BY <1>1, <1>7 DEF Free
  <2>2. HeapOK'
    <3>1. Freed \in [kind : Kinds \cup {"free"}, pid : Pid \cup {NULL}, rc : Int]
      BY DEF Freed
    <3> QED
      BY <2>1, <3>1 DEF HeapOK
  <2>3. ThreadsOK'
    BY <1>4, <2>1 DEF Places, Closing
  <2> QED
    BY <2>1, <2>2, <2>3 DEF TableOK, HeldOK
<1>8. CASE RemoveHandle(c)
  <2>1. TableOK'
    BY <1>1, <1>2, <1>8 DEF RemoveHandle, TableOK
  <2> QED
    BY <1>8, <2>1, ClosedTyped DEF RemoveHandle, HeapOK
<1> QED
  BY <1>3, <1>5, <1>6, <1>7, <1>8, <1>a

\* So every step does.
LEMMA TypedInvariant ==
  /\ Init => Typed
  /\ Typed /\ [Next]_vars => Typed'
<1>1. ASSUME Init PROVE Typed
  <2>1. TableOK
    BY <1>1 DEF Init, TableOK, EmptyEntry
  <2>2. HeapOK
    BY <1>1 DEF Init, HeapOK, Freed
  <2>3. ThreadsOK
    BY <1>1, IdleFields, Constants DEF Init, ThreadsOK, At
  <2>4. HeldOK
    <3>1. Nothing \in Held
      BY Constants DEF Nothing, Held
    <3> QED
      BY <1>1, <3>1 DEF Init, HeldOK
  <2>5. CountsOK
    <3>1. calls \in 0 .. MaxCalls
      BY <1>1, ThreadsAssumption DEF Init
    <3>2. races = {}
      BY <1>1 DEF Init
    <3> QED
      BY <3>1, <3>2 DEF CountsOK
  <2>6. fault \in BOOLEAN
    BY <1>1 DEF Init
  <2> QED
    BY <2>1, <2>2, <2>3, <2>4, <2>5, <2>6, TypedParts
<1>2. ASSUME Typed, [Next]_vars PROVE Typed'
  <2>1. CASE UNCHANGED vars
    BY <1>2, <2>1 DEF vars, Typed, TypeOK, Placed, At
  <2>2. CASE Next
    <3>1. CountsOK'
      <4>1. Overlaps' \subseteq {"first", "spot", "count", "last", "open"}
        BY DEF Overlaps
      <4>2. calls' \in 0 .. MaxCalls
        BY <1>2, <2>2, ThreadsAssumption, TypedParts DEF Next, CountsOK
      <4> QED
        BY <1>2, <2>2, <4>1, <4>2, TypedParts DEF Next, CountsOK
    <3>2. PICK c \in Conn : Begin(c) \/ Step(c)
      BY <2>2 DEF Next
    <3>3. TableOK' /\ HeapOK' /\ ThreadsOK' /\ HeldOK' /\ fault' \in BOOLEAN
      BY <1>2, <3>2, BeginTyped, SearchTyped, CreatingTyped, ClosingTyped DEF Step
    <3> QED
      BY <3>1, <3>3, TypedPartsNext
  <2> QED
    BY <1>2, <2>1, <2>2
<1> QED
  BY <1>1, <1>2

\* The types of TypeOK hold, and every spot a call works on, apart from the end of
\* a search, is one of the table.
THEOREM TypeCorrect == Spec => []TypeOK
<1>1. Spec => []Typed
  BY TypedInvariant, PTL DEF Spec
<1>2. Typed => TypeOK
  BY DEF Typed
<1> QED
  BY <1>1, <1>2, PTL

-----------------------------------------------------------------------------
(* What the calls see while none has met another.                           *)

Quiet  == Typed /\ RacesSeen /\ Clean
Before == Quiet /\ Good

\* Two calls are not in one of the overlaps.
LEMMA Apart ==
  ASSUME Quiet, NEW c \in Conn, NEW d \in Conn, c # d
  PROVE  /\ th[c].at \in FirstTime => At(d, "idle")
         /\ th[c].at \in {"pointer", "type"} /\ th[d].at \in {"pointer", "type"} => th[c].i # th[d].i
         /\ th[c].at \in {"refwrite", "closewrite"} /\ th[d].at \in {"refwrite", "closewrite"} =>
              th[c].p # th[d].p
         /\ At(c, "closewrite") /\ At(d, "recheck") => th[c].p # th[d].p
         /\ th[c].at \in {"free", "remove"} =>
              /\ th[d].at \in {"deref", "ref", "look"} => th[d].i # th[c].i
              /\ th[d].at \in {"refwrite", "use"} => th[d].p # th[c].p
<1>1. Overlaps \cap {"first", "spot", "count", "last"} = {}
  BY DEF Quiet, RacesSeen, Clean, Among
<1>2. "first" \notin Overlaps /\ "spot" \notin Overlaps /\ "count" \notin Overlaps /\ "last" \notin Overlaps
  BY <1>1
<1>3. <<c, d>> \in Pairs /\ <<c, d>>[1] = c /\ <<c, d>>[2] = d
  BY DEF Pairs
<1>4. ~FirstOverlap(c, d)
  BY <1>2, <1>3 DEF Overlaps
<1>5. ~SpotOverlap(c, d)
  BY <1>2, <1>3 DEF Overlaps
<1>6. ~CountOverlap(c, d)
  BY <1>2, <1>3 DEF Overlaps
<1>7. ~LastOverlap(c, d)
  BY <1>2, <1>3 DEF Overlaps
<1> QED
  BY <1>4, <1>5, <1>6, <1>7 DEF FirstOverlap, SpotOverlap, CountOverlap, LastOverlap

\* In particular nobody else is in a call when the table is made.
LEMMA ApartNext ==
  ASSUME Quiet', NEW c \in Conn, NEW d \in Conn, c # d, th'[c].at \in FirstTime
  PROVE  th'[d].at = "idle"
<1>1. Overlaps' \cap {"first", "spot", "count", "last"} = {}
  BY DEF Quiet, RacesSeen, Clean, Among
<1>2. "first" \notin Overlaps'
  BY <1>1
<1>3. <<c, d>> \in Pairs /\ <<c, d>>[1] = c /\ <<c, d>>[2] = d
  BY DEF Pairs
<1>4. ~FirstOverlap(c, d)'
  BY <1>2, <1>3 DEF Overlaps
<1> QED
  BY <1>4 DEF FirstOverlap, At

\* The references in and out of the hands of the calls.
LEMMA RefTags ==
  /\ -1 \in Tags /\ 0 \in Tags /\ \A n \in Slots : n \in Tags /\ n # 0 /\ n # -1 /\ n \in Int
  /\ \A n \in Tags : n = -1 \/ n = 0 \/ n \in Slots
BY Constants DEF Tags, Slots

\* A handle that is referred to leads to a living object.
LEMMA RefsLive ==
  ASSUME Before, NEW h \in Handles, NEW x \in Refs(h)
  PROVE  Live(h)
<1>1. PICK c \in Conn, n \in Tags : x = <<c, n>> /\ RefOf(c, n) = h
  BY DEF Refs
<1>2. h # 0
  BY Constants
<1>3. HandleList[h].type # "htEmpty"
  <2>1. CASE n = -1
    BY <1>1, <1>2, <2>1 DEF Before, Good, RefsGood, Gives, RefOf, Process, Snapshot
  <2>2. CASE n = 0
    BY <1>1, <1>2, <2>2, RefTags DEF Before, Good, Local, ClosesGood, RefOf, HandOf, Closing
  <2>3. CASE n \in Slots
    BY <1>1, <1>2, <2>3, RefTags DEF Before, Good, RefsGood, Gives, RefOf, Process, Snapshot
  <2> QED
    BY <2>1, <2>2, <2>3, RefTags
<1>4. ~Dying(h)
  BY DEF Before, Good, EndsGood, Dying, At
<1> QED
  BY <1>3, <1>4 DEF Live

\* A living handle names its object.
LEMMA LiveNames ==
  ASSUME Before, NEW h \in Handles, Live(h)
  PROVE  /\ HandleList[h].pointer \in Ptr /\ HandleList[h].type \in Kinds
         /\ heap[HandleList[h].pointer].kind = HandleList[h].type
         /\ HandleList[h].pointer # NULL
         /\ Names(h, HandleList[h].pointer)
<1>1. HandleList[h] \in [type : Kinds \cup {"htEmpty"}, pointer : Ptr \cup {NULL}]
  BY DEF Before, Quiet, Typed, TypeOK
<1>2. IsObject(HandleList[h].pointer, HandleList[h].type)
  BY DEF Before, Good, EntriesGood
<1> QED
  BY <1>1, <1>2 DEF IsObject, Names, Live

\* So does the handle that a call has found.
LEMMA FoundLive ==
  ASSUME Before, NEW c \in Conn, 
         th[c].at \in {"look", "deref", "ref", "refwrite", "close", "closewrite", "recheck", "free"}
  PROVE  th[c].i \in Handles /\ Live(th[c].i)
<1>1. th[c].i \in Handles
  BY DEF Before, Quiet, Typed, Placed, At
<1>2. CASE th[c].at \in {"close", "closewrite"}
  <2>1. <<c, 0>> \in Refs(th[c].i)
    BY <1>2, RefTags DEF Refs, RefOf, HandOf
  <2> QED
    BY <1>1, <2>1, RefsLive
<1>3. CASE th[c].at \in {"look", "deref", "ref", "refwrite", "recheck", "free"}
  <2>1. HandleList[th[c].i].type # "htEmpty"
    BY <1>3 DEF Before, Good, Local, FindsGood, ClosesGood, Closing, Process
  <2>2. ASSUME NEW d \in Conn, At(d, "remove"), th[d].i = th[c].i
        PROVE  FALSE
    <3>1. d # c
      BY <1>3, <2>2 DEF At
    <3>2. CASE th[c].at \in {"look", "deref", "ref"}
      BY <2>2, <3>1, <3>2, Apart DEF Before, At
    <3>3. CASE th[c].at = "refwrite"
      <4>1. th[c].p = th[d].p
        BY <2>2, <3>3 DEF Before, Good, Local, FindsGood, ClosesGood, At
      <4> QED
        BY <2>2, <3>1, <3>3, <4>1, Apart DEF Before, At
    <3>4. CASE th[c].at \in {"recheck", "free"}
      BY <2>2, <3>1, <3>4 DEF Before, Good, EndsGood, Ending, At
    <3> QED
      BY <1>3, <3>2, <3>3, <3>4
  <2> QED
    BY <1>1, <2>1, <2>2 DEF Live, Dying
<1> QED
  BY <1>2, <1>3

\* And the object that a call has in hand is named by the handle it is at.
LEMMA FoundNames ==
  ASSUME Before, NEW c \in Conn, th[c].at \in {"refwrite", "closewrite", "recheck", "free"}
  PROVE  /\ th[c].p \in Ptr /\ th[c].p # NULL /\ HandleList[th[c].i].pointer = th[c].p
         /\ HandleList[th[c].i].type = th[c].kind /\ heap[th[c].p].kind = th[c].kind
         /\ th[c].i \in Handles /\ Live(th[c].i) /\ Names(th[c].i, th[c].p)
<1>1. HandleList[th[c].i].pointer = th[c].p /\ HandleList[th[c].i].type = th[c].kind
  BY DEF Before, Good, Local, FindsGood, ClosesGood, Searching
<1>2. th[c].i \in Handles /\ Live(th[c].i)
  BY FoundLive
<1> QED
  BY <1>1, <1>2, LiveNames

\* What a call makes is an object.
LEMMA OwnLives ==
  ASSUME Before, NEW c \in Conn, Own(c) # NULL
  PROVE  Own(c) \in Ptr /\ heap[Own(c)].kind \in Kinds
<1>1. th[c] \in Thread
  BY DEF Before, Quiet, Typed, TypeOK
<1>2. Local(th[c])
  BY DEF Before, Good
<1> QED
  BY <1>1, <1>2, ThreadFields DEF Own, OwnOf, Local, MakesGood, IsObject, Kinds

\* A free cell is neither.
LEMMA FreeCell ==
  ASSUME Before, NEW p \in FreeCells
  PROVE  /\ p \in Ptr /\ p # NULL /\ heap[p] = Freed
         /\ \A c \in Conn : Own(c) # p
         /\ \A h \in Handles : Live(h) => HandleList[h].pointer # p
<1>1. p \in Ptr /\ p # NULL /\ heap[p].kind = "free" /\ "free" \notin Kinds
  BY Constants DEF FreeCells, Kinds, Process, Module, Snapshot
<1>2. \A c \in Conn : Own(c) # p
  BY <1>1, OwnLives
<1>3. \A h \in Handles : Live(h) => HandleList[h].pointer # p
  BY <1>1, LiveNames
<1>4. heap[p] = Freed
  BY <1>1, <1>2, <1>3 DEF Before, Good, NoneLost, Names, Module
<1> QED
  BY <1>1, <1>2, <1>3, <1>4

\* A call that does not read what changes sees what it saw.
LEMMA LocalKept ==
  ASSUME NEW t \in Thread, Local(t),
         t.at \in {"pointer", "type", "look", "deref", "ref", "refwrite"} \cup Closing =>
           HandleList'[t.i] = HandleList[t.i],
         NEW L, OwnOf(t) # NULL => OwnOf(t) \in L,
         t.at = "ref" => HandleList[t.i].pointer \in L,
         t.at \in {"refwrite", "closewrite", "use"} => t.p \in L,
         \A q \in L : heap'[q].kind = heap[q].kind /\ heap'[q].pid = heap[q].pid,
         OwnOf(t) # NULL => heap'[OwnOf(t)].rc = heap[OwnOf(t)].rc,
         t.at \in {"refwrite", "closewrite"} => heap'[t.p].rc = heap[t.p].rc
  PROVE  Local(t)'
<1>1. MakesGood(t)'
  <2>1. Makes(t) => t.p # NULL /\ OwnOf(t) = t.p
    BY DEF Local, MakesGood, IsObject, OwnOf
  <2>2. ~Makes(t) /\ HasList(t) => t.ml # NULL /\ OwnOf(t) = t.ml
    BY DEF Local, MakesGood, IsObject, OwnOf
  <2> QED
    BY <2>1, <2>2 DEF Local, MakesGood, IsObject, OwnOf, Makes, HasList, Closing
<1>2. FindsGood(t)'
  BY DEF Local, FindsGood, IsObject, Closing
<1>3. ClosesGood(t)'
  BY DEF Local, ClosesGood, Closing
<1> QED
  BY <1>1, <1>2, <1>3 DEF Local

-----------------------------------------------------------------------------
(* What a step leaves as it was.                                            *)

\* What a call sees in the next state, by the call it has come to.
LEMMA LocalNext ==
  ASSUME NEW c \in Conn, NEW t, th'[c] = t, Local(t)'
  PROVE  Local(th[c])'
BY DEF Local, MakesGood, FindsGood, ClosesGood, OwnOf, Makes, HasList, IsObject

\* The references, when none is taken or given.
LEMMA RefsKept ==
  ASSUME Typed, NEW c \in Conn, NEW t, Moves(c, t), held' = held,
         t.result = th[c].result, HandOf(t) = HandOf(th[c]), NEW h
  PROVE  Refs(h)' = Refs(h)
<1>1. ASSUME NEW d \in Conn, NEW n \in Tags PROVE RefOf(d, n)' = RefOf(d, n)
  BY DEF Moves, RefOf, HandOf
<1> QED
  BY <1>1 DEF Refs

\* What only one call knows.
LEMMA OwnKept ==
  ASSUME NEW c \in Conn, NEW t, Moves(c, t), NEW d \in Conn
  PROVE  /\ d # c => Own(d)' = Own(d)
         /\ Own(c)' = OwnOf(t)
BY DEF Moves, Own, OwnOf, Makes, HasList

\* The handles that lead to an object, when none is made and none given up.
LEMMA LiveKept ==
  ASSUME NEW c \in Conn, NEW t, Moves(c, t), NEW h \in Handles,
         HandleList'[h].type = "htEmpty" <=> HandleList[h].type = "htEmpty",
         t.at = "remove" <=> th[c].at = "remove", t.at = "remove" => t.i = th[c].i
  PROVE  Live(h)' <=> Live(h)
<1>1. Dying(h)' <=> Dying(h)
  BY DEF Moves, Dying, At
<1> QED
  BY <1>1 DEF Live

\* The handles that are about to be emptied.
LEMMA EndsKept ==
  ASSUME Typed, Good, NEW c \in Conn, NEW t, Moves(c, t), t.at \notin Ending,
         \A d \in Conn, h \in Handles :
           d # c /\ th[d].at \in {"free", "remove"} /\ th[d].i = h => Refs(h)' = {}
  PROVE  EndsGood'
<1>1. ASSUME NEW d \in Conn, th'[d].at \in Ending
      PROVE  d # c /\ th'[d] = th[d]
  BY <1>1 DEF Moves
<1>2. ASSUME NEW d \in Conn, NEW h, th'[d].at \in {"free", "remove"}, h = th'[d].i
      PROVE  Refs(h)' = {}
  <2>1. h \in Handles /\ d # c /\ th[d].at \in {"free", "remove"} /\ th[d].i = h
    BY <1>1, <1>2 DEF Typed, Placed, At, Ending
  <2> QED
    BY <2>1
<1>3. ASSUME NEW d \in Conn, NEW e \in Conn, th'[d].at \in Ending,
             th'[e].at \in Ending, th'[e].i = th'[d].i
      PROVE  e = d
  BY <1>1, <1>3 DEF Good, EndsGood
<1>4. ASSUME NEW d \in Conn, th'[d].at \in {"free", "remove"}
      PROVE  Refs(th[d].i)' = {}
  <2>1. PICK h : h = th'[d].i
    OBVIOUS
  <2>2. Refs(h)' = {}
    BY <1>2, <1>4, <2>1
  <2> QED
    BY <2>1, <2>2 DEF Refs, RefOf
<1> QED
  BY <1>3, <1>4 DEF EndsGood

\* The handles without a reference, when none loses its last one, or the call that
\* took it goes on to see that.
LEMMA LeftKept ==
  ASSUME Before, NEW c \in Conn, NEW t, Moves(c, t),
         \A h \in Handles : Live(h)' =>
           \/ Refs(h)' # {}
           \/ t.at \in {"recheck", "free"} /\ t.i = h
           \/ Live(h) /\ Refs(h) = {} /\ (th[c].at \in {"recheck", "free"} => th[c].i # h)
  PROVE  NoneLeft'
<1>1. ASSUME NEW h \in Handles, Live(h)', Refs(h)' = {}
      PROVE  \E d \in Conn : th'[d].at \in {"recheck", "free"} /\ th'[d].i = h
  <2>1. CASE t.at \in {"recheck", "free"} /\ t.i = h
    BY <2>1 DEF Moves
  <2>2. CASE Live(h) /\ Refs(h) = {} /\ (th[c].at \in {"recheck", "free"} => th[c].i # h)
    <3>1. PICK d \in Conn : th[d].at \in {"recheck", "free"} /\ th[d].i = h
      BY <2>2 DEF Before, Good, NoneLeft
    <3> QED
      BY <2>2, <3>1 DEF Moves
  <2> QED
    BY <1>1, <2>1, <2>2
<1> QED
  BY <1>1 DEF NoneLeft

\* The entries, when no handle is made.
LEMMA EntriesKept ==
  ASSUME Before,
         \A h \in Handles : Live(h)' =>
           /\ Live(h) /\ HandleList'[h].type = HandleList[h].type
           /\ HandleList'[h].pointer = HandleList[h].pointer
           /\ heap'[HandleList[h].pointer].kind = heap[HandleList[h].pointer].kind
  PROVE  EntriesGood'
<1>1. ASSUME NEW h \in Handles, Live(h)'
      PROVE  HandleList'[h].pointer # NULL /\ heap'[HandleList'[h].pointer].kind = HandleList'[h].type
  BY <1>1, LiveNames
<1>2. ASSUME NEW h \in Handles, NEW g \in Handles, Live(h)', Live(g)',
             HandleList'[h].pointer = HandleList'[g].pointer
      PROVE  h = g
  BY <1>2 DEF Before, Good, EntriesGood
<1> QED
  BY <1>1, <1>2 DEF EntriesGood, IsObject

\* What only one call knows, when no call begins to make a handle and none is made.
LEMMA ApartKept ==
  ASSUME Before,
         \A h \in Handles : Live(h)' => Live(h) /\ HandleList'[h].pointer = HandleList[h].pointer,
         \A d \in Conn : Own(d)' = Own(d)
  PROVE  OwnApart'
BY DEF Before, Good, OwnApart, Names

\* The counts, when the count and the number of references go together.
LEMMA CountsKept ==
  ASSUME Before,
         \A h \in Handles : Live(h)' =>
           \/ heap'[HandleList'[h].pointer].rc = Cardinality(Refs(h)')
           \/ /\ Live(h) /\ Cardinality(Refs(h)') = Cardinality(Refs(h))
              /\ HandleList'[h].pointer = HandleList[h].pointer
              /\ heap'[HandleList[h].pointer].rc = heap[HandleList[h].pointer].rc
  PROVE  CountsGood'
<1>1. ASSUME NEW h \in Handles, Live(h)' PROVE heap'[HandleList'[h].pointer].rc = Cardinality(Refs(h)')
  BY <1>1 DEF Before, Good, CountsGood
<1> QED
  BY <1>1 DEF CountsGood

\* The objects, when what knows them goes on to know them.
LEMMA LostKept ==
  ASSUME Before,
         \A p \in Ptr :
           \/ heap'[p] = Freed \/ heap'[p].kind = Module
           \/ \E d \in Conn : Own(d)' = p
           \/ \E h \in Handles : Live(h)' /\ HandleList'[h].pointer = p
           \/ /\ heap[p] # Freed /\ heap[p].kind # Module
              /\ \A d \in Conn : Own(d) = p => Own(d)' = p
              /\ \A h \in Handles : Live(h) /\ HandleList[h].pointer = p =>
                                      Live(h)' /\ HandleList'[h].pointer = p
  PROVE  NoneLost'
<1>1. ASSUME NEW p \in Ptr
      PROVE  \/ heap'[p] = Freed \/ heap'[p].kind = Module
             \/ \E d \in Conn : Own(d)' = p
             \/ \E h \in Handles : Live(h)' /\ HandleList'[h].pointer = p
  BY DEF Before, Good, NoneLost, Names
<1> QED
  BY <1>1 DEF NoneLost, Names

\* A reference is to a living handle, which is what it was taken for.
LEMMA RefsGive ==
  ASSUME Before, NEW c \in Conn
  PROVE  /\ \A n \in Slots : held[c][n].h # 0 =>
              /\ held[c][n].h \in Handles /\ Live(held[c][n].h)
              /\ Gives(held[c][n].h, held[c][n].pid)
         /\ th[c].result # 0 =>
              /\ th[c].result \in Handles /\ Live(th[c].result)
              /\ Gives(th[c].result, th[c].pid) /\ th[c].pid # NULL
<1>1. ASSUME NEW n \in Slots, held[c][n].h # 0
      PROVE  /\ held[c][n].h \in Handles /\ Live(held[c][n].h)
             /\ Gives(held[c][n].h, held[c][n].pid)
  <2>1. held[c][n].h \in Handles
    BY <1>1 DEF Before, Quiet, Typed, Placed, Nothing
  <2>2. <<c, n>> \in Refs(held[c][n].h)
    BY RefTags DEF Refs, RefOf
  <2> QED
    BY <1>1, <2>1, <2>2, RefsLive DEF Before, Good, RefsGood
<1>2. ASSUME th[c].result # 0
      PROVE  /\ th[c].result \in Handles /\ Live(th[c].result)
             /\ Gives(th[c].result, th[c].pid) /\ th[c].pid # NULL
  <2>1. th[c].result \in Handles
    BY <1>2, ThreadFields, Constants DEF Before, Quiet, Typed, TypeOK, Handles
  <2>2. <<c, -1>> \in Refs(th[c].result)
    BY RefTags DEF Refs, RefOf
  <2> QED
    BY <1>2, <2>1, <2>2, RefsLive DEF Before, Good, RefsGood, Local, ClosesGood
<1> QED
  BY <1>1, <1>2

\* What clients hold and will be given, when what they are newly given is right.
LEMMA GivesKept ==
  ASSUME Before,
         \A h \in Handles : Live(h) /\ Refs(h) # {} =>
           /\ HandleList'[h].type = HandleList[h].type
           /\ HandleList'[h].pointer = HandleList[h].pointer
           /\ heap'[HandleList[h].pointer].pid = heap[HandleList[h].pointer].pid,
         \A d \in Conn, n \in Slots :
           \/ held'[d][n] = held[d][n]
           \/ held'[d][n].h = 0
           \/ Gives(held[d][n].h, held[d][n].pid)',
         \A d \in Conn : \/ th'[d].result = 0
                         \/ th'[d].result = th[d].result /\ th'[d].pid = th[d].pid
                         \/ Gives(th[d].result, th[d].pid)'
  PROVE  RefsGood'
<1>1. ASSUME NEW h \in Handles, NEW pid, Live(h), Refs(h) # {}, Gives(h, pid)
      PROVE  Gives(h, pid)'
  BY <1>1 DEF Gives
<1>2. ASSUME NEW d \in Conn, NEW n \in Slots, held'[d][n].h # 0
      PROVE  Gives(held[d][n].h, held[d][n].pid)'
  <2>1. CASE held'[d][n] = held[d][n]
    <3>1. PICK h, pid : h = held[d][n].h /\ pid = held[d][n].pid
      OBVIOUS
    <3>2. <<d, n>> \in Refs(h)
      BY <3>1, RefTags DEF Refs, RefOf
    <3>3. Gives(h, pid)'
      BY <1>1, <1>2, <2>1, <3>1, <3>2, RefsGive
    <3> QED
      BY <2>1, <3>1, <3>3 DEF Gives
  <2> QED
    BY <1>2, <2>1
<1>3. ASSUME NEW d \in Conn, th'[d].result # 0
      PROVE  Gives(th[d].result, th[d].pid)'
  <2>1. CASE th'[d].result = th[d].result /\ th'[d].pid = th[d].pid
    <3>1. PICK h, pid : h = th[d].result /\ pid = th[d].pid
      OBVIOUS
    <3>2. <<d, -1>> \in Refs(h)
      BY <3>1, RefTags DEF Refs, RefOf
    <3>3. Gives(h, pid)'
      BY <1>1, <1>3, <2>1, <3>1, <3>2, RefsGive
    <3> QED
      BY <2>1, <3>1, <3>3 DEF Gives
  <2> QED
    BY <1>3, <2>1
<1> QED
  BY <1>2, <1>3 DEF RefsGood

\* The phase of the table, once it is made.
LEMMA PhasesKept ==
  ASSUME Before, NEW c \in Conn, NEW t, Moves(c, t), table = "zeroed", table' = table,
         t.at \notin FirstTime
  PROVE  Phases'
<1>1. \A d \in Conn : th[d].at \notin FirstTime
  BY DEF Before, Good, Phases, At, FirstTime
<1>2. \A d \in Conn : th'[d].at \notin FirstTime
  BY <1>1 DEF Moves
<1> QED
  BY <1>2 DEF Phases, BadTable, At, FirstTime

\* The calls that see none of what changes.
LEMMA OthersKept ==
  ASSUME Before, NEW c \in Conn, NEW t, Moves(c, t), Local(t)',
         \A d \in Conn : d # c => Local(th[d])'
  PROVE  \A d \in Conn : Local(th[d])'
BY LocalNext DEF Moves

\* A call goes on, and changes nothing else.
LEMMA PlainMove ==
  ASSUME Before, NEW c \in Conn, NEW t \in Thread, Moves(c, t), Local(t),
         UNCHANGED <<HandleList, table, heap, held>>,
         t.result = th[c].result, t.result # 0 => t.pid = th[c].pid,
         HandOf(t) = HandOf(th[c]), OwnOf(t) = OwnOf(th[c]),
         t.at \notin Ending \cup FirstTime, th[c].at \notin Ending \cup FirstTime,
         table # "zeroed" => t.at \in {"idle", "search"}
  PROVE  Good'
<1>1. \A h \in Handles : Live(h)' <=> Live(h)
  BY LiveKept DEF Ending
<1>2. \A h \in Handles : Refs(h)' = Refs(h)
  BY RefsKept DEF Before, Quiet
<1>3. \A d \in Conn : Own(d)' = Own(d)
  BY OwnKept DEF Own
<1>4. Phases'
  <2>1. \A d \in Conn : th'[d].at \in FirstTime <=> th[d].at \in FirstTime
    BY DEF Moves
  <2>2. \A d \in Conn : th'[d].at \in FirstTime => th'[d] = th[d]
    BY DEF Moves
  <2>3. ASSUME table # "zeroed", NEW d \in Conn
        PROVE  th'[d].at \in {"idle", "search"} \cup FirstTime /\ th'[d].result = 0
    BY <2>3 DEF Moves, Before, Good, Phases
  <2>4. \A d \in Conn : /\ th'[d].at = "size" => table' = "null"
                        /\ th'[d].at = "alloc" => table' = "sized"
                        /\ th'[d].at = "zero" => table' = "raw"
    BY <2>2 DEF Before, Good, Phases, At, FirstTime
  <2>5. BadTable' => \E d \in Conn : th'[d].at \in FirstTime
    BY <2>1 DEF Before, Good, Phases, BadTable
  <2>6. table' # "zeroed" => /\ \A h \in Handles : HandleList'[h] = EmptyEntry
                             /\ \A d \in Conn, n \in Slots : held'[d][n].h = 0
    BY DEF Before, Good, Phases
  <2> QED
    BY <2>3, <2>4, <2>5, <2>6 DEF Phases, At
<1>5. EntriesGood'
  BY <1>1, EntriesKept
<1>6. \A d \in Conn : Local(th[d])'
  <2>1. Local(t)'
    BY DEF Local, MakesGood, FindsGood, ClosesGood, IsObject
  <2>2. ASSUME NEW d \in Conn, d # c PROVE Local(th[d])'
    BY <2>2 DEF Before, Good, Moves, Local, MakesGood, FindsGood, ClosesGood, OwnOf, Makes, HasList, IsObject
  <2> QED
    BY <2>1, <2>2, OthersKept
<1>7. OwnApart'
  BY <1>1, <1>3, ApartKept
<1>8. EndsGood'
  <2>1. \A d \in Conn, h \in Handles :
          d # c /\ th[d].at \in {"free", "remove"} /\ th[d].i = h => Refs(h)' = {}
    BY <1>2 DEF Before, Good, EndsGood
  <2> QED
    BY <2>1, EndsKept DEF Before, Quiet
<1>9. RefsGood'
  <2>1. \A d \in Conn : th'[d].result = 0 \/ (th'[d].result = th[d].result /\ th'[d].pid = th[d].pid)
    BY DEF Moves
  <2> QED
    BY <2>1, GivesKept
<1>10. CountsGood'
  BY <1>1, <1>2, CountsKept
<1>11. NoneLost'
  BY <1>1, <1>3, LostKept
<1>12. NoneLeft'
  BY <1>1, <1>2, LeftKept DEF Ending
<1> QED
  BY <1>4, <1>5, <1>6, <1>7, <1>8, <1>9, <1>10, <1>11, <1>12 DEF Good

-----------------------------------------------------------------------------
(* The steps that change the call they are of and nothing else.             *)

\* A thread without a call, or with no more than a look at an object.
LEMMA IdleCall ==
  ASSUME Before, NEW c \in Conn, th[c].at \in {"idle", "look", "use"}
  PROVE  th[c].result = 0 /\ HandOf(th[c]) = 0 /\ OwnOf(th[c]) = NULL /\ Own(c) = NULL
BY DEF Before, Good, Local, ClosesGood, HandOf, OwnOf, Own, Makes, HasList, FirstTime, Creating

\* To be idle is to see nothing that could be wrong.
LEMMA IdleLocal == Local(Idle) /\ HandOf(Idle) = 0 /\ OwnOf(Idle) = NULL
BY IdleFields DEF Local, MakesGood, FindsGood, ClosesGood, HandOf, OwnOf, Makes, HasList,
                  FirstTime, Creating, Searching, Closing

\* The table is there for who is in a call.
LEMMA TableThere ==
  ASSUME Before, NEW c \in Conn, th[c].at \notin {"idle"} \cup FirstTime
  PROVE  ~BadTable /\ (th[c].at # "search" => table = "zeroed")
<1>1. ASSUME NEW d \in Conn, th[d].at \in FirstTime PROVE FALSE
  BY <1>1, Apart DEF Before, At
<1> QED
  BY <1>1 DEF Before, Good, Phases

\* OpenProcess begins.
LEMMA OpenProcessGood ==
  ASSUME Before, NEW c \in Conn, OpenProcess(c)
  PROVE  Good' /\ fault' = fault
<1>1. PICK pid \in Pid : Goto(c, Search(pid, 0, NULL))
  BY DEF OpenProcess
<1>2. UNCHANGED <<HandleList, table, heap, held, fault>> /\ th[c].at = "idle"
  BY DEF OpenProcess, Begins, At
<1>3. PICK t \in Thread : /\ t = Search(pid, 0, NULL) /\ t.at = "search" /\ t.pid = pid /\ t.kind = Process
                          /\ t.result = 0
  BY SearchFields, Constants
<1>4. Moves(c, t)
  BY <1>1, <1>3, GotoMoves DEF Before, Quiet
<1>5. Local(t) /\ HandOf(t) = 0 /\ OwnOf(t) = NULL
  BY <1>3, Constants DEF Local, MakesGood, FindsGood, ClosesGood, HandOf, OwnOf, Makes, HasList,
                         FirstTime, Creating, Closing
<1>6. Good'
  BY <1>2, <1>3, <1>4, <1>5, IdleCall, PlainMove DEF FirstTime, Ending
<1> QED
  BY <1>2, <1>6

\* A spot is searched: it is no process, or it is one to look at.
LEMMA SearchGood ==
  ASSUME Before, NEW c \in Conn, SearchSpot(c), ~NoTable, th[c].i <= Spots
  PROVE  Good' /\ fault' = fault
<1>1. PICK t \in Thread : t = th[c]
  BY DEF Before, Quiet, Typed, TypeOK
<1>2. t.at = "search" /\ ~BadTable /\ Local(t)
  BY <1>1, TableThere DEF SearchSpot, At, FirstTime, Before, Good
<1>3. t.i \in Handles /\ t.i + 1 \in 1 .. Spots + 1 /\ t.i \in Int
  BY <1>1, ThreadFields, Constants DEF Handles
<1>4. /\ Goto(c, IF HandleList[t.i].type = Process THEN [t EXCEPT !.at = "deref"]
                                                   ELSE [t EXCEPT !.i = t.i + 1])
      /\ UNCHANGED <<HandleList, table, heap, held, fault>>
  <2>1. ~(NoTable \/ t.i > Spots) /\ TypeOf(t.i) = HandleList[t.i].type
    BY <1>1, <1>3, Constants DEF TypeOf
  <2> QED
    BY <1>1, <1>2, <2>1 DEF SearchSpot
<1>5. CASE HandleList[t.i].type = Process
  <2>1. PICK x : x = [t EXCEPT !.at = "deref"]
    OBVIOUS
  <2>2. x \in Thread
    BY <2>1 DEF Thread, Places, Searching
  <2>3. /\ x.at = "deref" /\ x.pid = t.pid /\ x.kind = t.kind /\ x.i = t.i /\ x.result = t.result
        /\ x.ml = t.ml
    BY <2>1 DEF Thread
  <2>4. Moves(c, x)
    BY <1>4, <1>5, <2>1, GotoMoves DEF Before, Quiet
  <2>5. Local(x) /\ HandOf(x) = HandOf(t) /\ OwnOf(x) = OwnOf(t)
    BY <1>2, <1>5, <2>3 DEF Local, MakesGood, FindsGood, ClosesGood, HandOf, OwnOf, Makes, HasList,
                            FirstTime, Creating, Closing, Searching
  <2>6. table = "zeroed"
    BY <1>3, <1>5 DEF Before, Good, Phases, EmptyEntry, Process
  <2>7. Good'
    BY <1>1, <1>2, <1>4, <2>2, <2>3, <2>4, <2>5, <2>6, PlainMove DEF FirstTime, Ending
  <2> QED
    BY <1>4, <2>7
<1>6. CASE HandleList[t.i].type # Process
  <2>1. PICK x : x = [t EXCEPT !.i = t.i + 1]
    OBVIOUS
  <2>2. x \in Thread
    BY <1>3, <2>1 DEF Thread
  <2>3. /\ x.at = "search" /\ x.pid = t.pid /\ x.kind = t.kind /\ x.i = t.i + 1 /\ x.result = t.result
        /\ x.ml = t.ml
    BY <1>2, <2>1 DEF Thread
  <2>4. Moves(c, x)
    BY <1>4, <1>6, <2>1, GotoMoves DEF Before, Quiet
  <2>5. t.result # 0 => t.i + 1 <= t.result
    <3>1. t.result # 0 => t.i <= t.result /\ t.result # t.i
      BY <1>1, <1>2, <1>6, RefsGive DEF Local, FindsGood, Gives
    <3> QED
      BY <1>3, <3>1, ThreadFields
  <2>6. Local(x) /\ HandOf(x) = HandOf(t) /\ OwnOf(x) = OwnOf(t)
    BY <1>2, <2>3, <2>5 DEF Local, MakesGood, FindsGood, ClosesGood, HandOf, OwnOf, Makes, HasList,
                            FirstTime, Creating, Closing, Searching
  <2>7. Good'
    BY <1>1, <1>2, <1>4, <2>2, <2>3, <2>4, <2>6, PlainMove DEF FirstTime, Ending
  <2> QED
    BY <1>4, <2>7
<1> QED
  BY <1>5, <1>6

\* The process at a spot is looked at: it is the one, or the search goes on.
LEMMA CompareGood ==
  ASSUME Before, NEW c \in Conn, Compare(c)
  PROVE  Good' /\ fault' = fault
<1>1. PICK t \in Thread : t = th[c]
  BY DEF Before, Quiet, Typed, TypeOK
<1>2. t.at = "deref" /\ table = "zeroed" /\ Local(t) /\ t.i \in Handles /\ Live(t.i)
  BY <1>1, TableThere, FoundLive DEF Compare, At, FirstTime, Before, Good
<1>3. t.i + 1 \in 1 .. Spots + 1 /\ t.i \in Int
  BY <1>2, Constants DEF Handles
<1>4. PICK p : p = HandleList[t.i].pointer
  OBVIOUS
<1>5. IsObject(p, Process)
  BY <1>2, <1>4, LiveNames DEF Local, FindsGood, IsObject
<1>6. /\ Goto(c, IF heap[p].pid = t.pid THEN [t EXCEPT !.at = "ref"]
                                        ELSE [t EXCEPT !.at = "search", !.i = t.i + 1])
      /\ UNCHANGED <<HandleList, table, heap, held, fault>>
  BY <1>1, <1>4, <1>5 DEF Compare
<1>7. CASE heap[p].pid = t.pid
  <2>1. PICK x : x = [t EXCEPT !.at = "ref"]
    OBVIOUS
  <2>2. x \in Thread
    BY <2>1 DEF Thread, Places, Searching
  <2>3. /\ x.at = "ref" /\ x.pid = t.pid /\ x.kind = t.kind /\ x.i = t.i /\ x.result = t.result
        /\ x.ml = t.ml
    BY <2>1 DEF Thread
  <2>4. Moves(c, x)
    BY <1>6, <1>7, <2>1, GotoMoves DEF Before, Quiet
  <2>5. Local(x) /\ HandOf(x) = HandOf(t) /\ OwnOf(x) = OwnOf(t)
    BY <1>2, <1>4, <1>7, <2>3 DEF Local, MakesGood, FindsGood, ClosesGood, HandOf, OwnOf, Makes, HasList,
                                  FirstTime, Creating, Closing, Searching
  <2>6. Good'
    BY <1>1, <1>2, <1>6, <2>2, <2>3, <2>4, <2>5, PlainMove DEF FirstTime, Ending
  <2> QED
    BY <1>6, <2>6
<1>8. CASE heap[p].pid # t.pid
  <2>1. PICK x : x = [t EXCEPT !.at = "search", !.i = t.i + 1]
    OBVIOUS
  <2>2. x \in Thread
    BY <1>3, <2>1 DEF Thread, Places, Searching
  <2>3. /\ x.at = "search" /\ x.pid = t.pid /\ x.kind = t.kind /\ x.i = t.i + 1 /\ x.result = t.result
        /\ x.ml = t.ml
    BY <1>2, <2>1 DEF Thread
  <2>4. Moves(c, x)
    BY <1>6, <1>8, <2>1, GotoMoves DEF Before, Quiet
  <2>5. t.result # 0 => t.i + 1 <= t.result
    <3>1. t.result # 0 => t.i <= t.result /\ t.result # t.i
      BY <1>1, <1>2, <1>4, <1>8, RefsGive DEF Local, FindsGood, Gives
    <3> QED
      BY <1>3, <3>1, ThreadFields
  <2>6. Local(x) /\ HandOf(x) = HandOf(t) /\ OwnOf(x) = OwnOf(t)
    BY <1>2, <2>3, <2>5 DEF Local, MakesGood, FindsGood, ClosesGood, HandOf, OwnOf, Makes, HasList,
                            FirstTime, Creating, Closing, Searching
  <2>7. Good'
    BY <1>1, <1>2, <1>6, <2>2, <2>3, <2>4, <2>6, PlainMove DEF FirstTime, Ending
  <2> QED
    BY <1>6, <2>7
<1> QED
  BY <1>7, <1>8

\* The count of the process that was found is read.
LEMMA ReadCountGood ==
  ASSUME Before, NEW c \in Conn, ReadCount(c)
  PROVE  Good' /\ fault' = fault
<1>1. PICK t \in Thread : t = th[c]
  BY DEF Before, Quiet, Typed, TypeOK
<1>2. t.at = "ref" /\ table = "zeroed" /\ Local(t) /\ t.i \in Handles /\ Live(t.i)
  BY <1>1, TableThere, FoundLive DEF ReadCount, At, FirstTime, Before, Good
<1>3. PICK p \in Ptr : p = HandleList[t.i].pointer
  BY <1>2, LiveNames
<1>4. IsObject(p, Process)
  BY <1>2, <1>3, LiveNames DEF Local, FindsGood, IsObject
<1>5. TypeOf(t.i) = HandleList[t.i].type /\ TypeOf(t.i) # "htEmpty"
  BY <1>2 DEF TypeOf, NoTable, Live
<1>6. PICK n \in Int : n = heap[p].rc
  BY DEF Before, Quiet, Typed, TypeOK
<1>7. /\ Goto(c, [t EXCEPT !.at = "refwrite", !.p = p, !.n = n])
      /\ UNCHANGED <<HandleList, table, heap, held, fault>>
  BY <1>1, <1>3, <1>4, <1>5, <1>6 DEF ReadCount
<1>8. PICK x : x = [t EXCEPT !.at = "refwrite", !.p = p, !.n = n]
  OBVIOUS
<1>9. x \in Thread
  BY <1>8 DEF Thread, Places, Searching
<1>10. /\ x.at = "refwrite" /\ x.pid = t.pid /\ x.kind = t.kind /\ x.i = t.i /\ x.result = t.result
       /\ x.ml = t.ml /\ x.p = p /\ x.n = n
  BY <1>8 DEF Thread
<1>11. Moves(c, x)
  BY <1>7, <1>8, GotoMoves DEF Before, Quiet
<1>12. Local(x) /\ HandOf(x) = HandOf(t) /\ OwnOf(x) = OwnOf(t)
  BY <1>2, <1>3, <1>6, <1>10 DEF Local, MakesGood, FindsGood, ClosesGood, HandOf, OwnOf, Makes, HasList,
                                 FirstTime, Creating, Closing, Searching
<1>13. Good'
  BY <1>1, <1>2, <1>7, <1>9, <1>10, <1>11, <1>12, PlainMove DEF FirstTime, Ending
<1> QED
  BY <1>7, <1>13

\* A search that finds nothing and no process gives up.
LEMMA GiveUpGood ==
  ASSUME Before, NEW c \in Conn, th[c].at \in {"search", "use"}, th[c].result = 0, Returns(c),
         UNCHANGED <<HandleList, table, heap, held>>
  PROVE  Good'
<1>1. Moves(c, Idle)
  BY GotoMoves DEF Returns, Before, Quiet
<1>2. HandOf(th[c]) = 0 /\ OwnOf(th[c]) = NULL
  BY DEF HandOf, OwnOf, Makes, HasList, FirstTime, Creating
<1> QED
  BY <1>1, <1>2, IdleFields, IdleLocal, PlainMove DEF FirstTime, Ending

\* A process that was looked up is used.
LEMMA UseProcessGood ==
  ASSUME Before, NEW c \in Conn, UseProcess(c)
  PROVE  Good' /\ fault' = fault
<1>1. th[c].at = "use" /\ th[c].result = 0 /\ IsObject(th[c].p, Process)
  BY IdleCall DEF UseProcess, At, Before, Good, Local, FindsGood
<1>2. Returns(c) /\ UNCHANGED <<HandleList, table, heap, held, fault>>
  BY <1>1 DEF UseProcess
<1> QED
  BY <1>1, <1>2, GiveUpGood

\* A spot is looked at for a new handle.
LEMMA ScanGood ==
  ASSUME Before, NEW c \in Conn, Scan(c)
  PROVE  Good' /\ fault' = fault
<1>1. PICK t \in Thread : t = th[c]
  BY DEF Before, Quiet, Typed, TypeOK
<1>2. t.at = "scan" /\ table = "zeroed" /\ ~BadTable /\ Local(t)
  BY <1>1, TableThere DEF Scan, At, FirstTime, Before, Good
<1>3. t.i \in Handles /\ t.i \in Int /\ TypeOf(t.i) = HandleList[t.i].type
  BY <1>1, <1>2, Constants DEF TypeOf, NoTable, Before, Quiet, Typed, Placed, At
<1>4. /\ TypeOf(t.i) = "htEmpty" \/ t.i < Spots
      /\ Goto(c, IF HandleList[t.i].type = "htEmpty" THEN [t EXCEPT !.at = "pointer"]
                                                     ELSE [t EXCEPT !.i = t.i + 1])
      /\ UNCHANGED <<HandleList, table, heap, held, fault>>
  BY <1>1, <1>2, <1>3 DEF Scan
<1>5. PICK place, i : /\ place \in {"scan", "pointer"} /\ i \in 1 .. Spots + 1
                      /\ Goto(c, [t EXCEPT !.at = place, !.i = i])
                      /\ place = "pointer" => HandleList[i].type = "htEmpty"
  <2>1. CASE HandleList[t.i].type = "htEmpty"
    <3>1. [t EXCEPT !.at = "pointer"] = [t EXCEPT !.at = "pointer", !.i = t.i]
      BY DEF Thread
    <3> QED
      BY <1>3, <1>4, <2>1, <3>1, Constants
  <2>2. CASE HandleList[t.i].type # "htEmpty"
    <3>1. [t EXCEPT !.i = t.i + 1] = [t EXCEPT !.at = "scan", !.i = t.i + 1]
      BY <1>2 DEF Thread
    <3>2. t.i + 1 \in 1 .. Spots + 1
      BY <1>3, Constants DEF Handles
    <3> QED
      BY <1>4, <2>2, <3>1, <3>2
  <2> QED
    BY <2>1, <2>2
<1>8. PICK x : x = [t EXCEPT !.at = place, !.i = i]
  OBVIOUS
<1>9. x \in Thread
  BY <1>5, <1>8 DEF Thread, Places, Creating
<1>10. /\ x.at = place /\ x.pid = t.pid /\ x.kind = t.kind /\ x.i = i /\ x.result = t.result
       /\ x.ml = t.ml /\ x.p = t.p
  BY <1>8 DEF Thread
<1>11. Moves(c, x)
  BY <1>5, <1>8, GotoMoves DEF Before, Quiet
<1>12. Local(x) /\ HandOf(x) = HandOf(t) /\ OwnOf(x) = OwnOf(t)
  BY <1>2, <1>5, <1>10 DEF Local, MakesGood, FindsGood, ClosesGood, HandOf, OwnOf, Makes, HasList,
                           FirstTime, Creating, Closing, Searching
<1>13. Good'
  BY <1>1, <1>2, <1>4, <1>5, <1>9, <1>10, <1>11, <1>12, PlainMove DEF FirstTime, Ending
<1> QED
  BY <1>4, <1>13

\* A handle that is to be closed is looked up.
LEMMA LookUpGood ==
  ASSUME Before, NEW c \in Conn, LookUp(c)
  PROVE  Good' /\ fault' = fault
<1>1. PICK t \in Thread : t = th[c]
  BY DEF Before, Quiet, Typed, TypeOK
<1>2. t.at = "close" /\ table = "zeroed" /\ ~BadTable /\ Local(t) /\ t.i \in Handles /\ Live(t.i)
  BY <1>1, TableThere, FoundLive DEF LookUp, At, FirstTime, Before, Good
<1>3. PICK k, p : /\ k \in Kinds /\ p \in Ptr /\ k = HandleList[t.i].type /\ p = HandleList[t.i].pointer
                  /\ IsObject(p, k) /\ k # "htEmpty"
  BY <1>2, LiveNames DEF IsObject, Live
<1>4. PICK n \in Int : n = heap[p].rc
  BY <1>3 DEF Before, Quiet, Typed, TypeOK
<1>5. /\ Goto(c, [t EXCEPT !.at = "closewrite", !.kind = k, !.p = p, !.n = n])
      /\ UNCHANGED <<HandleList, table, heap, held, fault>>
  BY <1>1, <1>2, <1>3, <1>4 DEF LookUp
<1>8. PICK x : x = [t EXCEPT !.at = "closewrite", !.kind = k, !.p = p, !.n = n]
  OBVIOUS
<1>9. x \in Thread
  BY <1>3, <1>8 DEF Thread, Places, Closing
<1>10. /\ x.at = "closewrite" /\ x.pid = t.pid /\ x.kind = k /\ x.i = t.i /\ x.result = t.result
       /\ x.ml = t.ml /\ x.p = p /\ x.n = n
  BY <1>8 DEF Thread
<1>11. Moves(c, x)
  BY <1>5, <1>8, GotoMoves DEF Before, Quiet
<1>12. t.result # 0 => k = t.kind
  BY <1>2, <1>3 DEF Local, ClosesGood, Closing
<1>13. Local(x) /\ HandOf(x) = HandOf(t) /\ OwnOf(x) = OwnOf(t)
  BY <1>2, <1>3, <1>4, <1>10, <1>12
     DEF Local, MakesGood, FindsGood, ClosesGood, HandOf, OwnOf, Makes, HasList,
         FirstTime, Creating, Closing, Searching
<1>14. Good'
  BY <1>1, <1>2, <1>5, <1>9, <1>10, <1>11, <1>13, PlainMove DEF FirstTime, Ending
<1> QED
  BY <1>5, <1>14

\* A command looks up the type of the handle of its process,
LEMMA UseHandleGood ==
  ASSUME Before, NEW c \in Conn, UseHandle(c)
  PROVE  Good' /\ fault' = fault
<1>1. PICK d \in Conn, n \in Slots :
        /\ held[d][n] # Nothing
        /\ IF BadTable THEN Faults(c)
           ELSE /\ HandleList[held[d][n].h].type = Process
                /\ Goto(c, [Idle EXCEPT !.at = "look", !.i = held[d][n].h])
                /\ UNCHANGED <<HandleList, table, heap, held, fault>>
  BY DEF UseHandle
<1>2. PICK h \in Handles : h = held[d][n].h
  BY <1>1 DEF Before, Quiet, Typed, Placed
<1>3. table = "zeroed" /\ ~BadTable
  <2>1. h # 0
    BY Constants
  <2> QED
    BY <1>2, <2>1 DEF Before, Good, Phases, BadTable
<1>4. /\ Goto(c, [Idle EXCEPT !.at = "look", !.i = h]) /\ HandleList[h].type = Process
      /\ UNCHANGED <<HandleList, table, heap, held, fault>>
  BY <1>1, <1>2, <1>3
<1>5. PICK x : x = [Idle EXCEPT !.at = "look", !.i = h]
  OBVIOUS
<1>6. x = [at |-> "look", pid |-> NULL, kind |-> Process, i |-> h, p |-> NULL, n |-> 0,
           result |-> 0, ml |-> NULL]
  BY <1>5 DEF Idle
<1>7. x \in Thread
  BY <1>6, Constants DEF Thread, Places, Kinds
<1>8. Moves(c, x)
  BY <1>4, <1>5, GotoMoves DEF Before, Quiet
<1>9. Local(x) /\ HandOf(x) = 0 /\ OwnOf(x) = NULL
  BY <1>4, <1>6 DEF Local, MakesGood, FindsGood, ClosesGood, HandOf, OwnOf, Makes, HasList,
                    FirstTime, Creating, Closing, Searching
<1>10. th[c].at = "idle"
  BY DEF UseHandle, Begins, At
<1>11. Good'
  BY <1>3, <1>4, <1>6, <1>7, <1>8, <1>9, <1>10, IdleCall, PlainMove DEF FirstTime, Ending
<1> QED
  BY <1>4, <1>11

\* and then its pointer.
LEMMA LookPointerGood ==
  ASSUME Before, NEW c \in Conn, LookPointer(c)
  PROVE  Good' /\ fault' = fault
<1>1. PICK t \in Thread : t = th[c]
  BY DEF Before, Quiet, Typed, TypeOK
<1>2. t.at = "look" /\ table = "zeroed" /\ Local(t) /\ t.i \in Handles /\ Live(t.i)
  BY <1>1, TableThere, FoundLive DEF LookPointer, At, FirstTime, Before, Good
<1>3. PICK p \in Ptr : p = HandleList[t.i].pointer
  BY <1>2, LiveNames
<1>4. IsObject(p, Process)
  BY <1>2, <1>3, LiveNames DEF Local, FindsGood, IsObject
<1>5. TypeOf(t.i) # "htEmpty"
  BY <1>2 DEF TypeOf, NoTable, Live
<1>6. /\ Goto(c, [t EXCEPT !.at = "use", !.p = p])
      /\ UNCHANGED <<HandleList, table, heap, held, fault>>
  BY <1>1, <1>3, <1>5 DEF LookPointer
<1>7. PICK x : x = [t EXCEPT !.at = "use", !.p = p]
  OBVIOUS
<1>8. x \in Thread
  BY <1>7 DEF Thread, Places
<1>9. x.at = "use" /\ x.p = p /\ x.result = t.result /\ x.pid = t.pid
  BY <1>7 DEF Thread
<1>10. Moves(c, x)
  BY <1>6, <1>7, GotoMoves DEF Before, Quiet
<1>11. t.result = 0 /\ HandOf(t) = 0 /\ OwnOf(t) = NULL
  BY <1>1, <1>2, IdleCall
<1>12. Local(x) /\ HandOf(x) = 0 /\ OwnOf(x) = NULL
  BY <1>4, <1>9, <1>11 DEF Local, MakesGood, FindsGood, ClosesGood, HandOf, OwnOf, Makes, HasList,
                           FirstTime, Creating, Closing, Searching
<1>13. Good'
  BY <1>1, <1>2, <1>6, <1>8, <1>9, <1>10, <1>11, <1>12, PlainMove DEF FirstTime, Ending
<1> QED
  BY <1>6, <1>13

-----------------------------------------------------------------------------
(* The steps that make an object and its handle.                            *)

\* What a call that does not move sees, when the entry and the objects that it
\* looks at stay.
LEMMA CallKept ==
  ASSUME Before, NEW c \in Conn, NEW t, Moves(c, t), NEW d \in Conn, d # c,
         th[d].at \in {"pointer", "type", "look", "deref", "ref", "refwrite"} \cup Closing =>
           HandleList'[th[d].i] = HandleList[th[d].i],
         NEW L, Own(d) # NULL => Own(d) \in L,
         th[d].at = "ref" => HandleList[th[d].i].pointer \in L,
         th[d].at \in {"refwrite", "closewrite", "use"} => th[d].p \in L,
         \A q \in L : heap'[q].kind = heap[q].kind /\ heap'[q].pid = heap[q].pid,
         Own(d) # NULL => heap'[Own(d)].rc = heap[Own(d)].rc,
         th[d].at \in {"refwrite", "closewrite"} => heap'[th[d].p].rc = heap[th[d].p].rc
  PROVE  Local(th[d])'
<1>1. PICK u \in Thread : u = th[d]
  BY DEF Before, Quiet, Typed, TypeOK
<1>2. Local(u) /\ OwnOf(u) = Own(d) /\ th'[d] = u
  BY <1>1 DEF Before, Good, Own, Moves
<1>3. Local(u)'
  BY <1>1, <1>2, LocalKept
<1> QED
  BY <1>2, <1>3, LocalNext

\* The objects that a call looks at, unless it is the one to free them.
LEMMA LooksAt ==
  ASSUME Before, NEW d \in Conn
  PROVE  /\ Own(d) # NULL => Own(d) \in Ptr /\ heap[Own(d)].kind # "free"
         /\ th[d].at \in {"deref", "ref"} => /\ HandleList[th[d].i].pointer \in Ptr
                                             /\ heap[HandleList[th[d].i].pointer].kind # "free"
         /\ th[d].at \in {"refwrite", "closewrite", "use"} => th[d].p \in Ptr /\ heap[th[d].p].kind # "free"
<1>1. "free" \notin Kinds /\ Process \in Kinds
  BY DEF Kinds, Process, Module, Snapshot
<1>2. Own(d) # NULL => Own(d) \in Ptr /\ heap[Own(d)].kind # "free"
  BY <1>1, OwnLives
<1>3. ASSUME th[d].at \in {"deref", "ref"}
      PROVE  HandleList[th[d].i].pointer \in Ptr /\ heap[HandleList[th[d].i].pointer].kind # "free"
  BY <1>1, <1>3, FoundLive, LiveNames
<1>4. ASSUME th[d].at \in {"refwrite", "closewrite"} PROVE th[d].p \in Ptr /\ heap[th[d].p].kind # "free"
  BY <1>1, <1>4, FoundNames, FoundLive, LiveNames
<1>5. ASSUME th[d].at = "use" PROVE th[d].p \in Ptr /\ heap[th[d].p].kind # "free"
  <2>1. th[d].p \in Ptr \cup {NULL}
    BY ThreadFields DEF Before, Quiet, Typed, TypeOK
  <2> QED
    BY <1>1, <1>5, <2>1 DEF Before, Good, Local, FindsGood, IsObject
<1> QED
  BY <1>2, <1>3, <1>4, <1>5

\* The phase of the table when a call of CreateHandleFromPointer begins: whoever
\* finds no table is the only one.
LEMMA CreatePhases ==
  ASSUME Before, Quiet', NEW c \in Conn, NEW t \in Thread, Moves(c, t),
         UNCHANGED <<HandleList, table, held>>, th[c].at \in {"idle", "search"}, t.result = 0,
         t.at = (IF table \in {"null", "sized"} THEN "size" ELSE "scan")
  PROVE  Phases' /\ (table = "null" \/ table = "zeroed")
<1>1. table \in {"null", "sized", "raw", "zeroed"}
  BY DEF Before, Quiet, Typed, TypeOK
<1>2. ~BadTable
  <2> SUFFICES ASSUME BadTable PROVE FALSE
    OBVIOUS
  <2>1. PICK d \in Conn : th[d].at \in FirstTime
    BY DEF Before, Good, Phases
  <2>2. d # c /\ th'[d].at \in FirstTime
    BY <2>1 DEF Moves, FirstTime
  <2>3. th'[c].at = "idle"
    BY <2>2, ApartNext
  <2> QED
    BY <2>3 DEF Moves
<1>3. CASE table = "zeroed"
  BY <1>3, PhasesKept DEF FirstTime
<1>4. CASE table = "null"
  <2>1. t.at = "size"
    BY <1>4
  <2>2. \A d \in Conn : th'[d].at \in {"idle", "search"} \cup FirstTime /\ th'[d].result = 0
    BY <1>4, <2>1 DEF Moves, Before, Good, Phases, FirstTime
  <2>3. \A d \in Conn : th'[d].at # "alloc" /\ th'[d].at # "zero"
    BY <1>4, <2>1 DEF Moves, Before, Good, Phases, At
  <2> QED
    BY <1>4, <2>2, <2>3 DEF Before, Good, Phases, BadTable, At
<1> QED
  BY <1>1, <1>2, <1>3, <1>4 DEF BadTable

\* A new object.
LEMMA CreateGood ==
  ASSUME Before, Quiet', NEW c \in Conn, NEW kind \in {Process, Snapshot}, NEW pid \in Pid \cup {NULL},
         pid = NULL <=> kind = Snapshot,
         Create(c, kind, pid), UNCHANGED <<HandleList, table, held>>,
         th[c].at \in {"idle", "search"}, th[c].result = 0
  PROVE  Good'
<1>1. PICK p \in FreeCells, t \in Thread :
        /\ heap' = [heap EXCEPT ![p] = Object(kind, pid)]
        /\ Moves(c, t)
        /\ t.at = (IF table \in {"null", "sized"} THEN "size" ELSE "scan")
        /\ t.pid = pid /\ t.kind = kind /\ t.i = 1 /\ t.p = p /\ t.result = 0 /\ t.n = 0 /\ t.ml = NULL
  BY CreateMoves DEF Before, Quiet, Kinds
<1>2. /\ p \in Ptr /\ p # NULL /\ heap[p] = Freed
      /\ \A d \in Conn : Own(d) # p
      /\ \A h \in Handles : Live(h) => HandleList[h].pointer # p
  BY FreeCell
<1>3. \A q \in Ptr : q # p => heap'[q] = heap[q]
  BY <1>1, <1>2 DEF Before, Quiet, Typed, TypeOK
<1>4. heap'[p] = Object(kind, pid)
  BY <1>1, <1>2 DEF Before, Quiet, Typed, TypeOK
<1>5. HandOf(t) = 0 /\ OwnOf(t) = p /\ HandOf(th[c]) = 0 /\ Own(c) = NULL /\ t.at \notin Ending
  BY <1>1 DEF HandOf, OwnOf, Own, Makes, HasList, FirstTime, Creating, Ending
<1>6. \A h \in Handles : Live(h)' <=> Live(h)
  BY <1>1, <1>5, LiveKept DEF Ending
<1>7. \A h \in Handles : Refs(h)' = Refs(h)
  BY <1>1, <1>5, RefsKept DEF Before, Quiet
<1>8. Own(c)' = p /\ \A d \in Conn : d # c => Own(d)' = Own(d)
  BY <1>1, <1>5, OwnKept
<1>9. Phases'
  BY <1>1, CreatePhases
<1>10. EntriesGood'
  BY <1>2, <1>3, <1>6, LiveNames, EntriesKept
<1>11. \A d \in Conn : Local(th[d])'
  <2>1. Local(t)'
    BY <1>1, <1>2, <1>4, <1>5, ObjectTyped
       DEF Local, MakesGood, FindsGood, ClosesGood, OwnOf, Makes, HasList, IsObject, Kinds,
           FirstTime, Creating, Closing, Searching, Process, Snapshot, Module
  <2>2. ASSUME NEW d \in Conn, d # c PROVE Local(th[d])'
    <3>1. heap[p].kind = "free"
      BY <1>2 DEF Freed
    <3>2. PICK L : L = Ptr \ {p}
      OBVIOUS
    <3>3. /\ Own(d) # NULL => Own(d) \in L
          /\ th[d].at = "ref" => HandleList[th[d].i].pointer \in L
          /\ th[d].at \in {"refwrite", "closewrite", "use"} => th[d].p \in L
      BY <3>1, <3>2, LooksAt
    <3>4. \A q \in L : heap'[q] = heap[q]
      BY <1>3, <3>2
    <3> QED
      BY <1>1, <2>2, <3>3, <3>4, CallKept
  <2> QED
    BY <1>1, <2>1, <2>2, OthersKept
<1>12. OwnApart'
  <2>1. ASSUME NEW d \in Conn, Own(d)' # NULL
        PROVE  /\ \A h \in Handles : ~(Live(h)' /\ HandleList'[h].pointer = Own(d)')
               /\ \A e \in Conn : Own(e)' = Own(d)' => e = d
    BY <1>2, <1>6, <1>8, <2>1 DEF Before, Good, OwnApart, Names
  <2> QED
    BY <2>1 DEF OwnApart, Names
<1>13. EndsGood'
  <2>1. \A d \in Conn, h \in Handles :
          d # c /\ th[d].at \in {"free", "remove"} /\ th[d].i = h => Refs(h)' = {}
    BY <1>7 DEF Before, Good, EndsGood
  <2> QED
    BY <1>1, <1>5, <2>1, EndsKept DEF Before, Quiet
<1>14. RefsGood'
  <2>1. \A d \in Conn : th'[d].result = 0 \/ (th'[d].result = th[d].result /\ th'[d].pid = th[d].pid)
    BY <1>1 DEF Moves
  <2>2. \A h \in Handles : Live(h) => heap'[HandleList[h].pointer] = heap[HandleList[h].pointer]
    BY <1>2, <1>3, LiveNames
  <2> QED
    BY <2>1, <2>2, GivesKept
<1>15. CountsGood'
  <2>1. \A h \in Handles : Live(h) => heap'[HandleList[h].pointer] = heap[HandleList[h].pointer]
    BY <1>2, <1>3, LiveNames
  <2> QED
    BY <1>6, <1>7, <2>1, CountsKept
<1>16. NoneLost'
  <2>1. ASSUME NEW q \in Ptr, q # p, heap'[q] # Freed, heap'[q].kind # Module
        PROVE  /\ heap[q] # Freed /\ heap[q].kind # Module
               /\ \A d \in Conn : Own(d) = q => Own(d)' = q
    <3>1. q # NULL
      BY Constants
    <3> QED
      BY <1>3, <1>5, <1>8, <2>1, <3>1
  <2> QED
    BY <1>6, <1>8, <2>1, LostKept
<1>17. NoneLeft'
  BY <1>1, <1>6, <1>7, LeftKept
<1> QED
  BY <1>9, <1>10, <1>11, <1>12, <1>13, <1>14, <1>15, <1>16, <1>17 DEF Good

\* A step of the first CreateHandleFromPointer of all.
LEMMA MakeTableGood ==
  ASSUME Before, NEW c \in Conn, MakeTable(c)
  PROVE  Good' /\ fault' = fault
<1>1. PICK t \in Thread : t = th[c]
  BY DEF Before, Quiet, Typed, TypeOK
<1>2. t.at \in FirstTime /\ Local(t) /\ UNCHANGED <<heap, held, fault>>
  BY <1>1 DEF MakeTable, Before, Good
<1>3. \A d \in Conn : d # c => th[d].at = "idle"
  BY <1>1, <1>2, Apart DEF Before, At
<1>4. /\ t.at = "size" => table = "null"
      /\ t.at = "alloc" => table = "sized"
      /\ t.at = "zero" => table = "raw"
  BY <1>1 DEF Before, Good, Phases, At
<1>5. table # "zeroed"
  BY <1>2, <1>4 DEF FirstTime
<1>6. /\ \A h \in Handles : HandleList[h] = EmptyEntry
      /\ \A d \in Conn, n \in Slots : held[d][n].h = 0
      /\ \A d \in Conn : th[d].result = 0
  BY <1>5 DEF Before, Good, Phases
<1>7. PICK place \in {"alloc", "zero", "scan"} :
        /\ Goto(c, [t EXCEPT !.at = place])
        /\ place = "alloc" => table' = "sized"
        /\ place = "zero" => table' = "raw"
        /\ place = "scan" => table' = "zeroed"
        /\ \A h \in Handles : HandleList'[h] = EmptyEntry
  BY <1>1, <1>2, <1>4, <1>6 DEF MakeTable, FirstTime, At
<1>8. PICK x : x = [t EXCEPT !.at = place]
  OBVIOUS
<1>9. x \in Thread
  BY <1>7, <1>8 DEF Thread, Places, Creating, FirstTime
<1>10. /\ x.at = place /\ x.pid = t.pid /\ x.kind = t.kind /\ x.i = t.i /\ x.result = t.result
       /\ x.ml = t.ml /\ x.p = t.p
  BY <1>8 DEF Thread
<1>11. Moves(c, x)
  BY <1>7, <1>8, GotoMoves DEF Before, Quiet
<1>12. HandOf(x) = HandOf(t) /\ OwnOf(x) = OwnOf(t) /\ x.at \notin Ending
  BY <1>2, <1>10 DEF HandOf, OwnOf, Makes, FirstTime, Creating, Ending
<1>13. \A h \in Handles : ~Live(h) /\ ~Live(h)'
  BY <1>6, <1>7 DEF Live, EmptyEntry
<1>14. \A h \in Handles : Refs(h)' = Refs(h)
  BY <1>1, <1>2, <1>10, <1>11, <1>12, RefsKept DEF Before, Quiet
<1>15. \A d \in Conn : Own(d)' = Own(d)
  BY <1>1, <1>11, <1>12, OwnKept DEF Own
<1>16. Phases'
  <2>1. \A d \in Conn : d # c => th'[d].at = "idle"
    BY <1>3, <1>11 DEF Moves
  <2>2. \A d \in Conn : th'[d].result = 0
    BY <1>1, <1>6, <1>10, <1>11 DEF Moves
  <2>3. th'[c].at = place
    BY <1>10, <1>11 DEF Moves
  <2> QED
    BY <1>2, <1>6, <1>7, <2>1, <2>2, <2>3 DEF Phases, BadTable, At, FirstTime
<1>17. EntriesGood'
  BY <1>13, EntriesKept
<1>18. \A d \in Conn : Local(th[d])'
  <2>1. Local(x)'
    BY <1>2, <1>10 DEF Local, MakesGood, FindsGood, ClosesGood, OwnOf, Makes, HasList, IsObject,
                       FirstTime, Creating, Closing, Searching
  <2>2. ASSUME NEW d \in Conn, d # c PROVE Local(th[d])'
    <3>1. th[d].at = "idle" /\ Own(d) = NULL
      BY <1>3, <2>2, IdleCall
    <3>2. PICK L : L = {}
      OBVIOUS
    <3> QED
      BY <1>11, <2>2, <3>1, <3>2, CallKept DEF Closing
  <2> QED
    BY <1>11, <2>1, <2>2, OthersKept
<1>19. OwnApart'
  BY <1>13, <1>15, ApartKept
<1>20. EndsGood'
  <2>1. \A d \in Conn, h \in Handles :
          d # c /\ th[d].at \in {"free", "remove"} /\ th[d].i = h => Refs(h)' = {}
    BY <1>14 DEF Before, Good, EndsGood
  <2> QED
    BY <1>11, <1>12, <2>1, EndsKept DEF Before, Quiet
<1>21. RefsGood'
  <2>1. \A d \in Conn : th'[d].result = 0
    BY <1>1, <1>6, <1>10, <1>11 DEF Moves
  <2> QED
    BY <1>2, <1>13, <2>1, GivesKept
<1>22. CountsGood'
  BY <1>13, CountsKept
<1>23. NoneLost'
  BY <1>2, <1>13, <1>15, LostKept
<1>24. NoneLeft'
  BY <1>11, <1>13, LeftKept
<1> QED
  BY <1>2, <1>16, <1>17, <1>18, <1>19, <1>20, <1>21, <1>22, <1>23, <1>24 DEF Good

\* Who looks at a handle that leads nowhere yet is the one that makes it.
LEMMA EmptySpot ==
  ASSUME Before, NEW c \in Conn, th[c].at \in {"pointer", "type"},
         NEW d \in Conn, d # c, th[d].at \in {"pointer", "type", "look", "deref", "ref", "refwrite"} \cup Closing
  PROVE  th[d].i # th[c].i
<1>1. HandleList[th[c].i].type = "htEmpty"
  BY DEF Before, Good, Local, MakesGood
<1>2. CASE th[d].at \in {"pointer", "type"}
  BY <1>2, Apart DEF Before
<1>3. CASE th[d].at \in {"look", "deref", "ref", "refwrite"} \cup Closing
  BY <1>1, <1>3 DEF Before, Good, Local, FindsGood, ClosesGood, Process
<1> QED
  BY <1>2, <1>3

\* The pointer of a new handle is written.
LEMMA WritePointerGood ==
  ASSUME Before, NEW c \in Conn, WritePointer(c)
  PROVE  Good' /\ fault' = fault
<1>1. PICK t \in Thread : t = th[c]
  BY DEF Before, Quiet, Typed, TypeOK
<1>2. t.at = "pointer" /\ table = "zeroed" /\ Local(t) /\ UNCHANGED <<table, heap, held, fault>>
  BY <1>1, TableThere DEF WritePointer, At, FirstTime, Before, Good
<1>3. t.i \in Handles /\ HandleList[t.i].type = "htEmpty"
  BY <1>1, <1>2 DEF Before, Quiet, Typed, Placed, At, Local, MakesGood
<1>4. HandleList' = [HandleList EXCEPT ![t.i].pointer = t.p] /\ Goto(c, [t EXCEPT !.at = "type"])
  BY <1>1, <1>2 DEF WritePointer, WriteEntry, At
<1>5. /\ HandleList'[t.i].type = "htEmpty" /\ HandleList'[t.i].pointer = t.p
      /\ \A h \in Handles : h # t.i => HandleList'[h] = HandleList[h]
  BY <1>3, <1>4 DEF Before, Quiet, Typed, TypeOK
<1>8. PICK x : x = [t EXCEPT !.at = "type"]
  OBVIOUS
<1>9. x \in Thread
  BY <1>8 DEF Thread, Places, Creating
<1>10. /\ x.at = "type" /\ x.pid = t.pid /\ x.kind = t.kind /\ x.i = t.i /\ x.result = t.result
       /\ x.ml = t.ml /\ x.p = t.p
  BY <1>8 DEF Thread
<1>11. Moves(c, x)
  BY <1>4, <1>8, GotoMoves DEF Before, Quiet
<1>12. HandOf(x) = HandOf(t) /\ OwnOf(x) = OwnOf(t)
  BY <1>2, <1>10 DEF HandOf, OwnOf, Makes, Creating
<1>13. \A h \in Handles : Live(h)' <=> Live(h)
  BY <1>1, <1>2, <1>3, <1>5, <1>10, <1>11, LiveKept
<1>14. \A h \in Handles : Live(h) => HandleList'[h] = HandleList[h]
  BY <1>3, <1>5 DEF Live
<1>15. \A h \in Handles : Refs(h)' = Refs(h)
  BY <1>1, <1>2, <1>10, <1>11, <1>12, RefsKept DEF Before, Quiet
<1>16. \A d \in Conn : Own(d)' = Own(d)
  BY <1>1, <1>11, <1>12, OwnKept DEF Own
<1>17. Phases'
  BY <1>2, <1>10, <1>11, PhasesKept DEF FirstTime
<1>18. EntriesGood'
  BY <1>2, <1>13, <1>14, EntriesKept
<1>19. \A d \in Conn : Local(th[d])'
  <2>1. Local(x)'
    BY <1>2, <1>5, <1>10 DEF Local, MakesGood, FindsGood, ClosesGood, OwnOf, Makes, HasList, IsObject,
                             FirstTime, Creating, Closing, Searching
  <2>2. ASSUME NEW d \in Conn, d # c PROVE Local(th[d])'
    <3>1. th[d].at \in {"pointer", "type", "look", "deref", "ref", "refwrite"} \cup Closing =>
            HandleList'[th[d].i] = HandleList[th[d].i]
      <4>1. th[d].at # "search" => th[d].i \in Handles
        BY DEF Before, Quiet, Typed, Placed, At
      <4> QED
        BY <1>1, <1>2, <1>5, <2>2, <4>1, EmptySpot DEF Closing
    <3>2. heap' = heap
      BY <1>2
    <3> QED
      BY <1>11, <2>2, <3>1, <3>2, LooksAt, CallKept
  <2> QED
    BY <1>11, <2>1, <2>2, OthersKept
<1>20. OwnApart'
  BY <1>13, <1>14, <1>16, ApartKept
<1>21. EndsGood'
  <2>1. \A d \in Conn, h \in Handles :
          d # c /\ th[d].at \in {"free", "remove"} /\ th[d].i = h => Refs(h)' = {}
    BY <1>15 DEF Before, Good, EndsGood
  <2> QED
    BY <1>10, <1>11, <2>1, EndsKept DEF Before, Quiet, Ending
<1>22. RefsGood'
  <2>1. \A d \in Conn : th'[d].result = 0 \/ (th'[d].result = th[d].result /\ th'[d].pid = th[d].pid)
    BY <1>1, <1>10, <1>11 DEF Moves
  <2> QED
    BY <1>2, <1>14, <2>1, GivesKept
<1>23. CountsGood'
  BY <1>2, <1>13, <1>14, <1>15, CountsKept
<1>24. NoneLost'
  BY <1>2, <1>13, <1>14, <1>16, LostKept
<1>25. NoneLeft'
  BY <1>1, <1>2, <1>11, <1>13, <1>15, LeftKept
<1> QED
  BY <1>2, <1>17, <1>18, <1>19, <1>20, <1>21, <1>22, <1>23, <1>24, <1>25 DEF Good

\* The references of a thread, by what its call and its slots say.
LEMMA RefsAre ==
  ASSUME NEW c \in Conn, NEW h
  PROVE  /\ Refs(h) \subseteq Conn \X Tags
         /\ <<c, -1>> \in Refs(h) <=> th[c].result = h
         /\ <<c, 0>> \in Refs(h) <=> HandOf(th[c]) = h
         /\ \A n \in Slots : <<c, n>> \in Refs(h) <=> held[c][n].h = h
BY RefTags DEF Refs, RefOf

\* There are finitely many.
LEMMA RefsFinite ==
  ASSUME NEW h
  PROVE  IsFiniteSet(Refs(h))
<1>1. IsFiniteSet(Tags)
  BY FS_Interval, Constants DEF Tags
<1>2. IsFiniteSet(Conn \X Tags)
  BY <1>1, FS_Product, ThreadsAssumption
<1> QED
  BY <1>2, FS_Subset DEF Refs

\* The references after a move that leaves the slots.
LEMMA MoveRefs ==
  ASSUME Typed, NEW c \in Conn, NEW t, Moves(c, t), held' = held, NEW h
  PROVE  Refs(h)' = (Refs(h) \ {<<c, -1>>, <<c, 0>>})
                      \cup (IF t.result = h THEN {<<c, -1>>} ELSE {})
                      \cup (IF HandOf(t) = h THEN {<<c, 0>>} ELSE {})
<1>1. ASSUME NEW d \in Conn, NEW n \in Tags, d # c \/ n \in Slots PROVE RefOf(d, n)' = RefOf(d, n)
  BY <1>1, RefTags DEF Moves, RefOf, HandOf
<1>2. RefOf(c, -1)' = t.result /\ RefOf(c, 0)' = HandOf(t)
  BY DEF Moves, RefOf, HandOf
<1>3. ASSUME NEW d \in Conn, NEW n \in Tags
      PROVE  RefOf(d, n)' = h <=> <<d, n>> \in (Refs(h) \ {<<c, -1>>, <<c, 0>>})
                                   \cup (IF t.result = h THEN {<<c, -1>>} ELSE {})
                                   \cup (IF HandOf(t) = h THEN {<<c, 0>>} ELSE {})
  <2>1. CASE d # c
    BY <1>1, <2>1 DEF Refs
  <2>2. CASE d = c /\ n \in Slots
    BY <1>1, <2>2, RefTags DEF Refs
  <2>3. CASE d = c /\ n = -1
    BY <1>2, <2>3
  <2>4. CASE d = c /\ n = 0
    BY <1>2, <2>4
  <2> QED
    BY <2>1, <2>2, <2>3, <2>4, RefTags
<1>4. \A x \in Conn \X Tags : x = <<x[1], x[2]>> /\ x[1] \in Conn /\ x[2] \in Tags
  OBVIOUS
<1>5. <<c, -1>> \in Conn \X Tags /\ <<c, 0>> \in Conn \X Tags
  BY RefTags
<1>6. Refs(h)' = {x \in Conn \X Tags : RefOf(x[1], x[2])' = h}
  BY DEF Refs
<1>7. Refs(h) \subseteq Conn \X Tags
  BY DEF Refs
<1> QED
  BY <1>3, <1>4, <1>5, <1>6, <1>7

\* Call c ends and its client has handle h in slot n, where nothing was.
Given(c, n, h, pid) ==
  /\ held'[c][n] = [h |-> h, pid |-> pid]
  /\ \A d \in Conn, m \in Slots : d # c \/ m # n => held'[d][m] = held[d][m]
  /\ \A g \in Handles : /\ <<c, n>> \notin Refs(g)
                        /\ Refs(g)' = (Refs(g) \ {<<c, -1>>, <<c, 0>>})
                                        \cup (IF g = h THEN {<<c, n>>} ELSE {})

\* And after a call that gives its client a handle.
LEMMA GetsRefs ==
  ASSUME Typed, NEW c \in Conn, NEW h \in Handles, NEW pid, Gets(c, h, pid), Moves(c, Idle)
  PROVE  \E n \in Slots : Given(c, n, h, pid)
<1>1. PICK n \in Slots : held[c][n] = Nothing /\ held' = [held EXCEPT ![c][n] = [h |-> h, pid |-> pid]]
  BY DEF Gets
<1>2. /\ held'[c][n] = [h |-> h, pid |-> pid]
      /\ \A d \in Conn, m \in Slots : d # c \/ m # n => held'[d][m] = held[d][m]
  BY <1>1 DEF Typed, TypeOK
<1>3. ASSUME NEW g \in Handles
      PROVE  /\ <<c, n>> \notin Refs(g)
             /\ Refs(g)' = (Refs(g) \ {<<c, -1>>, <<c, 0>>}) \cup (IF g = h THEN {<<c, n>>} ELSE {})
  <2>0. g # 0
    BY Constants
  <2>1. <<c, n>> \notin Refs(g)
    <3>1. RefOf(c, n) = 0
      BY <1>1, RefTags DEF RefOf, Nothing
    <3> QED
      BY <2>0, <3>1 DEF Refs
  <2>2. RefOf(c, n)' = h /\ RefOf(c, -1)' = 0 /\ RefOf(c, 0)' = 0
    BY <1>2, RefTags, IdleFields, IdleLocal DEF Moves, RefOf, HandOf
  <2>3. ASSUME NEW d \in Conn, NEW m \in Tags, d # c \/ (m \in Slots /\ m # n)
        PROVE  RefOf(d, m)' = RefOf(d, m)
    BY <1>2, <2>3, RefTags DEF Moves, RefOf, HandOf
  <2>4. ASSUME NEW d \in Conn, NEW m \in Tags
        PROVE  RefOf(d, m)' = g <=>
                 <<d, m>> \in (Refs(g) \ {<<c, -1>>, <<c, 0>>}) \cup (IF g = h THEN {<<c, n>>} ELSE {})
    <3>1. CASE d # c
      BY <2>3, <3>1 DEF Refs
    <3>2. CASE d = c /\ m \in Slots /\ m # n
      BY <2>3, <3>2, RefTags DEF Refs
    <3>3. CASE d = c /\ m = n
      BY <2>1, <2>2, <3>3
    <3>4. CASE d = c /\ m \in {-1, 0}
      BY <2>0, <2>2, <3>4, RefTags
    <3> QED
      BY <3>1, <3>2, <3>3, <3>4, RefTags
  <2>5. \A x \in Conn \X Tags : x = <<x[1], x[2]>> /\ x[1] \in Conn /\ x[2] \in Tags
    OBVIOUS
  <2>6. <<c, n>> \in Conn \X Tags
    BY RefTags
  <2>7. Refs(g)' = {x \in Conn \X Tags : RefOf(x[1], x[2])' = g}
    BY DEF Refs
  <2>8. Refs(g) \subseteq Conn \X Tags
    BY DEF Refs
  <2>9. Refs(g)' = (Refs(g) \ {<<c, -1>>, <<c, 0>>}) \cup (IF g = h THEN {<<c, n>>} ELSE {})
    BY <2>4, <2>5, <2>6, <2>7, <2>8
  <2> QED
    BY <2>1, <2>9
<1> QED
  BY <1>2, <1>3 DEF Given

\* A handle that leads nowhere has no references.
LEMMA NoneYet ==
  ASSUME Before, NEW h \in Handles, HandleList[h].type = "htEmpty"
  PROVE  Refs(h) = {} /\ ~Live(h)
BY RefsLive DEF Live

\* A module list is allocated at f, or nothing when f is NULL.
Allocates(f) ==
  /\ f # NULL => f \in FreeCells /\ heap'[f].kind = Module
  /\ \A q \in Ptr : q # f => heap'[q] = heap[q]

\* The type of a new handle is written, and with that the handle is there.  Its
\* first reference is x; f is the module list that was allocated, if one was, which
\* the call alone knows now, or nobody.
LEMMA PublishGood ==
  ASSUME Before, NEW c \in Conn, NEW u \in Thread, u = th[c], NEW t \in Thread, Moves(c, t), u.at = "type",
         table' = table, HandleList' = [HandleList EXCEPT ![u.i].type = u.kind],
         t.at \notin Ending \cup FirstTime, Local(t)',
         NEW f, Allocates(f), OwnOf(t) = NULL \/ OwnOf(t) = f,
         NEW x, Refs(u.i)' = {x},
         \A h \in Handles : h # u.i => Refs(h)' = Refs(h),
         \A d \in Conn, n \in Slots : held'[d][n] = held[d][n] \/ Gives(held[d][n].h, held[d][n].pid)',
         t.result = 0 \/ (t.result = u.result /\ t.pid = u.pid) \/ Gives(t.result, t.pid)'
  PROVE  Good'
<1>a. /\ f # NULL => f \in FreeCells /\ heap'[f].kind = Module
      /\ \A q \in Ptr : q # f => heap'[q] = heap[q]
  BY DEF Allocates
<1>1. u.i \in Handles /\ Local(u) /\ table = "zeroed" /\ u.kind \in Kinds /\ u.kind # "htEmpty"
  BY TableThere, ThreadFields
     DEF Before, Good, Quiet, Typed, Placed, At, FirstTime, Kinds, Process, Module, Snapshot
<1>2. HandleList[u.i].type = "htEmpty" /\ HandleList[u.i].pointer = u.p
  BY <1>1 DEF Local, MakesGood
<1>3. /\ u.p \in Ptr /\ u.p # NULL /\ heap[u.p].kind = u.kind /\ heap[u.p].rc = 1
      /\ OwnOf(u) = u.p /\ Own(c) = u.p
  BY <1>1, ThreadFields DEF Local, MakesGood, IsObject, OwnOf, Own, Makes, Creating
<1>4. /\ HandleList'[u.i].type = u.kind /\ HandleList'[u.i].pointer = u.p
      /\ \A h \in Handles : h # u.i => HandleList'[h] = HandleList[h]
  BY <1>1, <1>2 DEF Before, Quiet, Typed, TypeOK
<1>5. Refs(u.i) = {} /\ ~Live(u.i)
  BY <1>1, <1>2, NoneYet
<1>6. Live(u.i)'
  <2>1. ASSUME NEW d \in Conn, th'[d].at = "remove", th'[d].i = u.i PROVE FALSE
    <3>1. d # c /\ th'[d] = th[d]
      BY <2>1 DEF Moves, Ending
    <3>2. HandleList[th[d].i].type # "htEmpty"
      BY <2>1, <3>1 DEF Before, Good, Local, ClosesGood, Closing
    <3> QED
      BY <1>2, <2>1, <3>1, <3>2
  <2> QED
    BY <1>1, <1>4, <2>1 DEF Live, Dying, At
<1>7. \A h \in Handles : h # u.i => (Live(h)' <=> Live(h))
  BY <1>4, LiveKept DEF Ending
<1>8. Own(c)' = OwnOf(t) /\ \A d \in Conn : d # c => Own(d)' = Own(d) /\ Own(d) # u.p
  <2>1. \A d \in Conn : d # c => Own(d) # u.p
    BY <1>3 DEF Before, Good, OwnApart
  <2> QED
    BY <2>1, OwnKept
<1>9. /\ f # NULL => f \in Ptr /\ f # u.p
      /\ f # NULL => \A d \in Conn : Own(d) # f
      /\ \A h \in Handles : Live(h) => HandleList[h].pointer # f
      /\ \A h \in Handles : Live(h) => HandleList[h].pointer # u.p
      /\ \A h \in Handles : Live(h) => HandleList[h].pointer \in Ptr /\ HandleList[h].pointer # NULL
  <2>1. \A h \in Handles : Live(h) => HandleList[h].pointer # u.p
    BY <1>3 DEF Before, Good, OwnApart, Names
  <2>2. \A h \in Handles : Live(h) => HandleList[h].pointer \in Ptr /\ HandleList[h].pointer # NULL
    BY LiveNames
  <2> QED
    BY <1>a, <1>3, <2>1, <2>2, FreeCell
<1>10. heap'[u.p] = heap[u.p]
  BY <1>a, <1>3, <1>9
<1>11. \A h \in Handles : Live(h) => heap'[HandleList[h].pointer] = heap[HandleList[h].pointer]
  BY <1>a, <1>9
<1>12. Phases'
  BY <1>1, PhasesKept
<1>13. EntriesGood'
  <2>1. ASSUME NEW h \in Handles, Live(h)'
        PROVE  HandleList'[h].pointer # NULL /\ heap'[HandleList'[h].pointer].kind = HandleList'[h].type
    <3>1. CASE h = u.i
      BY <1>3, <1>4, <1>10, <3>1
    <3>2. CASE h # u.i
      BY <1>4, <1>7, <1>11, <2>1, <3>2, LiveNames
    <3> QED
      BY <3>1, <3>2
  <2>2. ASSUME NEW h \in Handles, NEW g \in Handles, Live(h)', Live(g)',
               HandleList'[h].pointer = HandleList'[g].pointer
        PROVE  h = g
    <3>1. CASE h # u.i /\ g # u.i
      BY <1>4, <1>7, <2>2, <3>1 DEF Before, Good, EntriesGood
    <3> QED
      BY <1>4, <1>7, <1>9, <2>2, <3>1
  <2> QED
    BY <2>1, <2>2 DEF EntriesGood, IsObject
<1>14. \A d \in Conn : Local(th[d])'
  <2>1. ASSUME NEW d \in Conn, d # c PROVE Local(th[d])'
    <3>1. th[d].at \in {"pointer", "type", "look", "deref", "ref", "refwrite"} \cup Closing =>
            HandleList'[th[d].i] = HandleList[th[d].i]
      <4>1. th[d].at # "search" => th[d].i \in Handles
        BY DEF Before, Quiet, Typed, Placed, At
      <4> QED
        BY <1>4, <2>1, <4>1, EmptySpot DEF Closing
    <3>2. PICK L : L = Ptr \ {f}
      OBVIOUS
    <3>3. f # NULL => heap[f].kind = "free"
      BY <1>a DEF FreeCells
    <3>4. /\ Own(d) # NULL => Own(d) \in L
          /\ th[d].at = "ref" => HandleList[th[d].i].pointer \in L
          /\ th[d].at \in {"refwrite", "closewrite", "use"} => th[d].p \in L
      BY <3>2, <3>3, LooksAt, Constants
    <3>5. \A q \in L : heap'[q] = heap[q]
      BY <1>a, <3>2
    <3> QED
      BY <2>1, <3>1, <3>4, <3>5, CallKept
  <2> QED
    BY <2>1, OthersKept
<1>15. OwnApart'
  <2>1. ASSUME NEW d \in Conn, Own(d)' # NULL
        PROVE  /\ \A h \in Handles : ~(Live(h)' /\ HandleList'[h].pointer = Own(d)')
               /\ \A e \in Conn : Own(e)' = Own(d)' => e = d
    <3>1. CASE d = c
      BY <1>4, <1>7, <1>8, <1>9, <2>1, <3>1
    <3>2. CASE d # c
      <4>1. \A h \in Handles : ~(Live(h)' /\ HandleList'[h].pointer = Own(d)')
        BY <1>4, <1>7, <1>8, <2>1, <3>2 DEF Before, Good, OwnApart, Names
      <4>2. \A e \in Conn : Own(e)' = Own(d)' => e = d
        BY <1>8, <1>9, <2>1, <3>2 DEF Before, Good, OwnApart
      <4> QED
        BY <4>1, <4>2
    <3> QED
      BY <3>1, <3>2
  <2> QED
    BY <2>1 DEF OwnApart, Names
<1>16. EndsGood'
  <2>1. ASSUME NEW d \in Conn, NEW h \in Handles, d # c, th[d].at \in {"free", "remove"}, th[d].i = h
        PROVE  Refs(h)' = {}
    <3>1. h # u.i
      BY <2>1, EmptySpot DEF Closing
    <3> QED
      BY <2>1, <3>1 DEF Before, Good, EndsGood
  <2> QED
    BY <2>1, EndsKept DEF Before, Quiet
<1>17. RefsGood'
  <2>1. \A d \in Conn : \/ th'[d].result = 0
                        \/ th'[d].result = th[d].result /\ th'[d].pid = th[d].pid
                        \/ Gives(th[d].result, th[d].pid)'
    <3>1. Gives(t.result, t.pid)' => Gives(th[c].result, th[c].pid)'
      BY DEF Gives, Moves
    <3> QED
      BY <3>1 DEF Moves
  <2>2. \A h \in Handles : Live(h) => HandleList'[h] = HandleList[h]
    BY <1>4, <1>5
  <2> QED
    BY <1>11, <2>1, <2>2, GivesKept
<1>18. CountsGood'
  <2>1. heap'[HandleList'[u.i].pointer].rc = Cardinality(Refs(u.i)')
    <3>1. Cardinality({x}) = 1
      BY FS_Singleton
    <3>2. Cardinality(Refs(u.i)') = 1
      BY <3>1
    <3>3. heap'[HandleList'[u.i].pointer].rc = 1
      BY <1>3, <1>4, <1>10
    <3> QED
      BY <3>2, <3>3
  <2> QED
    BY <1>4, <1>7, <1>11, <2>1, CountsKept
<1>19. NoneLost'
  <2>1. ASSUME NEW q \in Ptr, q # u.p, heap'[q] # Freed, heap'[q].kind # Module
        PROVE  /\ heap[q] # Freed /\ heap[q].kind # Module
               /\ \A d \in Conn : Own(d) = q => Own(d)' = q
    <3>1. q # NULL
      BY Constants
    <3>2. q # f /\ heap'[q] = heap[q]
      BY <1>a, <2>1, <3>1
    <3> QED
      BY <1>3, <1>8, <2>1, <3>2
  <2>2. \A q \in Ptr, h \in Handles : Live(h) /\ HandleList[h].pointer = q => Live(h)' /\ HandleList'[h].pointer = q
    BY <1>4, <1>5, <1>7
  <2>3. Live(u.i)' /\ HandleList'[u.i].pointer = u.p
    BY <1>4, <1>6
  <2> QED
    BY <1>1, <2>1, <2>2, <2>3, LostKept
<1>20. NoneLeft'
  BY <1>7, LeftKept
<1> QED
  BY <1>12, <1>13, <1>14, <1>15, <1>16, <1>17, <1>18, <1>19, <1>20 DEF Good

\* The ways to go on when the handle is there.
LEMMA WriteTypeGood ==
  ASSUME Before, NEW c \in Conn, WriteType(c)
  PROVE  Good' /\ fault' = fault
<1>1. PICK u \in Thread : u = th[c]
  BY DEF Before, Quiet, Typed, TypeOK
<1>2. u.at = "type" /\ Local(u) /\ u.i \in Handles /\ u.i \in 0 .. Spots /\ u.i # 0
  BY <1>1, Constants DEF WriteType, At, Before, Good, Quiet, Typed, Placed
<1>3. /\ table' = table /\ fault' = fault /\ HandleList' = [HandleList EXCEPT ![u.i].type = u.kind]
  BY <1>1, <1>2 DEF WriteType, WriteEntry, At
<1>4. /\ Makes(u) /\ IsObject(u.p, u.kind) /\ heap[u.p].pid = (IF u.kind = Module THEN NULL ELSE u.pid)
      /\ u.result # 0 <=> u.kind = Module
      /\ u.pid = NULL <=> u.kind = Snapshot
      /\ HandleList[u.i].type = "htEmpty" /\ HandleList[u.i].pointer = u.p
  BY <1>2 DEF Local, MakesGood, Makes, Creating
<1>5. /\ HandleList'[u.i].type = u.kind /\ HandleList'[u.i].pointer = u.p
      /\ u.kind \in Kinds /\ u.kind # "htEmpty" /\ u.p \in Ptr
  BY <1>2, <1>3, <1>4, ThreadFields
     DEF Before, Quiet, Typed, TypeOK, IsObject, Kinds, Process, Module, Snapshot
<1>6. Refs(u.i) = {} /\ HandOf(u) = 0 /\ Own(c) = u.p
  BY <1>1, <1>2, <1>4, NoneYet DEF HandOf, Own, OwnOf
<1>7. u.kind # Module /\ heap'[u.p].pid = heap[u.p].pid => Gives(u.i, u.pid)'
  BY <1>4, <1>5 DEF Gives, Kinds
<1>8. CASE u.kind = Process /\ held' = held /\ \E ml \in FreeCells :
             heap' = [heap EXCEPT ![ml] = Object(Module, NULL)] /\ Goto(c, Search(u.pid, u.i, ml))
  <2>1. PICK ml \in FreeCells :
          heap' = [heap EXCEPT ![ml] = Object(Module, NULL)] /\ Goto(c, Search(u.pid, u.i, ml))
    BY <1>8
  <2>2. ml \in Ptr /\ ml # NULL /\ ml # u.p
    BY <1>6, FreeCell
  <2>3. /\ heap'[ml] = Object(Module, NULL)
        /\ \A q \in Ptr : q # ml => heap'[q] = heap[q]
    BY <2>1, <2>2 DEF Before, Quiet, Typed, TypeOK
  <2>4. u.pid \in Pid
    BY <1>4, <1>8, ThreadFields DEF Process, Snapshot
  <2>5. PICK t \in Thread : /\ t = Search(u.pid, u.i, ml) /\ t.at = "search" /\ t.pid = u.pid
                            /\ t.kind = Process /\ t.i = 1 /\ t.result = u.i /\ t.ml = ml
    BY <1>2, <2>2, <2>4, SearchFields
  <2>6. Moves(c, t)
    BY <2>1, <2>5, GotoMoves DEF Before, Quiet
  <2>7. OwnOf(t) = ml /\ HandOf(t) = 0
    BY <1>2, <2>5 DEF OwnOf, HandOf, Makes, HasList, FirstTime, Creating
  <2>8. Local(t)'
    <3>1. heap'[ml].kind = Module /\ heap'[ml].pid = NULL /\ heap'[ml].rc = 1
      BY <2>3, ObjectTyped DEF Kinds
    <3>2. 1 <= u.i
      BY <1>2, Constants
    <3>3. t.pid # NULL
      BY <2>4, <2>5, Constants
    <3> QED
      BY <2>2, <2>5, <2>7, <3>1, <3>2, <3>3
         DEF Local, MakesGood, FindsGood, ClosesGood, OwnOf, Makes, HasList, IsObject,
             FirstTime, Creating, Closing, Searching
  <2>9. \A h \in Handles : Refs(h)' = Refs(h) \cup (IF u.i = h THEN {<<c, -1>>} ELSE {})
    <3>1. ASSUME NEW h \in Handles PROVE Refs(h)' = Refs(h) \cup (IF u.i = h THEN {<<c, -1>>} ELSE {})
      <4>1. <<c, -1>> \notin Refs(h) /\ <<c, 0>> \notin Refs(h) /\ h # 0
        BY <1>1, <1>4, <1>6, <1>8, RefsAre, Constants DEF Process, Module
      <4>2. Refs(h)' = (Refs(h) \ {<<c, -1>>, <<c, 0>>})
                         \cup (IF t.result = h THEN {<<c, -1>>} ELSE {})
                         \cup (IF HandOf(t) = h THEN {<<c, 0>>} ELSE {})
        BY <1>8, <2>6, MoveRefs DEF Before, Quiet
      <4> QED
        BY <2>5, <2>7, <4>1, <4>2
    <3> QED
      BY <3>1
  <2>10. Refs(u.i)' = {<<c, -1>>} /\ \A h \in Handles : h # u.i => Refs(h)' = Refs(h)
    BY <1>2, <1>6, <2>9
  <2>11. Gives(t.result, t.pid)'
    BY <1>5, <1>7, <1>8, <2>2, <2>3, <2>5 DEF Process, Module
  <2>12. /\ t.at \notin Ending \cup FirstTime
         /\ Allocates(ml)
         /\ \A d \in Conn, n \in Slots : held'[d][n] = held[d][n]
    BY <1>8, <2>3, <2>5, ObjectTyped DEF FirstTime, Ending, Kinds, Allocates
  <2>13. Good'
    BY <1>1, <1>2, <1>3, <2>6, <2>7, <2>8, <2>10, <2>11, <2>12, PublishGood
  <2> QED
    BY <1>3, <2>13
<1>9. ASSUME u.kind # Module, Gets(c, u.i, u.pid), Returns(c), NEW f, Allocates(f)
      PROVE  Good'
  <2>1. Moves(c, Idle)
    BY <1>9, GotoMoves DEF Returns, Before, Quiet
  <2>a. PICK i, pid : i \in Handles /\ i = u.i /\ pid = u.pid /\ Gets(c, i, pid)
    BY <1>2, <1>9
  <2>b. PICK n \in Slots : Given(c, n, i, pid)
    BY <2>a, <2>1, GetsRefs DEF Before, Quiet
  <2>2. /\ held'[c][n] = [h |-> u.i, pid |-> u.pid]
        /\ \A d \in Conn, m \in Slots : d # c \/ m # n => held'[d][m] = held[d][m]
    BY <2>a, <2>b DEF Given
  <2>3. ASSUME NEW h \in Handles PROVE <<c, -1>> \notin Refs(h) /\ <<c, 0>> \notin Refs(h)
    BY <1>1, <1>4, <1>6, <1>9, RefsAre, Constants
  <2>c. \A h \in Handles : Refs(h)' = Refs(h) \cup (IF h = i THEN {<<c, n>>} ELSE {})
    BY <2>b, <2>3 DEF Given
  <2>d. Refs(i)' = {<<c, n>>} /\ \A h \in Handles : h # i => Refs(h)' = Refs(h)
    <3>1. Refs(i) = {}
      BY <1>6, <2>a
    <3> QED
      BY <2>a, <2>c, <3>1
  <2>4. Refs(u.i)' = {<<c, n>>} /\ \A h \in Handles : h # u.i => Refs(h)' = Refs(h)
    BY <2>a, <2>d
  <2>5. Gives(held[c][n].h, held[c][n].pid)'
    <3>1. held'[c][n].h = u.i /\ held'[c][n].pid = u.pid
      BY <2>2
    <3>2. heap'[u.p] = heap[u.p]
      BY <1>5, <1>6, <1>9, FreeCell, Constants DEF Allocates
    <3> QED
      BY <1>7, <1>9, <3>1, <3>2 DEF Gives
  <2>6. \A d \in Conn, m \in Slots : held'[d][m] = held[d][m] \/ Gives(held[d][m].h, held[d][m].pid)'
    BY <2>2, <2>5
  <2>7. Local(Idle)'
    BY IdleFields DEF Local, MakesGood, FindsGood, ClosesGood, OwnOf, Makes, HasList,
                      FirstTime, Creating, Searching, Closing
  <2> QED
    BY <1>1, <1>2, <1>3, <1>9, <2>1, <2>4, <2>6, <2>7, IdleFields, IdleLocal, PublishGood
       DEF FirstTime, Ending
<1>10. CASE u.kind = Module /\ Goto(c, [u EXCEPT !.at = "close"]) /\ heap' = heap /\ held' = held
  <2>1. PICK t : t = [u EXCEPT !.at = "close"]
    OBVIOUS
  <2>2. t \in Thread
    BY <2>1 DEF Thread, Places, Closing
  <2>3. /\ t.at = "close" /\ t.pid = u.pid /\ t.kind = u.kind /\ t.i = u.i /\ t.result = u.result
    BY <2>1 DEF Thread
  <2>4. Moves(c, t)
    BY <1>10, <2>1, GotoMoves DEF Before, Quiet
  <2>5. OwnOf(t) = NULL /\ HandOf(t) = u.i
    BY <1>10, <2>3 DEF OwnOf, HandOf, Makes, HasList, FirstTime, Creating, Process, Module
  <2>6. Local(t)'
    BY <1>4, <1>5, <1>10, <2>3, <2>5
       DEF Local, MakesGood, FindsGood, ClosesGood, OwnOf, Makes, HasList, IsObject,
           FirstTime, Creating, Closing, Searching, Process, Module, Snapshot
  <2>7. \A h \in Handles : Refs(h)' = Refs(h) \cup (IF u.i = h THEN {<<c, 0>>} ELSE {})
    <3>1. ASSUME NEW h \in Handles PROVE Refs(h)' = Refs(h) \cup (IF u.i = h THEN {<<c, 0>>} ELSE {})
      <4>1. <<c, 0>> \notin Refs(h) /\ (<<c, -1>> \in Refs(h) <=> t.result = h)
        BY <1>1, <1>6, <2>3, RefsAre, Constants
      <4>2. Refs(h)' = (Refs(h) \ {<<c, -1>>, <<c, 0>>})
                         \cup (IF t.result = h THEN {<<c, -1>>} ELSE {})
                         \cup (IF HandOf(t) = h THEN {<<c, 0>>} ELSE {})
        BY <1>10, <2>4, MoveRefs DEF Before, Quiet
      <4> QED
        BY <2>5, <4>1, <4>2
    <3> QED
      BY <3>1
  <2>8. Refs(u.i)' = {<<c, 0>>} /\ \A h \in Handles : h # u.i => Refs(h)' = Refs(h)
    BY <1>2, <1>6, <2>7
  <2>9. Allocates(NULL)
    BY <1>10 DEF Allocates
  <2>10. t.at \notin Ending \cup FirstTime
    BY <2>3 DEF FirstTime, Ending
  <2> QED
    BY <1>1, <1>2, <1>3, <1>10, <2>2, <2>3, <2>4, <2>5, <2>6, <2>8, <2>9, <2>10, PublishGood
<1>11. CASE u.kind # Module /\ Gets(c, u.i, u.pid) /\ Returns(c) /\ heap' = heap
  <2>1. Allocates(NULL)
    BY <1>11 DEF Allocates
  <2> QED
    BY <1>3, <1>9, <1>11, <2>1
<1>12. CASE u.kind # Module /\ Gets(c, u.i, u.pid) /\ Returns(c) /\ \E ml \in FreeCells :
              heap' = [heap EXCEPT ![ml] = Object(Module, NULL)]
  <2>1. PICK ml \in FreeCells : heap' = [heap EXCEPT ![ml] = Object(Module, NULL)]
    BY <1>12
  <2>2. ml \in Ptr
    BY DEF FreeCells
  <2>3. Allocates(ml)
    BY <2>1, <2>2, ObjectTyped DEF Before, Quiet, Typed, TypeOK, Kinds, Allocates
  <2> QED
    BY <1>3, <1>9, <1>12, <2>3
<1> QED
  BY <1>1, <1>3, <1>8, <1>10, <1>11, <1>12 DEF WriteType, Process, Snapshot, Module

-----------------------------------------------------------------------------
(* The steps that count references.                                         *)

\* One element for another, and one less.
LEMMA Swapped ==
  ASSUME NEW S, IsFiniteSet(S), NEW x \in S
  PROVE  /\ Cardinality(S) \in Nat /\ Cardinality(S \ {x}) = Cardinality(S) - 1 /\ IsFiniteSet(S \ {x})
         /\ \A y : y \notin S => Cardinality((S \ {x}) \cup {y}) = Cardinality(S)
<1>1. /\ IsFiniteSet(S \ {x}) /\ Cardinality(S \ {x}) = Cardinality(S) - 1 /\ Cardinality(S) \in Nat
  BY FS_RemoveElement, FS_CardinalityType
<1>2. ASSUME NEW y, y \notin S PROVE Cardinality((S \ {x}) \cup {y}) = Cardinality(S)
  <2>1. Cardinality((S \ {x}) \cup {y}) = Cardinality(S \ {x}) + 1
    BY <1>1, <1>2, FS_AddElement
  <2> QED
    BY <1>1, <2>1
<1> QED
  BY <1>1, <1>2

\* A set is empty when it counts nothing.
LEMMA NothingCounted ==
  ASSUME NEW S, IsFiniteSet(S)
  PROVE  Cardinality(S) = 0 <=> S = {}
BY FS_EmptySet

\* The references are finitely many in the next state, too.
LEMMA RefsFiniteNext ==
  ASSUME NEW h
  PROVE  IsFiniteSet(Refs(h)')
<1>1. IsFiniteSet(Tags)
  BY FS_Interval, Constants DEF Tags
<1>2. IsFiniteSet(Conn \X Tags)
  BY <1>1, FS_Product, ThreadsAssumption
<1>3. Refs(h)' \subseteq Conn \X Tags
  BY DEF Refs
<1> QED
  BY <1>2, <1>3, FS_Subset

\* The count of object p is now m.
Counts(p, m) ==
  /\ heap'[p].rc = m
  /\ \A q \in Ptr : q # p => heap'[q] = heap[q]
  /\ \A q \in Ptr : heap'[q].kind = heap[q].kind /\ heap'[q].pid = heap[q].pid

\* That is what an assignment to ReferenceCount does.
LEMMA CountIsWritten ==
  ASSUME Typed, NEW p \in Ptr, NEW m, heap' = [heap EXCEPT ![p].rc = m]
  PROVE  Counts(p, m)
BY DEF Typed, TypeOK, Counts

\* A call writes the count m that the references of its handle now have.
LEMMA CountGood ==
  ASSUME Before, NEW c \in Conn, NEW u \in Thread, u = th[c], u.at \in {"refwrite", "closewrite"},
         NEW t \in Thread, Moves(c, t), HandleList' = HandleList, table' = table,
         NEW m \in Int, Counts(u.p, m),
         t.at \notin {"free", "remove"} \cup FirstTime,
         t.at = "recheck" => u.at = "closewrite" /\ t.i = u.i, m # 0 \/ t.at = "recheck",
         Local(t)', OwnOf(t) = OwnOf(u),
         m = Cardinality(Refs(u.i)'),
         \A h \in Handles : h # u.i => Cardinality(Refs(h)') = Cardinality(Refs(h)),
         \A d \in Conn, n \in Slots :
           held'[d][n] = held[d][n] \/ held'[d][n].h = 0 \/ Gives(held[d][n].h, held[d][n].pid)',
         t.result = 0 \/ (t.result = u.result /\ t.pid = u.pid)
  PROVE  Good'
<1>1. /\ u.p \in Ptr /\ u.p # NULL /\ HandleList[u.i].pointer = u.p
      /\ u.i \in Handles /\ Live(u.i) /\ Names(u.i, u.p)
  BY FoundNames
<1>2. /\ \A q \in Ptr : q # u.p => heap'[q] = heap[q]
      /\ \A q \in Ptr : heap'[q].kind = heap[q].kind /\ heap'[q].pid = heap[q].pid
      /\ heap'[u.p].rc = m
  BY DEF Counts
<1>3. \A h \in Handles : Live(h)' <=> Live(h)
  BY LiveKept
<1>4. \A d \in Conn : Own(d)' = Own(d)
  BY OwnKept DEF Own
<1>5. \A h \in Handles : Live(h) => HandleList[h].pointer \in Ptr
  BY LiveNames
<1>6. \A h \in Handles : Live(h) /\ h # u.i => HandleList[h].pointer # u.p
  BY <1>1 DEF Before, Good, EntriesGood
<1>7. \A d \in Conn : Own(d) # NULL => Own(d) # u.p /\ Own(d) \in Ptr
  BY <1>1, OwnLives DEF Before, Good, OwnApart
<1>8. Phases'
  <2>1. table = "zeroed"
    BY TableThere DEF FirstTime
  <2> QED
    BY <2>1, PhasesKept
<1>9. EntriesGood'
  BY <1>2, <1>3, <1>5, EntriesKept
<1>10. \A d \in Conn : Local(th[d])'
  <2>1. ASSUME NEW d \in Conn, d # c PROVE Local(th[d])'
    <3>1. th[d].at \in {"refwrite", "closewrite"} => th[d].p \in Ptr /\ th[d].p # u.p
      BY <2>1, Apart, FoundNames DEF Before
    <3> QED
      BY <1>2, <1>7, <2>1, <3>1, LooksAt, CallKept
  <2> QED
    BY <2>1, OthersKept
<1>11. OwnApart'
  BY <1>3, <1>4, ApartKept
<1>12. ASSUME NEW d \in Conn, d # c, th[d].at \in {"free", "remove"}
       PROVE  th[d].i # u.i /\ th[d].i \in Handles
  <2>1. th[d].i \in Handles
    BY <1>12 DEF Before, Quiet, Typed, Placed, At
  <2>2. CASE u.at = "refwrite"
    <3>1. HandleList[th[d].i].pointer = th[d].p
      BY <1>12 DEF Before, Good, Local, ClosesGood
    <3>2. th[d].p # u.p
      BY <1>12, <2>2, Apart DEF Before
    <3> QED
      BY <1>1, <2>1, <3>1, <3>2
  <2>3. CASE u.at = "closewrite"
    <3>1. <<c, 0>> \in Refs(u.i)
      BY <2>3, RefsAre DEF HandOf
    <3> QED
      BY <1>12, <2>1, <3>1 DEF Before, Good, EndsGood
  <2> QED
    BY <2>2, <2>3
<1>13. ASSUME NEW d \in Conn, NEW h \in Handles, d # c, th[d].at \in {"free", "remove"}, th[d].i = h
       PROVE  Refs(h)' = {}
  <2>1. h # u.i /\ Refs(h) = {}
    BY <1>12, <1>13 DEF Before, Good, EndsGood
  <2>2. Cardinality(Refs(h)') = 0
    BY <2>1, NothingCounted, RefsFinite
  <2> QED
    BY <2>2, NothingCounted, RefsFiniteNext
<1>14. EndsGood'
  <2>1. CASE t.at # "recheck"
    BY <1>13, <2>1, EndsKept DEF Before, Quiet, Ending
  <2>2. CASE t.at = "recheck"
    <3>1. ASSUME NEW d \in Conn, d # c, th[d].at \in Ending PROVE th[d].i # u.i
      <4>1. CASE th[d].at = "recheck"
        <5>1. th[d].p # u.p
          BY <2>2, <3>1, <4>1, Apart DEF Before, At
        <5> QED
          BY <1>1, <4>1, <5>1, FoundNames
      <4> QED
        BY <1>12, <3>1, <4>1 DEF Ending
    <3>2. ASSUME NEW d \in Conn, th'[d].at \in {"free", "remove"}
          PROVE  Refs(th[d].i)' = {}
      <4>1. d # c /\ th'[d] = th[d]
        BY <2>2, <3>2 DEF Moves
      <4>2. PICK h \in Handles : h = th[d].i
        BY <1>12, <3>2, <4>1
      <4>3. Refs(h)' = {}
        BY <1>13, <3>2, <4>1, <4>2
      <4> QED
        BY <4>1, <4>2, <4>3 DEF Refs, RefOf
    <3>3. ASSUME NEW d \in Conn, NEW e \in Conn, th'[d].at \in Ending, th'[e].at \in Ending,
                 th'[e].i = th'[d].i
          PROVE  e = d
      <4>1. CASE d # c /\ e # c
        BY <3>3, <4>1 DEF Moves, Before, Good, EndsGood
      <4>2. CASE d = c \/ e = c
        BY <2>2, <3>1, <3>3, <4>2 DEF Moves
      <4> QED
        BY <4>1, <4>2
    <3> QED
      BY <3>2, <3>3 DEF EndsGood
  <2> QED
    BY <2>1, <2>2
<1>15. RefsGood'
  <2>1. \A d \in Conn : th'[d].result = 0 \/ (th'[d].result = th[d].result /\ th'[d].pid = th[d].pid)
    BY DEF Moves
  <2> QED
    BY <1>2, <1>5, <2>1, GivesKept
<1>16. CountsGood'
  <2>1. heap'[HandleList'[u.i].pointer].rc = Cardinality(Refs(u.i)')
    BY <1>1, <1>2
  <2>2. \A h \in Handles : Live(h) /\ h # u.i => heap'[HandleList[h].pointer].rc = heap[HandleList[h].pointer].rc
    BY <1>2, <1>5, <1>6
  <2> QED
    BY <1>3, <2>1, <2>2, CountsKept
<1>17. NoneLost'
  <2>1. ASSUME NEW q \in Ptr, q # u.p, heap'[q] # Freed, heap'[q].kind # Module
        PROVE  heap[q] # Freed /\ heap[q].kind # Module
    BY <1>2, <2>1
  <2> QED
    BY <1>1, <1>3, <1>4, <2>1, LostKept
<1>18. NoneLeft'
  <2>1. m # 0 => Refs(u.i)' # {}
    BY NothingCounted, RefsFiniteNext
  <2>2. ASSUME NEW h \in Handles, h # u.i, Refs(h)' = {} PROVE Refs(h) = {}
    <3>1. Cardinality(Refs(h)') = 0
      BY <2>2, NothingCounted, RefsFiniteNext
    <3> QED
      BY <2>2, <3>1, NothingCounted, RefsFinite
  <2> QED
    BY <1>3, <2>1, <2>2, LeftKept
<1> QED
  BY <1>8, <1>9, <1>10, <1>11, <1>14, <1>15, <1>16, <1>17, <1>18 DEF Good

\* The count of a process that was found goes up: its handle is the client's, or
\* the module snapshot closes it again.
LEMMA AddReferenceGood ==
  ASSUME Before, NEW c \in Conn, AddReference(c)
  PROVE  Good' /\ fault' = fault
<1>1. PICK u \in Thread : u = th[c]
  BY DEF Before, Quiet, Typed, TypeOK
<1>2. /\ u.at = "refwrite" /\ Local(u) /\ u.i \in Handles /\ Live(u.i) /\ u.p \in Ptr /\ u.p # NULL
      /\ HandleList[u.i].pointer = u.p /\ HandleList[u.i].type = u.kind /\ heap[u.p].kind = u.kind
      /\ Names(u.i, u.p)
  BY <1>1, FoundNames DEF AddReference, At, Before, Good
<1>3. u.kind = Process /\ u.pid # NULL /\ heap[u.p].pid = u.pid /\ heap[u.p].rc = u.n /\ u.n \in Int
  BY <1>2, ThreadFields DEF Local, FindsGood, Searching
<1>4. u.n = Cardinality(Refs(u.i))
  BY <1>2, <1>3 DEF Before, Good, CountsGood
<1>a. u.n >= 0
  BY <1>4, RefsFinite, FS_CardinalityType
<1>5. /\ heap' = [heap EXCEPT ![u.p].rc = u.n + 1]
      /\ \/ u.result = 0 /\ Gets(c, u.i, u.pid) /\ Returns(c)
         \/ u.result # 0 /\ Goto(c, [u EXCEPT !.at = "close"]) /\ UNCHANGED held
      /\ UNCHANGED <<HandleList, table, fault>>
  BY <1>1, <1>2, <1>3 DEF AddReference, IsObject
<1>6. \A q \in Ptr : /\ heap'[q].kind = heap[q].kind /\ heap'[q].pid = heap[q].pid
                     /\ q # u.p => heap'[q] = heap[q]
  BY <1>2, <1>5 DEF Before, Quiet, Typed, TypeOK
<1>7. ASSUME NEW h \in Handles PROVE <<c, 0>> \notin Refs(h)
  <2>1. HandOf(th[c]) = 0 /\ h # 0
    BY <1>1, <1>2, Constants DEF HandOf
  <2> QED
    BY <2>1, RefsAre
<1>8. ASSUME NEW x, x \notin Refs(u.i), Refs(u.i)' = Refs(u.i) \cup {x}
      PROVE  u.n + 1 = Cardinality(Refs(u.i)')
  <2>1. PICK S : S = Refs(u.i)
    OBVIOUS
  <2>2. IsFiniteSet(S) /\ Cardinality(S) = u.n
    BY <1>4, <2>1, RefsFinite
  <2>3. Cardinality(S \cup {x}) = u.n + 1
    BY <1>8, <2>1, <2>2, FS_AddElement
  <2> QED
    BY <1>8, <2>1, <2>3
<1>9. CASE u.result = 0 /\ Gets(c, u.i, u.pid) /\ Returns(c)
  <2>1. Moves(c, Idle)
    BY <1>9, GotoMoves DEF Returns, Before, Quiet
  <2>2. PICK i, pid : i \in Handles /\ i = u.i /\ pid = u.pid /\ Gets(c, i, pid)
    BY <1>2, <1>9
  <2>3. PICK n \in Slots : Given(c, n, i, pid)
    BY <2>1, <2>2, GetsRefs DEF Before, Quiet
  <2>4. ASSUME NEW h \in Handles PROVE <<c, -1>> \notin Refs(h)
    <3>1. th[c].result = 0 /\ h # 0
      BY <1>1, <1>9, Constants
    <3> QED
      BY <3>1, RefsAre
  <2>5. \A h \in Handles : <<c, n>> \notin Refs(h) /\ Refs(h)' = Refs(h) \cup (IF h = i THEN {<<c, n>>} ELSE {})
    BY <1>7, <2>3, <2>4 DEF Given
  <2>6. <<c, n>> \notin Refs(i) /\ Refs(i)' = Refs(i) \cup {<<c, n>>} /\ \A h \in Handles : h # i => Refs(h)' = Refs(h)
    BY <2>2, <2>5
  <2>7. u.n + 1 = Cardinality(Refs(u.i)') /\ \A h \in Handles : h # u.i => Refs(h)' = Refs(h)
    BY <1>8, <2>2, <2>6
  <2>8. \A d \in Conn, k \in Slots : held'[d][k] = held[d][k] \/ Gives(held[d][k].h, held[d][k].pid)'
    <3>1. /\ held'[c][n].h = u.i /\ held'[c][n].pid = u.pid
          /\ \A d \in Conn, k \in Slots : d # c \/ k # n => held'[d][k] = held[d][k]
      BY <2>2, <2>3 DEF Given
    <3>2. Gives(held[c][n].h, held[c][n].pid)'
      BY <1>2, <1>3, <1>5, <1>6, <3>1 DEF Gives
    <3> QED
      BY <3>1, <3>2
  <2>9. Local(Idle)'
    BY IdleFields DEF Local, MakesGood, FindsGood, ClosesGood, OwnOf, Makes, HasList,
                      FirstTime, Creating, Searching, Closing
  <2>10. OwnOf(u) = OwnOf(Idle)
    BY <1>2, <1>9, IdleLocal DEF OwnOf, Makes, HasList, FirstTime, Creating
  <2>11. PICK m \in Int : m = u.n + 1 /\ m # 0
    BY <1>3, <1>a
  <2>12. /\ Idle.at \notin {"free", "remove", "recheck"} \cup FirstTime /\ Idle.result = 0 /\ Idle \in Thread
         /\ m # 0
         /\ Counts(u.p, m) /\ m = Cardinality(Refs(u.i)')
         /\ \A h \in Handles : h # u.i => Cardinality(Refs(h)') = Cardinality(Refs(h))
    BY <1>2, <1>5, <2>7, <2>11, IdleFields, CountIsWritten DEF FirstTime, Before, Quiet
  <2>13. Good'
    BY <1>1, <1>2, <1>5, <2>1, <2>8, <2>9, <2>10, <2>12, CountGood
  <2> QED
    BY <1>5, <2>13
<1>10. CASE u.result # 0 /\ Goto(c, [u EXCEPT !.at = "close"]) /\ UNCHANGED held
  <2>1. PICK t : t = [u EXCEPT !.at = "close"]
    OBVIOUS
  <2>2. t \in Thread
    BY <2>1 DEF Thread, Places, Closing
  <2>3. /\ t.at = "close" /\ t.pid = u.pid /\ t.kind = u.kind /\ t.i = u.i /\ t.result = u.result
        /\ t.ml = u.ml
    BY <2>1 DEF Thread
  <2>4. Moves(c, t)
    BY <1>10, <2>1, GotoMoves DEF Before, Quiet
  <2>5. OwnOf(t) = u.ml /\ OwnOf(u) = u.ml /\ HandOf(t) = u.i
    BY <1>2, <1>3, <1>10, <2>3 DEF OwnOf, HandOf, Makes, HasList, FirstTime, Creating
  <2>6. /\ u.ml \in Ptr /\ u.ml # u.p /\ u.ml # NULL
        /\ heap[u.ml].kind = Module /\ heap[u.ml].pid = NULL /\ heap[u.ml].rc = 1
    <3>1. /\ u.ml # NULL /\ heap[u.ml].kind = Module /\ heap[u.ml].pid = NULL /\ heap[u.ml].rc = 1
      BY <1>2, <1>3, <1>10, <2>5
         DEF Local, MakesGood, Makes, HasList, FirstTime, Creating, IsObject
    <3>2. u.ml # u.p
      BY <1>2, <1>3, <3>1 DEF Process, Module
    <3> QED
      BY <3>1, <3>2, ThreadFields
  <2>7. Local(t)'
    BY <1>2, <1>3, <1>5, <1>6, <1>10, <2>3, <2>5, <2>6
       DEF Local, MakesGood, FindsGood, ClosesGood, OwnOf, Makes, HasList, IsObject,
           FirstTime, Creating, Closing, Searching, Process, Module, Snapshot
  <2>8. ASSUME NEW h \in Handles PROVE Refs(h)' = Refs(h) \cup (IF u.i = h THEN {<<c, 0>>} ELSE {})
    <3>1. <<c, -1>> \in Refs(h) <=> t.result = h
      BY <1>1, <2>3, RefsAre
    <3>2. Refs(h)' = (Refs(h) \ {<<c, -1>>, <<c, 0>>})
                       \cup (IF t.result = h THEN {<<c, -1>>} ELSE {})
                       \cup (IF HandOf(t) = h THEN {<<c, 0>>} ELSE {})
      BY <1>10, <2>4, MoveRefs DEF Before, Quiet
    <3> QED
      BY <1>7, <2>5, <3>1, <3>2
  <2>9. u.n + 1 = Cardinality(Refs(u.i)') /\ \A h \in Handles : h # u.i => Refs(h)' = Refs(h)
    BY <1>2, <1>7, <1>8, <2>8
  <2>10. PICK m \in Int : m = u.n + 1 /\ m # 0
    BY <1>3, <1>a
  <2>11. /\ t.at \notin {"free", "remove", "recheck"} \cup FirstTime /\ OwnOf(t) = OwnOf(u) /\ m # 0
         /\ Counts(u.p, m) /\ m = Cardinality(Refs(u.i)')
         /\ \A h \in Handles : h # u.i => Cardinality(Refs(h)') = Cardinality(Refs(h))
    BY <1>2, <1>5, <2>3, <2>5, <2>9, <2>10, CountIsWritten DEF FirstTime, Before, Quiet
  <2>12. \A d \in Conn, n \in Slots : held'[d][n] = held[d][n]
    BY <1>10
  <2>13. Good'
    BY <1>1, <1>2, <1>5, <2>2, <2>3, <2>4, <2>7, <2>11, <2>12, CountGood
  <2> QED
    BY <1>5, <2>13
<1> QED
  BY <1>5, <1>9, <1>10

\* CloseHandle takes the handle from the client.
LEMMA CloseHandleGood ==
  ASSUME Before, NEW c \in Conn, CloseHandle(c)
  PROVE  Good' /\ fault' = fault
<1>1. PICK n \in Slots : /\ held[c][n] # Nothing
                         /\ held' = [held EXCEPT ![c][n] = Nothing]
                         /\ Goto(c, [Idle EXCEPT !.at = "close", !.i = held[c][n].h])
  BY DEF CloseHandle
<1>2. UNCHANGED <<HandleList, table, heap, fault>> /\ th[c].at = "idle"
  BY DEF CloseHandle, Begins, At
<1>3. PICK i \in Handles : i = held[c][n].h
  BY <1>1 DEF Before, Quiet, Typed, Placed
<1>4. i # 0 /\ Live(i) /\ table = "zeroed"
  <2>1. i # 0
    BY Constants
  <2> QED
    BY <1>3, <2>1, RefsGive DEF Before, Good, Phases
<1>5. PICK t : t = [Idle EXCEPT !.at = "close", !.i = i]
  OBVIOUS
<1>6. t = [at |-> "close", pid |-> NULL, kind |-> Process, i |-> i, p |-> NULL, n |-> 0,
           result |-> 0, ml |-> NULL]
  BY <1>5 DEF Idle
<1>7. t \in Thread
  BY <1>6, Constants DEF Thread, Places, Closing, Kinds
<1>8. Moves(c, t)
  BY <1>1, <1>3, <1>5, GotoMoves DEF Before, Quiet
<1>9. HandOf(t) = i /\ OwnOf(t) = NULL
  BY <1>6 DEF HandOf, OwnOf, Makes, HasList, FirstTime, Creating
<1>10. /\ held'[c][n] = Nothing
       /\ \A d \in Conn, m \in Slots : d # c \/ m # n => held'[d][m] = held[d][m]
  BY <1>1 DEF Before, Quiet, Typed, TypeOK
<1>11. \A h \in Handles : Live(h)' <=> Live(h)
  BY <1>2, <1>6, <1>8, LiveKept
<1>12. \A d \in Conn : Own(d)' = Own(d)
  BY <1>2, <1>8, <1>9, IdleCall, OwnKept DEF Own
<1>13. ASSUME NEW h \in Handles
       PROVE  /\ h # i => Refs(h)' = Refs(h)
              /\ h = i => Refs(h)' = (Refs(h) \ {<<c, n>>}) \cup {<<c, 0>>}
              /\ <<c, 0>> \notin Refs(h)
              /\ h = i => <<c, n>> \in Refs(h)
  <2>1. h # 0
    BY Constants
  <2>2. RefOf(c, -1) = 0 /\ RefOf(c, 0) = 0 /\ RefOf(c, n) = i
    BY <1>2, <1>3, IdleCall, RefTags DEF RefOf
  <2>3. RefOf(c, -1)' = 0 /\ RefOf(c, 0)' = i /\ RefOf(c, n)' = 0
    BY <1>6, <1>8, <1>9, <1>10, RefTags DEF RefOf, Moves, HandOf, Nothing
  <2>4. ASSUME NEW d \in Conn, NEW m \in Tags, d # c \/ (m \in Slots /\ m # n)
        PROVE  RefOf(d, m)' = RefOf(d, m)
    BY <1>8, <1>10, <2>4, RefTags DEF Moves, RefOf, HandOf
  <2>5. \A x \in Conn \X Tags : x = <<x[1], x[2]>> /\ x[1] \in Conn /\ x[2] \in Tags
    OBVIOUS
  <2>6. <<c, 0>> \in Conn \X Tags /\ <<c, n>> \in Conn \X Tags
    BY RefTags
  <2>7. /\ Refs(h)' = {x \in Conn \X Tags : RefOf(x[1], x[2])' = h}
        /\ Refs(h) = {x \in Conn \X Tags : RefOf(x[1], x[2]) = h}
    BY DEF Refs
  <2>8. <<c, 0>> \notin Refs(h) /\ (h = i => <<c, n>> \in Refs(h))
    BY <2>1, <2>2, <2>6, <2>7
  <2>9. CASE h # i
    <3>1. \A d \in Conn, m \in Tags : RefOf(d, m)' = h <=> RefOf(d, m) = h
      BY <2>1, <2>2, <2>3, <2>4, <2>9, RefTags
    <3> QED
      BY <2>5, <2>7, <2>8, <2>9, <3>1
  <2>10. CASE h = i
    <3>1. ASSUME NEW d \in Conn, NEW m \in Tags
          PROVE  RefOf(d, m)' = h <=> <<d, m>> \in (Refs(h) \ {<<c, n>>}) \cup {<<c, 0>>}
      <4>1. CASE d # c
        BY <2>4, <2>7, <4>1
      <4>2. CASE d = c /\ m \in Slots /\ m # n
        BY <2>4, <2>7, <4>2, RefTags
      <4>3. CASE d = c /\ m = n
        BY <2>1, <2>3, <4>3, RefTags
      <4>4. CASE d = c /\ m = 0
        BY <2>3, <2>10, <4>4
      <4>5. CASE d = c /\ m = -1
        BY <2>1, <2>2, <2>3, <2>7, <4>5
      <4> QED
        BY <4>1, <4>2, <4>3, <4>4, <4>5, RefTags
    <3> QED
      BY <2>5, <2>6, <2>7, <2>8, <2>10, <3>1
  <2> QED
    BY <2>8, <2>9, <2>10
<1>14. ASSUME NEW h \in Handles PROVE Cardinality(Refs(h)') = Cardinality(Refs(h))
  <2>1. PICK S : S = Refs(h) /\ IsFiniteSet(S)
    BY RefsFinite
  <2>2. ASSUME h = i PROVE Cardinality((S \ {<<c, n>>}) \cup {<<c, 0>>}) = Cardinality(S)
    <3>1. PICK x, y : x = <<c, n>> /\ y = <<c, 0>>
      OBVIOUS
    <3>2. x \in S /\ y \notin S
      BY <1>13, <2>1, <2>2, <3>1
    <3>3. Cardinality((S \ {x}) \cup {y}) = Cardinality(S)
      BY <2>1, <3>2, Swapped
    <3> QED
      BY <3>1, <3>3
  <2> QED
    BY <1>13, <2>1, <2>2
<1>15. Phases'
  BY <1>2, <1>4, <1>6, <1>8, PhasesKept DEF FirstTime
<1>16. EntriesGood'
  BY <1>2, <1>11, EntriesKept
<1>17. \A d \in Conn : Local(th[d])'
  <2>1. Local(t)'
    BY <1>2, <1>4, <1>6, <1>9 DEF Local, MakesGood, FindsGood, ClosesGood, OwnOf, Makes, HasList, IsObject,
                            FirstTime, Creating, Closing, Searching, Live
  <2>2. ASSUME NEW d \in Conn, d # c PROVE Local(th[d])'
    BY <1>2, <1>8, <2>2, LooksAt, CallKept
  <2> QED
    BY <1>8, <2>1, <2>2, OthersKept
<1>18. OwnApart'
  BY <1>2, <1>11, <1>12, ApartKept
<1>19. EndsGood'
  <2>1. ASSUME NEW d \in Conn, NEW h \in Handles, d # c, th[d].at \in {"free", "remove"}, th[d].i = h
        PROVE  Refs(h)' = {}
    BY <1>13, <2>1 DEF Before, Good, EndsGood
  <2> QED
    BY <1>6, <1>8, <2>1, EndsKept DEF Before, Quiet, Ending
<1>20. RefsGood'
  <2>1. \A d \in Conn : th'[d].result = 0 \/ (th'[d].result = th[d].result /\ th'[d].pid = th[d].pid)
    BY <1>6, <1>8 DEF Moves
  <2>2. \A d \in Conn, m \in Slots : held'[d][m] = held[d][m] \/ held'[d][m].h = 0
    BY <1>10 DEF Nothing
  <2> QED
    BY <1>2, <2>1, <2>2, GivesKept
<1>21. CountsGood'
  BY <1>2, <1>11, <1>14, CountsKept
<1>22. NoneLost'
  BY <1>2, <1>11, <1>12, LostKept
<1>23. NoneLeft'
  <2>1. \A h \in Handles : Refs(h)' = {} => h # i /\ Refs(h) = {}
    BY <1>13
  <2> QED
    BY <1>2, <1>8, <1>11, <2>1, LeftKept
<1> QED
  BY <1>2, <1>15, <1>16, <1>17, <1>18, <1>19, <1>20, <1>21, <1>22, <1>23 DEF Good

\* Call c, which was u, has closed its handle and goes on as t: it returns, or it
\* makes a handle for the module list.
ClosedTo(c, u, t) ==
  /\ Moves(c, t)
  /\ t.at \in {"idle", "scan"} /\ (t.at = "idle" => t = Idle) /\ OwnOf(t) = OwnOf(u)
  /\ t.result = 0 \/ (t.result = u.result /\ t.pid = u.pid)
  /\ t.at = "scan" =>
       /\ u.result # 0 /\ u.kind = Process
       /\ t.p = u.ml /\ t.ml = u.ml /\ t.kind = Module /\ t.result = u.result /\ t.pid = u.pid
  /\ \A d \in Conn, n \in Slots :
       \/ held'[d][n] = held[d][n]
       \/ u.result # 0 /\ u.kind = Module /\ held'[d][n] = [h |-> u.result, pid |-> u.pid]
  /\ \A h \in Handles : Cardinality(Refs(h)') = Cardinality(Refs(h) \ {<<c, 0>>})

\* That is how a close ends.
LEMMA ClosedEffect ==
  ASSUME Before, NEW c \in Conn, NEW u \in Thread, u = th[c], u.at \in {"recheck", "remove"}, Closed(c, u)
  PROVE  \E t \in Thread : ClosedTo(c, u, t)
<1>1. Typed /\ Closed(c, th[c])
  BY DEF Before, Quiet
<1>2. ~Makes(u)
  BY DEF Makes, FirstTime, Creating
<1>3. CASE u.result # 0 /\ u.kind = Process /\ held' = held
  <2>1. PICK t \in Thread :
          /\ Moves(c, t) /\ t.at = "scan" /\ t.pid = u.pid /\ t.kind = Module /\ t.i = 1
          /\ t.p = u.ml /\ t.n = 0 /\ t.result = u.result /\ t.ml = u.ml
    BY <1>1, <1>3, ClosedMoves DEF Process, Module
  <2>2. OwnOf(t) = OwnOf(u) /\ HandOf(t) = 0
    BY <1>2, <1>3, <2>1 DEF OwnOf, HandOf, Makes, HasList, Creating
  <2>3. ASSUME NEW h \in Handles PROVE Refs(h)' = Refs(h) \ {<<c, 0>>}
    <3>1. h # 0 /\ (<<c, -1>> \in Refs(h) <=> t.result = h)
      <4>1. h # 0
        BY Constants
      <4>2. <<c, -1>> \in Refs(h) <=> th[c].result = h
        BY RefsAre
      <4> QED
        BY <1>1, <2>1, <4>1, <4>2
    <3>2. Refs(h)' = (Refs(h) \ {<<c, -1>>, <<c, 0>>})
                       \cup (IF t.result = h THEN {<<c, -1>>} ELSE {})
                       \cup (IF HandOf(t) = h THEN {<<c, 0>>} ELSE {})
      BY <1>1, <1>3, <2>1, MoveRefs
    <3>3. <<c, -1>> # <<c, 0>>
      OBVIOUS
    <3> QED
      BY <2>2, <3>1, <3>2, <3>3
  <2>4. ClosedTo(c, u, t)
    BY <1>3, <2>1, <2>2, <2>3 DEF ClosedTo
  <2> QED
    BY <2>4
<1>4. CASE u.result \in Handles /\ u.kind = Module /\ Gets(c, u.result, u.pid) /\ Moves(c, Idle)
  <2>1. PICK r, pid : r \in Handles /\ r = u.result /\ pid = u.pid /\ Gets(c, r, pid)
    BY <1>4
  <2>2. PICK n \in Slots : Given(c, n, r, pid)
    BY <1>1, <1>4, <2>1, GetsRefs
  <2>3. ASSUME NEW h \in Handles PROVE Cardinality(Refs(h)') = Cardinality(Refs(h) \ {<<c, 0>>})
    <3>1. PICK S : S = Refs(h) \ {<<c, 0>>} /\ IsFiniteSet(S)
      <4>1. IsFiniteSet(Refs(h))
        BY RefsFinite
      <4>2. IsFiniteSet(Refs(h) \ {<<c, 0>>})
        BY <4>1, FS_RemoveElement
      <4> QED
        BY <4>2
    <3>2. <<c, -1>> \in Refs(h) <=> r = h
      BY <2>1, RefsAre
    <3>3. <<c, n>> \notin Refs(h)
      BY <2>2 DEF Given
    <3>4. Refs(h)' = (Refs(h) \ {<<c, -1>>, <<c, 0>>}) \cup (IF h = r THEN {<<c, n>>} ELSE {})
      BY <2>2 DEF Given
    <3>5. <<c, -1>> # <<c, 0>>
      OBVIOUS
    <3>6. CASE h = r
      <4>1. <<c, -1>> \in S /\ <<c, n>> \notin S
        BY <3>1, <3>2, <3>3, <3>5, <3>6
      <4>2. Refs(h)' = (S \ {<<c, -1>>}) \cup {<<c, n>>}
        BY <3>1, <3>4, <3>6
      <4>3. Cardinality((S \ {<<c, -1>>}) \cup {<<c, n>>}) = Cardinality(S)
        BY <3>1, <4>1, Swapped
      <4> QED
        BY <3>1, <4>2, <4>3
    <3>7. CASE h # r
      <4>1. Refs(h)' = S
        BY <3>1, <3>2, <3>4, <3>7
      <4> QED
        BY <3>1, <4>1
    <3> QED
      BY <3>6, <3>7
  <2>4. \A d \in Conn, m \in Slots :
          held'[d][m] = held[d][m] \/ held'[d][m] = [h |-> u.result, pid |-> u.pid]
    BY <2>1, <2>2 DEF Given
  <2>5. u.result # 0 /\ OwnOf(u) = NULL
    BY <1>2, <1>4, Constants DEF OwnOf, HasList, Process, Module
  <2>6. ClosedTo(c, u, Idle)
    BY <1>4, <2>3, <2>4, <2>5, IdleFields, IdleLocal DEF ClosedTo
  <2> QED
    BY <2>6, IdleFields
<1>5. CASE u.result = 0 /\ Moves(c, Idle) /\ held' = held
  <2>1. ASSUME NEW h \in Handles PROVE Refs(h)' = Refs(h) \ {<<c, 0>>}
    <3>1. h # 0 /\ <<c, -1>> \notin Refs(h)
      <4>1. h # 0
        BY Constants
      <4>2. <<c, -1>> \in Refs(h) <=> th[c].result = h
        BY RefsAre
      <4> QED
        BY <1>5, <4>1, <4>2
    <3>2. Refs(h)' = (Refs(h) \ {<<c, -1>>, <<c, 0>>})
                       \cup (IF Idle.result = h THEN {<<c, -1>>} ELSE {})
                       \cup (IF HandOf(Idle) = h THEN {<<c, 0>>} ELSE {})
      BY <1>1, <1>5, MoveRefs
    <3> QED
      BY <3>1, <3>2, IdleFields, IdleLocal
  <2>2. OwnOf(u) = NULL
    BY <1>2, <1>5 DEF OwnOf, HasList
  <2>3. ClosedTo(c, u, Idle)
    BY <1>5, <2>1, <2>2, IdleFields, IdleLocal DEF ClosedTo
  <2> QED
    BY <2>3, IdleFields
<1> QED
  BY <1>1, <1>3, <1>4, <1>5, ClosedMoves

\* What it knows alone is still there.
LEMMA ClosedLocal ==
  ASSUME Before, NEW c \in Conn, NEW u \in Thread, u = th[c], u.at \in {"recheck", "remove"},
         NEW t \in Thread, ClosedTo(c, u, t), OwnOf(u) # NULL => heap'[OwnOf(u)] = heap[OwnOf(u)]
  PROVE  Local(t)'
<1>1. CASE t.at = "idle"
  <2>1. t = Idle
    BY <1>1 DEF ClosedTo
  <2>2. Local(Idle)'
    BY IdleFields DEF Local, MakesGood, FindsGood, ClosesGood, OwnOf, Makes, HasList,
                      FirstTime, Creating, Searching, Closing
  <2> QED
    BY <1>1, <2>1, IdleFields
       DEF Local, MakesGood, FindsGood, ClosesGood, OwnOf, Makes, HasList,
           FirstTime, Creating, Searching, Closing
<1>2. CASE t.at = "scan"
  <2>1. /\ u.result # 0 /\ u.kind = Process
        /\ t.p = u.ml /\ t.ml = u.ml /\ t.kind = Module /\ t.result = u.result /\ t.pid = u.pid
    BY <1>2 DEF ClosedTo
  <2>2. ~Makes(u) /\ HasList(u) /\ OwnOf(u) = u.ml /\ Makes(t) /\ OwnOf(t) = u.ml
    BY <1>2, <2>1 DEF OwnOf, Makes, HasList, FirstTime, Creating
  <2>3. /\ u.ml # NULL /\ heap[u.ml].kind = Module /\ heap[u.ml].pid = NULL /\ heap[u.ml].rc = 1
        /\ u.pid # NULL
    BY <2>1, <2>2 DEF Before, Good, Local, MakesGood, ClosesGood, IsObject
  <2>4. heap'[u.ml] = heap[u.ml]
    BY <2>2, <2>3
  <2> QED
    BY <1>2, <2>1, <2>2, <2>3, <2>4
       DEF Local, MakesGood, FindsGood, ClosesGood, OwnOf, Makes, HasList, IsObject,
           FirstTime, Creating, Searching, Closing, Module, Snapshot
<1> QED
  BY <1>1, <1>2 DEF ClosedTo

\* The count of what is closed goes down.
LEMMA DropReferenceGood ==
  ASSUME Before, NEW c \in Conn, DropReference(c)
  PROVE  Good' /\ fault' = fault
<1>1. PICK u \in Thread : u = th[c]
  BY DEF Before, Quiet, Typed, TypeOK
<1>2. /\ u.at = "closewrite" /\ Local(u) /\ u.i \in Handles /\ Live(u.i) /\ u.p \in Ptr /\ u.p # NULL
      /\ HandleList[u.i].pointer = u.p /\ HandleList[u.i].type = u.kind /\ heap[u.p].kind = u.kind
      /\ Names(u.i, u.p)
  BY <1>1, FoundNames DEF DropReference, At, Before, Good
<1>3. heap[u.p].rc = u.n /\ u.n \in Int
  BY <1>2, ThreadFields DEF Local, ClosesGood
<1>4. u.n = Cardinality(Refs(u.i))
  BY <1>2, <1>3 DEF Before, Good, CountsGood
<1>5. PICK m \in Int : m = u.n - 1
  BY <1>3
<1>6. /\ heap' = [heap EXCEPT ![u.p].rc = m] /\ Goto(c, [u EXCEPT !.at = "recheck"])
      /\ UNCHANGED <<HandleList, table, held, fault>>
  BY <1>1, <1>2, <1>3, <1>5 DEF DropReference, IsObject
<1>7. Counts(u.p, m)
  BY <1>2, <1>6, CountIsWritten DEF Before, Quiet
<1>8. ASSUME NEW h \in Handles PROVE <<c, 0>> \in Refs(h) <=> h = u.i
  <2>1. HandOf(th[c]) = u.i
    BY <1>1, <1>2 DEF HandOf
  <2> QED
    BY <2>1, RefsAre
<1>9. OwnOf(u) # NULL => OwnOf(u) # u.p /\ OwnOf(u) \in Ptr /\ heap'[OwnOf(u)] = heap[OwnOf(u)]
  <2>1. OwnOf(u) = Own(c)
    BY <1>1 DEF Own
  <2> QED
    BY <1>2, <1>7, <2>1, OwnLives DEF Before, Good, OwnApart, Counts
<1>10. PICK t : t = [u EXCEPT !.at = "recheck"]
  OBVIOUS
<1>11. t \in Thread
  BY <1>10 DEF Thread, Places, Closing
<1>12. /\ t.at = "recheck" /\ t.pid = u.pid /\ t.kind = u.kind /\ t.i = u.i /\ t.result = u.result
       /\ t.ml = u.ml /\ t.p = u.p
  BY <1>10 DEF Thread
<1>13. Moves(c, t)
  BY <1>6, <1>10, GotoMoves DEF Before, Quiet
<1>14. OwnOf(t) = OwnOf(u) /\ HandOf(t) = 0
  BY <1>2, <1>12 DEF OwnOf, HandOf, Makes, HasList, FirstTime, Creating
<1>15. Local(t)'
  BY <1>2, <1>6, <1>9, <1>12, <1>14
     DEF Local, MakesGood, FindsGood, ClosesGood, OwnOf, Makes, HasList, IsObject,
         FirstTime, Creating, Closing, Searching
<1>16. ASSUME NEW h \in Handles PROVE Refs(h)' = Refs(h) \ {<<c, 0>>}
  <2>1. h # 0
    BY Constants
  <2>2. <<c, -1>> \in Refs(h) <=> t.result = h
    BY <1>1, <1>12, RefsAre
  <2>3. Refs(h)' = (Refs(h) \ {<<c, -1>>, <<c, 0>>})
                     \cup (IF t.result = h THEN {<<c, -1>>} ELSE {})
                     \cup (IF HandOf(t) = h THEN {<<c, 0>>} ELSE {})
    BY <1>6, <1>13, MoveRefs DEF Before, Quiet
  <2>4. <<c, -1>> # <<c, 0>>
    OBVIOUS
  <2> QED
    BY <1>14, <2>1, <2>2, <2>3, <2>4
<1>17. m = Cardinality(Refs(u.i)')
  <2>1. PICK S : S = Refs(u.i) /\ IsFiniteSet(S) /\ <<c, 0>> \in S
    BY <1>2, <1>8, RefsFinite
  <2>2. Cardinality(S \ {<<c, 0>>}) = m
    BY <1>4, <1>5, <2>1, Swapped
  <2> QED
    BY <1>2, <1>16, <2>1, <2>2
<1>18. \A h \in Handles : h # u.i => Cardinality(Refs(h)') = Cardinality(Refs(h))
  <2>1. \A h \in Handles : h # u.i => Refs(h)' = Refs(h)
    BY <1>8, <1>16
  <2> QED
    BY <2>1
<1>19. /\ \A d \in Conn, n \in Slots : held'[d][n] = held[d][n]
       /\ t.at \notin {"free", "remove"} \cup FirstTime /\ HandleList' = HandleList /\ table' = table
  BY <1>6, <1>12 DEF FirstTime
<1>20. Good'
  BY <1>1, <1>2, <1>7, <1>11, <1>12, <1>13, <1>14, <1>15, <1>17, <1>18, <1>19, CountGood
<1> QED
  BY <1>6, <1>20

\* A call that has given a reference up goes on, and changes nothing but what its
\* client holds.
LEMMA EndMove ==
  ASSUME Before, NEW c \in Conn, NEW u \in Thread, u = th[c], u.at = "recheck",
         NEW t \in Thread, Moves(c, t), UNCHANGED <<HandleList, table, heap>>,
         t.at \notin {"recheck", "remove"} \cup FirstTime,
         IF t.at = "free" THEN t.i = u.i /\ Refs(u.i) = {} ELSE Refs(u.i) # {},
         Local(t)', OwnOf(t) = OwnOf(u),
         \A h \in Handles : Cardinality(Refs(h)') = Cardinality(Refs(h)),
         \A d \in Conn, n \in Slots : held'[d][n] = held[d][n] \/ Gives(held[d][n].h, held[d][n].pid)',
         t.result = 0 \/ (t.result = u.result /\ t.pid = u.pid)
  PROVE  Good'
<1>1. \A h \in Handles : Live(h)' <=> Live(h)
  BY LiveKept
<1>2. \A d \in Conn : Own(d)' = Own(d)
  BY OwnKept DEF Own
<1>3. ASSUME NEW h \in Handles PROVE Refs(h)' = {} <=> Refs(h) = {}
  BY NothingCounted, RefsFinite, RefsFiniteNext
<1>4. Phases'
  <2>1. table = "zeroed"
    BY TableThere DEF FirstTime
  <2> QED
    BY <2>1, PhasesKept
<1>5. EntriesGood'
  BY <1>1, EntriesKept
<1>6. \A d \in Conn : Local(th[d])'
  <2>1. ASSUME NEW d \in Conn, d # c PROVE Local(th[d])'
    BY <2>1, LooksAt, CallKept
  <2> QED
    BY <2>1, OthersKept
<1>7. OwnApart'
  BY <1>1, <1>2, ApartKept
<1>8. EndsGood'
  <2>1. ASSUME NEW d \in Conn, th'[d].at \in Ending
        PROVE  th[d].at \in Ending /\ th'[d].i = th[d].i /\ th[d].i \in Handles
    <3>1. th[d].at \in Ending /\ th'[d].i = th[d].i
      BY <2>1 DEF Moves, Ending
    <3> QED
      BY <3>1 DEF Before, Quiet, Typed, Placed, At, Ending
  <2>2. ASSUME NEW d \in Conn, th'[d].at \in {"free", "remove"}
        PROVE  Refs(th[d].i)' = {}
    <3>1. PICK h \in Handles : h = th[d].i /\ th'[d].i = h
      BY <2>1, <2>2 DEF Ending
    <3>2. Refs(h) = {}
      BY <2>2, <3>1 DEF Moves, Before, Good, EndsGood
    <3>3. Refs(h)' = {}
      BY <1>3, <3>2
    <3> QED
      BY <3>1, <3>3 DEF Refs, RefOf
  <2>3. ASSUME NEW d \in Conn, NEW e \in Conn, th'[d].at \in Ending, th'[e].at \in Ending,
               th'[e].i = th'[d].i
        PROVE  e = d
    BY <2>1, <2>3 DEF Before, Good, EndsGood
  <2> QED
    BY <2>2, <2>3 DEF EndsGood
<1>9. RefsGood'
  <2>1. \A d \in Conn : th'[d].result = 0 \/ (th'[d].result = th[d].result /\ th'[d].pid = th[d].pid)
    BY DEF Moves
  <2> QED
    BY <2>1, GivesKept
<1>10. CountsGood'
  BY <1>1, CountsKept
<1>11. NoneLost'
  BY <1>1, <1>2, LostKept
<1>12. NoneLeft'
  BY <1>1, <1>3, LeftKept
<1> QED
  BY <1>4, <1>5, <1>6, <1>7, <1>8, <1>9, <1>10, <1>11, <1>12 DEF Good

\* The count is read again: the object is freed, or the close is at its end.
LEMMA RereadCountGood ==
  ASSUME Before, NEW c \in Conn, RereadCount(c)
  PROVE  Good' /\ fault' = fault
<1>1. PICK u \in Thread : u = th[c]
  BY DEF Before, Quiet, Typed, TypeOK
<1>2. /\ u.at = "recheck" /\ Local(u) /\ u.i \in Handles /\ Live(u.i) /\ u.p \in Ptr /\ u.p # NULL
      /\ HandleList[u.i].pointer = u.p /\ HandleList[u.i].type = u.kind /\ heap[u.p].kind = u.kind
  BY <1>1, FoundNames DEF RereadCount, At, Before, Good
<1>3. PICK m : m = heap[u.p].rc
  OBVIOUS
<1>4. m = Cardinality(Refs(u.i)) /\ m \in Nat /\ (IsLast(m) <=> Refs(u.i) = {})
  <2>1. m = Cardinality(Refs(u.i))
    BY <1>2, <1>3 DEF Before, Good, CountsGood
  <2>2. m \in Nat /\ (m = 0 <=> Refs(u.i) = {})
    BY <2>1, RefsFinite, FS_CardinalityType, NothingCounted
  <2> QED
    BY <2>1, <2>2 DEF IsLast
<1>5. /\ IF IsLast(m) THEN Goto(c, [u EXCEPT !.at = "free"]) /\ UNCHANGED held ELSE Closed(c, u)
      /\ UNCHANGED <<HandleList, table, heap, fault>>
  BY <1>1, <1>2, <1>3 DEF RereadCount, IsObject
<1>6. ASSUME NEW h \in Handles PROVE <<c, 0>> \notin Refs(h) /\ h # 0
  <2>1. HandOf(th[c]) = 0 /\ h # 0
    BY <1>1, <1>2, Constants DEF HandOf
  <2> QED
    BY <2>1, RefsAre
<1>7. CASE IsLast(m)
  <2>1. PICK t : t = [u EXCEPT !.at = "free"]
    OBVIOUS
  <2>2. t \in Thread
    BY <2>1 DEF Thread, Places, Closing
  <2>3. /\ t.at = "free" /\ t.pid = u.pid /\ t.kind = u.kind /\ t.i = u.i /\ t.result = u.result
        /\ t.ml = u.ml /\ t.p = u.p
    BY <2>1 DEF Thread
  <2>4. Moves(c, t) /\ held' = held
    BY <1>5, <1>7, <2>1, GotoMoves DEF Before, Quiet
  <2>5. OwnOf(t) = OwnOf(u) /\ HandOf(t) = 0 /\ HandOf(u) = 0
    BY <1>2, <2>3 DEF OwnOf, HandOf, Makes, HasList, FirstTime, Creating
  <2>6. Local(t)'
    BY <1>2, <1>5, <2>3, <2>5
       DEF Local, MakesGood, FindsGood, ClosesGood, OwnOf, Makes, HasList, IsObject,
           FirstTime, Creating, Closing, Searching
  <2>7. ASSUME NEW h \in Handles PROVE Cardinality(Refs(h)') = Cardinality(Refs(h))
    <3>1. Refs(h)' = Refs(h)
      BY <1>1, <2>3, <2>4, <2>5, RefsKept DEF Before, Quiet
    <3> QED
      BY <3>1
  <2>8. t.at \notin {"recheck", "remove"} \cup FirstTime
    BY <2>3 DEF FirstTime
  <2>9. Good'
    BY <1>1, <1>2, <1>4, <1>5, <1>7, <2>2, <2>3, <2>4, <2>5, <2>6, <2>7, <2>8, EndMove
  <2> QED
    BY <1>5, <2>9
<1>8. CASE ~IsLast(m)
  <2>1. Closed(c, u)
    BY <1>5, <1>8
  <2>2. PICK t \in Thread : ClosedTo(c, u, t)
    BY <1>1, <1>2, <2>1, ClosedEffect
  <2>3. Local(t)'
    BY <1>1, <1>2, <1>5, <2>2, ClosedLocal
  <2>4. ASSUME NEW h \in Handles PROVE Cardinality(Refs(h)') = Cardinality(Refs(h))
    <3>1. Refs(h) \ {<<c, 0>>} = Refs(h)
      BY <1>6
    <3> QED
      BY <2>2, <3>1 DEF ClosedTo
  <2>5. \A d \in Conn, n \in Slots : held'[d][n] = held[d][n] \/ Gives(held[d][n].h, held[d][n].pid)'
    <3>1. u.result # 0 => Gives(u.result, u.pid)
      BY <1>1, RefsGive
    <3>2. u.result # 0 => Gives(u.result, u.pid)'
      BY <1>5, <3>1 DEF Gives
    <3>3. ASSUME NEW d \in Conn, NEW n \in Slots, held'[d][n] # held[d][n]
          PROVE  Gives(held[d][n].h, held[d][n].pid)'
      <4>1. u.result # 0 /\ held'[d][n].h = u.result /\ held'[d][n].pid = u.pid
        BY <2>2, <3>3 DEF ClosedTo
      <4> QED
        BY <3>2, <4>1 DEF Gives
    <3> QED
      BY <3>3
  <2>6. /\ Moves(c, t) /\ t.at \notin {"recheck", "remove"} \cup FirstTime /\ t.at # "free"
        /\ OwnOf(t) = OwnOf(u)
        /\ t.result = 0 \/ (t.result = u.result /\ t.pid = u.pid)
    BY <2>2 DEF ClosedTo, FirstTime
  <2>7. Good'
    BY <1>1, <1>2, <1>4, <1>5, <1>8, <2>3, <2>4, <2>5, <2>6, EndMove
  <2> QED
    BY <1>5, <2>7
<1> QED
  BY <1>7, <1>8

-----------------------------------------------------------------------------
(* The steps that give an object and its handle up.                         *)

\* The object is freed: its handle leads nowhere from now on.
LEMMA FreeGood ==
  ASSUME Before, NEW c \in Conn, Free(c)
  PROVE  Good' /\ fault' = fault
<1>1. PICK u \in Thread : u = th[c]
  BY DEF Before, Quiet, Typed, TypeOK
<1>2. /\ u.at = "free" /\ Local(u) /\ u.i \in Handles /\ Live(u.i) /\ u.p \in Ptr /\ u.p # NULL
      /\ HandleList[u.i].pointer = u.p /\ HandleList[u.i].type = u.kind /\ heap[u.p].kind = u.kind
      /\ Names(u.i, u.p)
  BY <1>1, FoundNames DEF Free, At, Before, Good
<1>3. /\ heap' = [heap EXCEPT ![u.p] = Freed] /\ Goto(c, [u EXCEPT !.at = "remove"])
      /\ UNCHANGED <<HandleList, table, held, fault>>
  BY <1>1, <1>2 DEF Free, IsObject
<1>4. PICK t : t = [u EXCEPT !.at = "remove"]
  OBVIOUS
<1>5. t \in Thread
  BY <1>4 DEF Thread, Places, Closing
<1>6. /\ t.at = "remove" /\ t.pid = u.pid /\ t.kind = u.kind /\ t.i = u.i /\ t.result = u.result
      /\ t.ml = u.ml /\ t.p = u.p
  BY <1>4 DEF Thread
<1>7. Moves(c, t)
  BY <1>3, <1>4, GotoMoves DEF Before, Quiet
<1>8. OwnOf(t) = OwnOf(u) /\ HandOf(t) = HandOf(u)
  BY <1>2, <1>6 DEF OwnOf, HandOf, Makes, HasList, FirstTime, Creating
<1>9. heap'[u.p] = Freed /\ \A q \in Ptr : q # u.p => heap'[q] = heap[q]
  BY <1>2, <1>3 DEF Before, Quiet, Typed, TypeOK
<1>10. \A h \in Handles : Refs(h)' = Refs(h)
  BY <1>1, <1>3, <1>6, <1>7, <1>8, RefsKept DEF Before, Quiet
<1>11. \A d \in Conn : Own(d)' = Own(d)
  BY <1>1, <1>7, <1>8, OwnKept DEF Own
<1>12. \A d \in Conn : Own(d) # NULL => Own(d) # u.p /\ Own(d) \in Ptr
  BY <1>2, OwnLives DEF Before, Good, OwnApart
<1>13. ASSUME NEW h \in Handles
       PROVE  Live(h)' <=> Live(h) /\ h # u.i
  <2>1. Dying(h)' <=> Dying(h) \/ h = u.i
    <3>1. \A d \in Conn : th'[d].at = "remove" /\ th'[d].i = h <=>
                            (th[d].at = "remove" /\ th[d].i = h) \/ (d = c /\ h = u.i)
      BY <1>1, <1>2, <1>6, <1>7 DEF Moves
    <3> QED
      BY <3>1 DEF Dying, At
  <2> QED
    BY <1>3, <2>1 DEF Live
<1>14. \A h \in Handles : Live(h) /\ h # u.i => HandleList[h].pointer # u.p /\ HandleList[h].pointer \in Ptr
  BY <1>2, LiveNames DEF Before, Good, EntriesGood
<1>15. Phases'
  <2>1. table = "zeroed"
    BY <1>1, <1>2, TableThere DEF FirstTime
  <2> QED
    BY <1>3, <1>6, <1>7, <2>1, PhasesKept DEF FirstTime
<1>16. EntriesGood'
  BY <1>3, <1>9, <1>13, <1>14, EntriesKept
<1>17. \A d \in Conn : Local(th[d])'
  <2>1. Local(t)'
    <3>1. OwnOf(u) # NULL => heap'[OwnOf(u)] = heap[OwnOf(u)]
      BY <1>1, <1>9, <1>12 DEF Own
    <3> QED
      BY <1>2, <1>3, <1>6, <1>8, <3>1
         DEF Local, MakesGood, FindsGood, ClosesGood, OwnOf, Makes, HasList, IsObject,
             FirstTime, Creating, Closing, Searching
  <2>2. ASSUME NEW d \in Conn, d # c PROVE Local(th[d])'
    <3>1. PICK L : L = Ptr \ {u.p}
      OBVIOUS
    <3>2. ASSUME th[d].at = "ref" PROVE HandleList[th[d].i].pointer \in L
      <4>1. th[d].i # u.i
        BY <1>1, <1>2, <2>2, <3>2, Apart DEF Before
      <4>2. th[d].i \in Handles /\ Live(th[d].i)
        BY <3>2, FoundLive
      <4> QED
        BY <1>14, <3>1, <4>1, <4>2
    <3>3. ASSUME th[d].at \in {"refwrite", "use"} PROVE th[d].p \in L
      <4>1. th[d].p # u.p
        BY <1>1, <1>2, <2>2, <3>3, Apart DEF Before
      <4> QED
        BY <3>1, <3>3, <4>1, LooksAt
    <3>4. ASSUME th[d].at = "closewrite" PROVE th[d].p \in L
      <4>1. /\ th[d].p \in Ptr /\ HandleList[th[d].i].pointer = th[d].p
            /\ th[d].i \in Handles /\ Live(th[d].i)
        BY <3>4, FoundNames
      <4>2. th[d].i # u.i
        <5>1. <<d, 0>> \in Refs(th[d].i)
          BY <3>4, RefsAre DEF HandOf
        <5>2. Refs(u.i) = {}
          BY <1>1, <1>2 DEF Before, Good, EndsGood
        <5> QED
          BY <5>1, <5>2
      <4> QED
        BY <1>14, <3>1, <4>1, <4>2
    <3>5. Own(d) # NULL => Own(d) \in L
      BY <1>12, <3>1
    <3>6. \A q \in L : heap'[q] = heap[q]
      BY <1>9, <3>1
    <3> QED
      BY <1>3, <1>7, <2>2, <3>2, <3>3, <3>4, <3>5, <3>6, CallKept
  <2> QED
    BY <1>7, <2>1, <2>2, OthersKept
<1>18. OwnApart'
  BY <1>3, <1>11, <1>13, ApartKept
<1>19. EndsGood'
  <2>1. \A d \in Conn : /\ th'[d].at \in {"free", "remove"} <=> th[d].at \in {"free", "remove"}
                        /\ th'[d].at \in Ending <=> th[d].at \in Ending
                        /\ th'[d].i = th[d].i
    BY <1>1, <1>2, <1>6, <1>7 DEF Moves, Ending
  <2>2. ASSUME NEW d \in Conn, th'[d].at \in {"free", "remove"}
        PROVE  Refs(th[d].i)' = {}
    <3>1. PICK h \in Handles : h = th[d].i
      BY <2>1, <2>2 DEF Before, Quiet, Typed, Placed, At
    <3>2. Refs(h)' = {} /\ th'[d].i = h
      BY <1>10, <2>1, <2>2, <3>1 DEF Before, Good, EndsGood
    <3> QED
      BY <3>2 DEF Refs, RefOf
  <2>3. ASSUME NEW d \in Conn, NEW e \in Conn, th'[d].at \in Ending,
               th'[e].at \in Ending, th'[e].i = th'[d].i
        PROVE  e = d
    BY <2>1, <2>3 DEF Before, Good, EndsGood
  <2> QED
    BY <2>2, <2>3 DEF EndsGood
<1>20. RefsGood'
  <2>1. \A d \in Conn : th'[d].result = 0 \/ (th'[d].result = th[d].result /\ th'[d].pid = th[d].pid)
    BY <1>1, <1>6, <1>7 DEF Moves
  <2>2. Refs(u.i) = {}
    BY <1>1, <1>2 DEF Before, Good, EndsGood
  <2>3. \A h \in Handles : Live(h) /\ Refs(h) # {} => heap'[HandleList[h].pointer] = heap[HandleList[h].pointer]
    BY <1>9, <1>14, <2>2
  <2> QED
    BY <1>3, <2>1, <2>3, GivesKept
<1>21. CountsGood'
  BY <1>3, <1>9, <1>10, <1>13, <1>14, CountsKept
<1>22. NoneLost'
  <2>1. ASSUME NEW q \in Ptr, q # u.p, heap'[q] # Freed, heap'[q].kind # Module
        PROVE  heap[q] # Freed /\ heap[q].kind # Module
    BY <1>9, <2>1
  <2>2. \A q \in Ptr, h \in Handles : q # u.p /\ Live(h) /\ HandleList[h].pointer = q =>
                                        Live(h)' /\ HandleList'[h].pointer = q
    BY <1>2, <1>3, <1>13
  <2> QED
    BY <1>9, <1>11, <2>1, <2>2, LostKept
<1>23. NoneLeft'
  BY <1>1, <1>7, <1>10, <1>13, LeftKept
<1> QED
  BY <1>3, <1>15, <1>16, <1>17, <1>18, <1>19, <1>20, <1>21, <1>22, <1>23 DEF Good

\* The handle that leads nowhere is emptied.
LEMMA RemoveHandleGood ==
  ASSUME Before, NEW c \in Conn, RemoveHandle(c)
  PROVE  Good' /\ fault' = fault
<1>1. PICK u \in Thread : u = th[c]
  BY DEF Before, Quiet, Typed, TypeOK
<1>2. u.at = "remove" /\ Local(u) /\ u.i \in Handles /\ Dying(u.i) /\ ~Live(u.i) /\ table = "zeroed"
  BY <1>1, TableThere
     DEF RemoveHandle, At, Before, Good, Quiet, Typed, Placed, Dying, Live, FirstTime
<1>3. /\ HandleList' = [HandleList EXCEPT ![u.i].type = "htEmpty"] /\ Closed(c, u)
      /\ UNCHANGED <<table, heap, fault>>
  BY <1>1 DEF RemoveHandle
<1>4. /\ HandleList'[u.i].type = "htEmpty"
      /\ \A h \in Handles : h # u.i => HandleList'[h] = HandleList[h]
  BY <1>2, <1>3 DEF Before, Quiet, Typed, TypeOK
<1>5. PICK t \in Thread : ClosedTo(c, u, t)
  BY <1>1, <1>2, <1>3, ClosedEffect
<1>6. /\ Moves(c, t) /\ t.at \in {"idle", "scan"} /\ OwnOf(t) = OwnOf(u)
      /\ t.result = 0 \/ (t.result = u.result /\ t.pid = u.pid)
  BY <1>5 DEF ClosedTo
<1>7. \A h \in Handles : Cardinality(Refs(h)') = Cardinality(Refs(h))
  <2>1. ASSUME NEW h \in Handles PROVE Refs(h) \ {<<c, 0>>} = Refs(h)
    <3>1. HandOf(th[c]) = 0 /\ h # 0
      BY <1>1, <1>2, Constants DEF HandOf
    <3>2. <<c, 0>> \notin Refs(h)
      BY <3>1, RefsAre
    <3> QED
      BY <3>2
  <2> QED
    BY <1>5, <2>1 DEF ClosedTo
<1>8. \A d \in Conn : Own(d)' = Own(d)
  BY <1>1, <1>6, OwnKept DEF Own
<1>9. ASSUME NEW h \in Handles PROVE Live(h)' <=> Live(h)
  <2>1. CASE h = u.i
    BY <1>2, <1>4, <2>1 DEF Live
  <2>2. CASE h # u.i
    <3>1. \A d \in Conn : th'[d].at = "remove" /\ th'[d].i = h <=> th[d].at = "remove" /\ th[d].i = h
      BY <1>1, <1>6, <2>2 DEF Moves
    <3>2. Dying(h)' <=> Dying(h)
      BY <3>1 DEF Dying, At
    <3> QED
      BY <1>4, <2>2, <3>2 DEF Live
  <2> QED
    BY <2>1, <2>2
<1>10. \A h \in Handles : Live(h) => HandleList'[h] = HandleList[h]
  BY <1>2, <1>4
<1>11. Phases'
  BY <1>2, <1>3, <1>6, PhasesKept DEF FirstTime
<1>12. EntriesGood'
  BY <1>3, <1>9, <1>10, EntriesKept
<1>13. \A d \in Conn : Local(th[d])'
  <2>1. Local(t)'
    BY <1>1, <1>2, <1>3, <1>5, ClosedLocal
  <2>2. ASSUME NEW d \in Conn, d # c PROVE Local(th[d])'
    <3>1. ASSUME th[d].at \in {"pointer", "type", "look", "deref", "ref", "refwrite"} \cup Closing
          PROVE  th[d].i \in Handles /\ th[d].i # u.i
      <4>1. th[d].i \in Handles
        BY <3>1 DEF Before, Quiet, Typed, Placed, At, Closing
      <4>2. CASE th[d].at \in {"look", "deref", "ref", "refwrite", "close", "closewrite", "recheck", "free"}
        BY <1>2, <4>1, <4>2, FoundLive
      <4>3. CASE th[d].at = "remove"
        BY <1>1, <1>2, <2>2, <4>1, <4>3 DEF Before, Good, EndsGood, Ending
      <4>4. CASE th[d].at \in {"pointer", "type"}
        <5>1. HandleList[th[d].i].type = "htEmpty"
          BY <4>4 DEF Before, Good, Local, MakesGood
        <5>2. HandleList[u.i].type # "htEmpty"
          BY <1>2 DEF Local, ClosesGood, Closing
        <5> QED
          BY <4>1, <5>1, <5>2
      <4> QED
        BY <3>1, <4>2, <4>3, <4>4 DEF Closing
    <3>2. th[d].at \in {"pointer", "type", "look", "deref", "ref", "refwrite"} \cup Closing =>
            HandleList'[th[d].i] = HandleList[th[d].i]
      BY <1>4, <3>1
    <3> QED
      BY <1>3, <1>6, <2>2, <3>2, LooksAt, CallKept
  <2> QED
    BY <1>6, <2>1, <2>2, OthersKept
<1>14. OwnApart'
  BY <1>8, <1>9, <1>10, ApartKept
<1>15. EndsGood'
  <2>1. ASSUME NEW d \in Conn, NEW h \in Handles, d # c, th[d].at \in {"free", "remove"}, th[d].i = h
        PROVE  Refs(h)' = {}
    <3>1. Refs(h) = {}
      BY <2>1 DEF Before, Good, EndsGood
    <3>2. Cardinality(Refs(h)') = 0
      BY <1>7, <3>1, NothingCounted, RefsFinite
    <3> QED
      BY <3>2, NothingCounted, RefsFiniteNext
  <2>2. t.at \notin Ending
    BY <1>6 DEF Ending
  <2> QED
    BY <1>6, <2>1, <2>2, EndsKept DEF Before, Quiet
<1>16. RefsGood'
  <2>1. u.result # 0 => /\ u.result \in Handles /\ Live(u.result) /\ Gives(u.result, u.pid)
    BY <1>1, RefsGive
  <2>2. u.result # 0 => Gives(u.result, u.pid)'
    BY <1>3, <1>10, <2>1 DEF Gives
  <2>3. ASSUME NEW d \in Conn, NEW n \in Slots, held'[d][n] # held[d][n]
        PROVE  Gives(held[d][n].h, held[d][n].pid)'
    <3>1. u.result # 0 /\ held'[d][n].h = u.result /\ held'[d][n].pid = u.pid
      BY <1>5, <2>3 DEF ClosedTo
    <3> QED
      BY <2>2, <3>1 DEF Gives
  <2>4. \A d \in Conn : th'[d].result = 0 \/ (th'[d].result = th[d].result /\ th'[d].pid = th[d].pid)
    BY <1>1, <1>6 DEF Moves
  <2> QED
    BY <1>3, <1>10, <2>3, <2>4, GivesKept
<1>17. CountsGood'
  BY <1>3, <1>7, <1>9, <1>10, CountsKept
<1>18. NoneLost'
  BY <1>3, <1>8, <1>9, <1>10, LostKept
<1>19. NoneLeft'
  <2>1. ASSUME NEW h \in Handles, Refs(h)' = {} PROVE Refs(h) = {}
    <3>1. Cardinality(Refs(h)') = 0
      BY <2>1, NothingCounted, RefsFiniteNext
    <3> QED
      BY <1>7, <3>1, NothingCounted, RefsFinite
  <2> QED
    BY <1>1, <1>2, <1>6, <1>9, <2>1, LeftKept
<1> QED
  BY <1>3, <1>11, <1>12, <1>13, <1>14, <1>15, <1>16, <1>17, <1>18, <1>19 DEF Good

-----------------------------------------------------------------------------
(* The invariant, without what it says of OpenProcess calls that meet.      *)

\* A search finds, or it makes what it has not found, or it gives up.
LEMMA SearchSpotGood ==
  ASSUME Before, Quiet', NEW c \in Conn, SearchSpot(c)
  PROVE  Good' /\ fault' = fault
<1>1. PICK t \in Thread : t = th[c]
  BY DEF Before, Quiet, Typed, TypeOK
<1>2. t.at = "search" /\ Local(t) /\ t.pid \in Pid
  BY <1>1, ThreadFields DEF SearchSpot, At, Before, Good, Local, FindsGood, Searching
<1>3. CASE ~NoTable /\ t.i <= Spots
  BY <1>1, <1>3, SearchGood
<1>4. CASE ~(~NoTable /\ t.i <= Spots)
  <2>1. NoTable \/ t.i > Spots
    BY <1>4, ThreadFields, Constants
  <2>2. NotFound(c)
    BY <1>1, <2>1 DEF SearchSpot
  <2>3. t.result = 0
    <3>1. CASE NoTable
      BY <1>1, <3>1 DEF Before, Good, Phases, NoTable
    <3>2. CASE t.i > Spots
      <4>1. t.result # 0 => t.i <= t.result
        BY <1>2 DEF Local, FindsGood
      <4> QED
        BY <3>2, <4>1, ThreadFields, Constants
    <3> QED
      BY <2>1, <3>1, <3>2
  <2>4. /\ Create(c, Process, t.pid) \/ (Returns(c) /\ UNCHANGED heap)
        /\ UNCHANGED <<HandleList, table, held, fault>>
    BY <1>1, <2>2, <2>3 DEF NotFound
  <2>5. CASE Create(c, Process, t.pid)
    <3>1. t.pid # NULL /\ Process # Snapshot /\ Process \in {Process, Snapshot}
      BY <1>2, Constants DEF Process, Snapshot
    <3>2. Good'
      BY <1>1, <1>2, <2>3, <2>4, <2>5, <3>1, CreateGood
    <3> QED
      BY <2>4, <3>2
  <2>6. CASE Returns(c) /\ UNCHANGED heap
    BY <1>1, <1>2, <2>3, <2>4, <2>6, GiveUpGood
  <2> QED
    BY <2>4, <2>5, <2>6
<1> QED
  BY <1>3, <1>4

\* No step does harm.
LEMMA StepGood ==
  ASSUME Before, Quiet', NEW c \in Conn, Begin(c) \/ Step(c)
  PROVE  Good' /\ fault' = fault
<1>1. CASE SnapProcess(c)
  <2>1. th[c].at = "idle" /\ th[c].result = 0
    BY <1>1, IdleCall DEF SnapProcess, Begins, At
  <2>2. Snapshot \in {Process, Snapshot}
    OBVIOUS
  <2>3. Good'
    BY <1>1, <2>1, <2>2, CreateGood DEF SnapProcess
  <2> QED
    BY <1>1, <2>3 DEF SnapProcess
<1> QED
  BY <1>1, OpenProcessGood, CloseHandleGood, UseHandleGood, SearchSpotGood, CompareGood, ReadCountGood,
     AddReferenceGood, MakeTableGood, ScanGood, WritePointerGood, WriteTypeGood, LookUpGood,
     DropReferenceGood, RereadCountGood, FreeGood, RemoveHandleGood, LookPointerGood, UseProcessGood
     DEF Begin, Step

-----------------------------------------------------------------------------
(* One process, one ProcessData.                                            *)

\* Where the steps lead: only Free makes a call that empties a handle, and only
\* these steps make or go on with an OpenProcess that has no handle yet.
LEMMA WhereTo ==
  ASSUME Before, NEW c \in Conn, Begin(c) \/ Step(c), ~Faults(c)
  PROVE  /\ \A d \in Conn : d # c => th'[d] = th[d]
         /\ th'[c].at = "remove" => Free(c)
         /\ Opening(c)' => \/ OpenProcess(c) \/ SearchSpot(c) \/ Compare(c)
                           \/ MakeTable(c) \/ Scan(c) \/ WritePointer(c)
<1> DEFINE Goal == /\ \A d \in Conn : d # c => th'[d] = th[d]
                   /\ th'[c].at # "remove"
                   /\ ~Opening(c)'
<1>1. PICK u \in Thread : u = th[c]
  BY DEF Before, Quiet, Typed, TypeOK
<1>2. ASSUME NEW t, Moves(c, t), t.at # "remove",
             \/ t.at \notin {"search", "deref"} \cup FirstTime \cup Creating
             \/ t.kind # Process \/ t.result # 0
      PROVE  Goal
  BY <1>2 DEF Moves, Opening
<1>3. ASSUME NEW t, Goto(c, t) PROVE Moves(c, t)
  BY <1>3, GotoMoves DEF Before, Quiet
<1>4. CASE OpenProcess(c)
  <2>1. PICK pid \in Pid : Goto(c, Search(pid, 0, NULL))
    BY <1>4 DEF OpenProcess
  <2>2. Moves(c, Search(pid, 0, NULL)) /\ Search(pid, 0, NULL).at = "search"
    BY <1>3, <2>1, SearchFields, Constants
  <2> QED
    BY <1>4, <2>2 DEF Moves
<1>5. CASE SnapProcess(c)
  <2>1. PICK t \in Thread : Moves(c, t) /\ t.kind = Snapshot /\ t.at \in {"size", "scan"}
    BY <1>5, CreateMoves DEF SnapProcess, Before, Quiet, Kinds
  <2>2. Goal
    BY <1>2, <2>1 DEF Process, Snapshot
  <2> QED
    BY <2>2
<1>6. CASE CloseHandle(c)
  <2>1. PICK n \in Slots : Goto(c, [Idle EXCEPT !.at = "close", !.i = held[c][n].h])
    BY <1>6 DEF CloseHandle
  <2>2. PICK h : h = held[c][n].h
    OBVIOUS
  <2>3. [Idle EXCEPT !.at = "close", !.i = h].at = "close"
    BY DEF Idle
  <2>4. Goal
    BY <1>2, <1>3, <2>1, <2>2, <2>3 DEF FirstTime, Creating
  <2> QED
    BY <2>4
<1>7. CASE UseHandle(c)
  <2>1. PICK d \in Conn, n \in Slots :
          Goto(c, [Idle EXCEPT !.at = "look", !.i = held[d][n].h])
    BY <1>7 DEF UseHandle
  <2>2. PICK h : h = held[d][n].h
    OBVIOUS
  <2>3. [Idle EXCEPT !.at = "look", !.i = h].at = "look"
    BY DEF Idle
  <2>4. Goal
    BY <1>2, <1>3, <2>1, <2>2, <2>3 DEF FirstTime, Creating
  <2> QED
    BY <2>4
<1>8. ASSUME Returns(c) PROVE Goal
  BY <1>2, <1>3, <1>8, IdleFields DEF Returns, FirstTime, Creating
<1>9. ASSUME NEW place \in {"deref", "ref", "alloc", "zero", "scan", "pointer", "type", "close", "recheck", "free"},
             Goto(c, [u EXCEPT !.at = place])
      PROVE  /\ \A d \in Conn : d # c => th'[d] = th[d]
             /\ th'[c].at = place
  <2>1. [u EXCEPT !.at = place].at = place
    BY DEF Thread
  <2> QED
    BY <1>3, <1>9, <2>1 DEF Moves
<1>10. CASE SearchSpot(c)
  <2>1. CASE Create(c, Process, u.pid)
    <3>1. u.pid \in Pid \cup {NULL} /\ Process \in Kinds
      BY ThreadFields DEF Kinds
    <3>2. PICK t \in Thread : Moves(c, t) /\ t.at \in {"size", "scan"}
      BY <2>1, <3>1, CreateMoves DEF Before, Quiet
    <3> QED
      BY <1>10, <3>2 DEF Moves
  <2>2. CASE Returns(c)
    BY <1>8, <2>2
  <2>3. CASE Goto(c, [u EXCEPT !.at = "deref"])
    BY <1>9, <1>10, <2>3
  <2>4. CASE Goto(c, [u EXCEPT !.i = u.i + 1])
    <3>1. u.at = "search" /\ [u EXCEPT !.i = u.i + 1].at = u.at
      BY <1>1, <1>10 DEF SearchSpot, At, Thread
    <3> QED
      BY <1>3, <1>10, <2>4, <3>1 DEF Moves
  <2> QED
    BY <1>1, <1>10, <2>1, <2>2, <2>3, <2>4 DEF SearchSpot, NotFound
<1>11. CASE Compare(c)
  <2>1. CASE Goto(c, [u EXCEPT !.at = "ref"])
    BY <1>9, <1>11, <2>1
  <2>2. CASE Goto(c, [u EXCEPT !.at = "search", !.i = u.i + 1])
    <3>1. [u EXCEPT !.at = "search", !.i = u.i + 1].at = "search"
      BY DEF Thread
    <3> QED
      BY <1>3, <1>11, <2>2, <3>1 DEF Moves
  <2> QED
    BY <1>1, <1>11, <2>1, <2>2 DEF Compare
<1>12. CASE ReadCount(c)
  <2>1. PICK p, n : Goto(c, [u EXCEPT !.at = "refwrite", !.p = p, !.n = n])
    BY <1>1, <1>12 DEF ReadCount
  <2>2. [u EXCEPT !.at = "refwrite", !.p = p, !.n = n].at = "refwrite"
    BY DEF Thread
  <2>3. Goal
    BY <1>2, <1>3, <2>1, <2>2 DEF FirstTime, Creating
  <2> QED
    BY <2>3
<1>13. CASE AddReference(c)
  <2>1. Returns(c) \/ Goto(c, [u EXCEPT !.at = "close"])
    BY <1>1, <1>13 DEF AddReference
  <2>2. ASSUME Goto(c, [u EXCEPT !.at = "close"]) PROVE Goal
    BY <1>9, <2>2 DEF Opening, FirstTime, Creating
  <2> QED
    BY <1>8, <2>1, <2>2
<1>14. CASE MakeTable(c)
  <2>1. \E place \in {"alloc", "zero", "scan"} : Goto(c, [u EXCEPT !.at = place])
    BY <1>1, <1>14 DEF MakeTable
  <2> QED
    BY <1>9, <1>14, <2>1
<1>15. CASE Scan(c)
  <2>1. CASE Goto(c, [u EXCEPT !.at = "pointer"])
    BY <1>9, <1>15, <2>1
  <2>2. CASE Goto(c, [u EXCEPT !.i = u.i + 1])
    <3>1. u.at = "scan" /\ [u EXCEPT !.i = u.i + 1].at = u.at
      BY <1>1, <1>15 DEF Scan, At, Thread
    <3> QED
      BY <1>3, <1>15, <2>2, <3>1 DEF Moves
  <2> QED
    BY <1>1, <1>15, <2>1, <2>2 DEF Scan
<1>16. CASE WritePointer(c)
  <2>1. Goto(c, [u EXCEPT !.at = "type"])
    BY <1>1, <1>16 DEF WritePointer
  <2> QED
    BY <1>9, <1>16, <2>1
<1>17. CASE WriteType(c)
  <2>1. \/ \E ml \in FreeCells : Goto(c, Search(u.pid, u.i, ml))
        \/ Returns(c)
        \/ Goto(c, [u EXCEPT !.at = "close"])
    BY <1>1, <1>17 DEF WriteType
  <2>2. ASSUME Goto(c, [u EXCEPT !.at = "close"]) PROVE Goal
    BY <1>9, <2>2 DEF Opening, FirstTime, Creating
  <2>3. ASSUME NEW ml \in FreeCells, Goto(c, Search(u.pid, u.i, ml)) PROVE Goal
    <3>1. Search(u.pid, u.i, ml).at = "search" /\ Search(u.pid, u.i, ml).result = u.i
      BY DEF Search, Idle
    <3>2. u.i # 0
      BY ThreadFields, Constants
    <3> QED
      BY <1>2, <1>3, <2>3, <3>1, <3>2
  <2> QED
    BY <1>8, <2>1, <2>2, <2>3
<1>18. ASSUME Closed(c, th[c]) PROVE Goal
  <2>1. \/ \E t \in Thread : Moves(c, t) /\ t.at = "scan" /\ t.kind = Module
        \/ Moves(c, Idle)
    BY <1>18, ClosedMoves DEF Before, Quiet
  <2> QED
    BY <1>2, <2>1, IdleFields DEF FirstTime, Creating, Process, Module
<1>19. CASE LookUp(c)
  <2>1. Closed(c, th[c]) \/
        \E k, p, n : Goto(c, [u EXCEPT !.at = "closewrite", !.kind = k, !.p = p, !.n = n])
    BY <1>1, <1>19 DEF LookUp
  <2>2. ASSUME NEW k, NEW p, NEW n, Goto(c, [u EXCEPT !.at = "closewrite", !.kind = k, !.p = p, !.n = n])
        PROVE  Goal
    <3>1. [u EXCEPT !.at = "closewrite", !.kind = k, !.p = p, !.n = n].at = "closewrite"
      BY DEF Thread
    <3> QED
      BY <1>2, <1>3, <2>2, <3>1 DEF FirstTime, Creating
  <2> QED
    BY <1>18, <2>1, <2>2
<1>20. CASE DropReference(c)
  <2>1. Goto(c, [u EXCEPT !.at = "recheck"])
    BY <1>1, <1>20 DEF DropReference
  <2>2. Goal
    BY <1>9, <2>1 DEF Opening, FirstTime, Creating
  <2> QED
    BY <2>2
<1>24. CASE RereadCount(c)
  <2>1. Closed(c, th[c]) \/ Goto(c, [u EXCEPT !.at = "free"])
    BY <1>1, <1>24 DEF RereadCount
  <2>2. ASSUME Goto(c, [u EXCEPT !.at = "free"]) PROVE Goal
    BY <1>9, <2>2 DEF Opening, FirstTime, Creating
  <2> QED
    BY <1>18, <2>1, <2>2
<1>21. CASE Free(c)
  <2>1. Goto(c, [u EXCEPT !.at = "remove"])
    BY <1>1, <1>21 DEF Free
  <2>2. [u EXCEPT !.at = "remove"].at = "remove"
    BY DEF Thread
  <2> QED
    BY <1>3, <1>21, <2>1, <2>2 DEF Moves, Opening, FirstTime, Creating
<1>22. CASE RemoveHandle(c)
  BY <1>18, <1>22 DEF RemoveHandle
<1>23. CASE UseProcess(c)
  BY <1>8, <1>23 DEF UseProcess
<1>25. CASE LookPointer(c)
  <2>1. PICK p : Goto(c, [u EXCEPT !.at = "use", !.p = p])
    BY <1>1, <1>25 DEF LookPointer
  <2>2. [u EXCEPT !.at = "use", !.p = p].at = "use"
    BY DEF Thread
  <2>3. Goal
    BY <1>2, <1>3, <2>1, <2>2 DEF FirstTime, Creating
  <2> QED
    BY <2>3
<1> QED
  BY <1>4, <1>5, <1>6, <1>7, <1>10, <1>11, <1>12, <1>13, <1>14, <1>15, <1>16, <1>17,
     <1>19, <1>20, <1>21, <1>22, <1>23, <1>24, <1>25 DEF Begin, Step


\* An entry that leads to an object stays, until the object is given up.
LEMMA EntryStays ==
  ASSUME Before, NEW c \in Conn, Begin(c) \/ Step(c), ~Faults(c), NEW h \in Handles, Live(h)
  PROVE  HandleList'[h] = HandleList[h]
<1>1. PICK u \in Thread : u = th[c] /\ Local(u)
  BY DEF Before, Quiet, Typed, TypeOK, Good
<1>2. HandleList[h].type # "htEmpty" /\ ~Dying(h) /\ HandleList[h] # EmptyEntry
  BY DEF Live, EmptyEntry
<1>3. CASE MakeTable(c)
  <2>1. CASE At(c, "size")
    BY <1>3, <2>1 DEF MakeTable, At
  <2>2. CASE ~At(c, "size")
    <3>1. table # "zeroed"
      BY <1>3, <2>2 DEF MakeTable, FirstTime, At, Before, Good, Phases
    <3> QED
      BY <1>2, <3>1 DEF Before, Good, Phases
  <2> QED
    BY <2>1, <2>2
<1>4. CASE WritePointer(c) \/ WriteType(c)
  <2>1. u.at \in {"pointer", "type"}
    BY <1>1, <1>4 DEF WritePointer, WriteType, At
  <2>2. u.i # h
    BY <1>1, <1>2, <2>1 DEF Local, MakesGood
  <2>3. \/ HandleList' = [HandleList EXCEPT ![u.i].pointer = u.p]
        \/ HandleList' = [HandleList EXCEPT ![u.i].type = u.kind]
    BY <1>1, <1>4 DEF WritePointer, WriteType, WriteEntry
  <2> QED
    BY <2>2, <2>3 DEF Before, Quiet, Typed, TypeOK
<1>5. CASE RemoveHandle(c)
  <2>1. u.i # h
    BY <1>1, <1>2, <1>5 DEF RemoveHandle, Dying
  <2>2. HandleList' = [HandleList EXCEPT ![u.i].type = "htEmpty"]
    BY <1>1, <1>5 DEF RemoveHandle
  <2> QED
    BY <2>1, <2>2 DEF Before, Quiet, Typed, TypeOK
<1>6. CASE ~(MakeTable(c) \/ WritePointer(c) \/ WriteType(c) \/ RemoveHandle(c))
  <2>1. CASE Begin(c)
    BY <2>1 DEF Begin, OpenProcess, SnapProcess, CloseHandle, UseHandle
  <2>2. CASE SearchSpot(c) \/ Compare(c) \/ ReadCount(c) \/ AddReference(c) \/ Scan(c)
    BY <2>2 DEF SearchSpot, NotFound, Compare, ReadCount, AddReference, Scan
  <2>3. CASE LookUp(c) \/ DropReference(c) \/ RereadCount(c) \/ Free(c) \/ LookPointer(c) \/ UseProcess(c)
    BY <2>3 DEF LookUp, DropReference, RereadCount, Free, LookPointer, UseProcess
  <2> QED
    BY <1>6, <2>1, <2>2, <2>3 DEF Step
<1> QED
  BY <1>3, <1>4, <1>5, <1>6

\* So a handle goes on to name its object as long as there is one.
LEMMA NamesStay ==
  ASSUME Before, NEW c \in Conn, Begin(c) \/ Step(c), ~Faults(c),
         NEW h \in Handles, NEW p \in Ptr, Names(h, p), heap'[p].kind # "free"
  PROVE  Names(h, p)'
<1>1. Live(h) /\ HandleList[h].pointer = p /\ HandleList'[h] = HandleList[h]
  BY EntryStays DEF Names
<1>2. ASSUME NEW d \in Conn, th'[d].at = "remove", th'[d].i = h PROVE FALSE
  <2>1. CASE d # c
    BY <1>1, <1>2, <2>1, WhereTo DEF Live, Dying, At
  <2>2. CASE d = c
    <3>1. Free(c)
      BY <1>2, <2>2, WhereTo
    <3>2. PICK u \in Thread : u = th[c]
      BY DEF Before, Quiet, Typed, TypeOK
    <3>3. u.at = "free" /\ heap' = [heap EXCEPT ![u.p] = Freed] /\ Goto(c, [u EXCEPT !.at = "remove"])
      BY <3>1, <3>2 DEF Free, At
    <3>4. th'[c] = [u EXCEPT !.at = "remove"]
      BY <3>3 DEF Goto, Before, Quiet, Typed, TypeOK
    <3>5. u.i = h
      BY <1>2, <2>2, <3>4 DEF Thread
    <3>6. HandleList[u.i].pointer = u.p /\ u.p \in Ptr
      BY <3>2, <3>3, FoundNames
    <3>7. heap'[p].kind = "free"
      BY <1>1, <3>3, <3>5, <3>6 DEF Before, Quiet, Typed, TypeOK, Freed
    <3> QED
      BY <3>7
  <2> QED
    BY <2>1, <2>2
<1> QED
  BY <1>1, <1>2 DEF Names, Live, Dying, At

\* Thread c has not found process `pid` in the table and makes p for it.
NewProcess(c, p, pid) ==
  /\ SearchSpot(c) /\ (NoTable \/ th[c].i > Spots)
  /\ th[c].at = "search" /\ th[c].pid = pid /\ th[c].kind = Process /\ th[c].result = 0
  /\ Makes(th'[c]) /\ th'[c].p = p /\ th'[c].pid = pid /\ th'[c].kind = Process /\ th'[c].result = 0

\* That is the only way to a new ProcessData.
LEMMA ProcessesStay ==
  ASSUME Before, NEW c \in Conn, Begin(c) \/ Step(c), ~Faults(c), NEW p \in Ptr, NEW pid \in Pid,
         heap'[p].kind = Process, heap'[p].pid = pid
  PROVE  (heap[p].kind = Process /\ heap[p].pid = pid) \/ NewProcess(c, p, pid)
<1>1. PICK u \in Thread : u = th[c] /\ Local(u)
  BY DEF Before, Quiet, Typed, TypeOK, Good
<1>2. heap \in [Ptr -> [kind : Kinds \cup {"free"}, pid : Pid \cup {NULL}, rc : Int]]
  BY DEF Before, Quiet, Typed, TypeOK
<1>3. CASE heap' = heap
  BY <1>3
<1>4. ASSUME NEW q, NEW n, heap' = [heap EXCEPT ![q].rc = n]
      PROVE  heap'[p].kind = heap[p].kind /\ heap'[p].pid = heap[p].pid
  BY <1>2, <1>4
<1>5. ASSUME NEW q, NEW o, heap' = [heap EXCEPT ![q] = o], o.kind # Process
      PROVE  heap'[p] = heap[p]
  <2>1. q # p
    BY <1>2, <1>5
  <2> QED
    BY <1>2, <1>5, <2>1
<1>6. CASE SnapProcess(c)
  <2>1. PICK q \in FreeCells : heap' = [heap EXCEPT ![q] = Object(Snapshot, NULL)]
    BY <1>6 DEF SnapProcess, Create
  <2>2. Object(Snapshot, NULL).kind # Process
    BY DEF Object, Process, Snapshot
  <2> QED
    BY <1>5, <2>1, <2>2
<1>7. CASE SearchSpot(c) /\ heap' # heap
  <2>1. u.at = "search" /\ (NoTable \/ u.i > Spots)
    BY <1>1, <1>7 DEF SearchSpot, At, Faults
  <2>2. u.result = 0 /\ Create(c, Process, u.pid)
    BY <1>1, <1>7, <2>1 DEF SearchSpot, NotFound
  <2>3. u.kind = Process /\ u.pid # NULL /\ u.pid \in Pid \cup {NULL} /\ Process \in Kinds
    BY <1>1, <2>1, ThreadFields DEF Local, FindsGood, Searching, Kinds
  <2>4. PICK q \in FreeCells, t \in Thread :
          /\ heap' = [heap EXCEPT ![q] = Object(Process, u.pid)]
          /\ Moves(c, t)
          /\ t.at = (IF table \in {"null", "sized"} THEN "size" ELSE "scan")
          /\ t.pid = u.pid /\ t.kind = Process /\ t.p = q /\ t.result = 0
    BY <2>2, <2>3, CreateMoves DEF Before, Quiet
  <2>5. CASE q = p
    <3>1. heap'[p] = Object(Process, u.pid)
      BY <1>2, <2>4, <2>5
    <3>2. u.pid = pid
      BY <3>1 DEF Object
    <3>3. Makes(t)
      BY <2>4 DEF Makes, FirstTime, Creating
    <3> QED
      BY <1>1, <1>7, <2>1, <2>2, <2>3, <2>4, <2>5, <3>2, <3>3 DEF NewProcess, Moves
  <2>6. CASE q # p
    BY <1>2, <2>4, <2>6
  <2> QED
    BY <2>5, <2>6
<1>8. CASE AddReference(c)
  BY <1>1, <1>4, <1>8 DEF AddReference
<1>9. CASE DropReference(c)
  BY <1>1, <1>4, <1>9 DEF DropReference
<1>10. CASE Free(c)
  <2>1. heap' = [heap EXCEPT ![u.p] = Freed] /\ Freed.kind # Process
    BY <1>1, <1>10 DEF Free, Freed, Process
  <2> QED
    BY <1>5, <2>1
<1>11. CASE WriteType(c)
  <2>1. CASE \E q \in FreeCells : heap' = [heap EXCEPT ![q] = Object(Module, NULL)]
    <3>1. PICK q \in FreeCells : heap' = [heap EXCEPT ![q] = Object(Module, NULL)]
      BY <2>1
    <3>2. Object(Module, NULL).kind # Process
      BY DEF Object, Process, Module
    <3> QED
      BY <1>5, <3>1, <3>2
  <2>2. CASE heap' = heap
    BY <2>2
  <2> QED
    BY <1>11, <2>1, <2>2 DEF WriteType
<1>12. CASE ~(SnapProcess(c) \/ SearchSpot(c) \/ AddReference(c) \/ DropReference(c) \/ Free(c) \/ WriteType(c))
  <2>1. CASE Begin(c)
    BY <1>3, <1>12, <2>1 DEF Begin, OpenProcess, CloseHandle, UseHandle
  <2>2. CASE Compare(c) \/ ReadCount(c) \/ MakeTable(c) \/ Scan(c) \/ WritePointer(c)
    BY <1>3, <2>2 DEF Compare, ReadCount, MakeTable, Scan, WritePointer
  <2>3. CASE LookUp(c) \/ RereadCount(c) \/ RemoveHandle(c) \/ LookPointer(c) \/ UseProcess(c)
    BY <1>3, <2>3 DEF LookUp, RereadCount, RemoveHandle, LookPointer, UseProcess
  <2> QED
    BY <1>12, <2>1, <2>2, <2>3 DEF Step
<1> QED
  BY <1>3, <1>6, <1>7, <1>8, <1>9, <1>10, <1>11, <1>12


\* Two calls that make no handle yet open different processes, as long as none
\* have met,
LEMMA OpenApart ==
  ASSUME RacesSeen, races = {}, NEW c \in Conn, NEW d \in Conn, c # d, Opening(c), Opening(d)
  PROVE  th[c].pid # th[d].pid
<1>1. "open" \notin Overlaps
  BY DEF RacesSeen
<1>2. <<c, d>> \in Pairs /\ <<c, d>>[1] = c /\ <<c, d>>[2] = d
  BY DEF Pairs
<1> QED
  BY <1>1, <1>2 DEF Overlaps, OpenOverlap

\* and afterwards.
LEMMA OpenApartNext ==
  ASSUME RacesSeen', races' = {}, NEW c \in Conn, NEW d \in Conn, c # d, Opening(c)', Opening(d)'
  PROVE  th'[c].pid # th'[d].pid
<1>1. "open" \notin Overlaps'
  BY DEF RacesSeen
<1>2. <<c, d>> \in Pairs /\ <<c, d>>[1] = c /\ <<c, d>>[2] = d
  BY DEF Pairs
<1>3. ~OpenOverlap(c, d)'
  BY <1>1, <1>2 DEF Overlaps
<1> QED
  BY <1>3 DEF OpenOverlap

\* Where a search ends, the process has no ProcessData.
LEMMA NoneYetMade ==
  ASSUME Before, Unique, NEW c \in Conn, NEW p \in Ptr, NEW pid \in Pid, NewProcess(c, p, pid)
  PROVE  Processes(pid) = {}
<1>1. ASSUME NEW q \in Processes(pid) PROVE FALSE
  <2>1. Opening(c) /\ ~Makes(th[c])
    BY DEF NewProcess, Opening, Makes, FirstTime, Creating
  <2>2. PICK h \in Handles : Names(h, q) /\ th[c].i <= h
    BY <2>1 DEF Unique, NewProcess
  <2>3. ~NoTable
    <3>1. NoTable => HandleList[h] = EmptyEntry
      BY DEF Before, Good, Phases, NoTable
    <3> QED
      BY <2>2, <3>1 DEF Names, Live, EmptyEntry
  <2>4. th[c].i \in 1 .. Spots + 1
    BY ThreadFields DEF Before, Quiet, Typed, TypeOK
  <2> QED
    BY <2>2, <2>3, <2>4, Constants DEF NewProcess, Handles
<1> QED
  BY <1>1

\* A ProcessData is named by its handle, or it is being made by a call that opens
\* its process.
LEMMA NamedOrMade ==
  ASSUME Before, NEW pid \in Pid, NEW p \in Processes(pid)
  PROVE  \/ \E h \in Handles : Names(h, p)
         \/ \E e \in Conn : Makes(th[e]) /\ Opening(e) /\ th[e].pid = pid /\ th[e].p = p
<1>1. p \in Ptr /\ heap[p].kind = Process /\ heap[p].pid = pid /\ heap[p] # Freed /\ Process # Module
  BY DEF Processes, Freed, Process, Module
<1>2. ASSUME NEW e \in Conn, Own(e) = p
      PROVE  Makes(th[e]) /\ Opening(e) /\ th[e].pid = pid /\ th[e].p = p
  <2>1. Own(e) # NULL /\ Local(th[e])
    BY <1>1, <1>2, Constants DEF Before, Good
  <2>2. Makes(th[e])
    BY <1>1, <1>2, <2>1 DEF Own, OwnOf, Local, MakesGood, IsObject, Process, Module
  <2>3. th[e].p = p /\ th[e].kind = Process
    BY <1>1, <1>2, <2>1, <2>2 DEF Own, OwnOf, Local, MakesGood, IsObject
  <2>4. th[e].pid = pid /\ th[e].result = 0
    BY <1>1, <2>1, <2>2, <2>3 DEF Local, MakesGood, Process, Module
  <2> QED
    BY <2>2, <2>3, <2>4 DEF Opening, Makes
<1> QED
  BY <1>1, <1>2 DEF Before, Good, NoneLost

\* The handle of a process is none of a search that has gone past it.
LEMMA HandleOfProcess ==
  ASSUME Before, NEW h \in Handles, NEW pid \in Pid, NEW p \in Processes(pid), Names(h, p)
  PROVE  TypeOf(h) = Process /\ HandleList[h].pointer = p /\ heap[p].pid = pid
<1>1. Live(h) /\ HandleList[h].pointer = p
  BY DEF Names
<1>2. HandleList[h].type = Process /\ heap[p].pid = pid
  BY <1>1, LiveNames DEF Processes
<1>3. ~NoTable
  BY <1>2 DEF Before, Good, Phases, NoTable, EmptyEntry, Process
<1> QED
  BY <1>1, <1>2, <1>3 DEF TypeOf

\* What Unique says of one call and one object.
Ahead(c, p) ==
  \/ Makes(th[c]) /\ th[c].p = p
  \/ ~Makes(th[c]) /\ \E h \in Handles : Names(h, p) /\ th[c].i <= h

\* A call that goes on with OpenProcess still has the handle before it.
LEMMA AheadStays ==
  ASSUME Before, Quiet', races = {}, races' = {}, Unique, NEW c \in Conn, Begin(c) \/ Step(c), ~Faults(c),
         NEW pid \in Pid, NEW p \in Processes(pid), heap'[p].kind = Process,
         Opening(c)', th'[c].pid = pid
  PROVE  Ahead(c, p)'
<1> DEFINE Ready == Opening(c) /\ th[c].pid = pid => Ahead(c, p)
<1>1. Ready
  BY DEF Unique, Ahead
<1>2. PICK u \in Thread : u = th[c]
  BY DEF Before, Quiet, Typed, TypeOK
<1>3. \A h \in Handles : Names(h, p) => Names(h, p)'
  <2>1. p \in Ptr /\ heap'[p].kind # "free"
    BY DEF Processes, Process
  <2> QED
    BY <2>1, NamesStay
<1>4. ASSUME NEW t, Goto(c, t) PROVE th'[c] = t
  BY <1>4 DEF Goto, Before, Quiet, Typed, TypeOK
<1>5. u.i \in 1 .. Spots + 1 /\ \A h \in Handles : h \in Nat /\ h >= 1
  BY ThreadFields, Constants
<1>6. ASSUME NEW t, th'[c] = t, ~Makes(t),
             \E h \in Handles : Names(h, p) /\ t.i <= h
      PROVE  Ahead(c, p)'
  BY <1>3, <1>6 DEF Ahead, Makes
<1>7. CASE OpenProcess(c)
  <2>1. PICK q \in Pid : Goto(c, Search(q, 0, NULL))
    BY <1>7 DEF OpenProcess
  <2>2. PICK t : t = Search(q, 0, NULL) /\ t.at = "search" /\ t.i = 1 /\ th'[c] = t
    BY <1>4, <2>1, SearchFields, Constants
  <2>3. ASSUME NEW e \in Conn, Makes(th[e]), Opening(e), th[e].pid = pid PROVE FALSE
    <3>1. th[c].at = "idle"
      BY <1>7 DEF OpenProcess, Begins, At
    <3>2. e # c
      BY <2>3, <3>1 DEF Makes, FirstTime, Creating
    <3>3. th'[e] = th[e]
      BY <3>2, WhereTo
    <3>4. Opening(e)' /\ th'[e].pid = pid
      BY <2>3, <3>3 DEF Opening
    <3> QED
      BY <3>2, <3>4, OpenApartNext DEF Quiet
  <2>4. PICK h \in Handles : Names(h, p)
    BY <2>3, NamedOrMade
  <2>5. t.i <= h /\ ~Makes(t)
    BY <1>5, <2>2 DEF Makes, FirstTime, Creating
  <2> QED
    BY <1>6, <2>2, <2>4, <2>5
<1>8. CASE SearchSpot(c)
  <2>1. u.at = "search"
    BY <1>2, <1>8 DEF SearchSpot, At
  <2>2. CASE NoTable \/ u.i > Spots
    <3>1. Create(c, Process, u.pid) \/ Returns(c)
      BY <1>2, <1>8, <2>2 DEF SearchSpot, NotFound
    <3>2. CASE Returns(c)
      BY <1>4, <3>2, IdleFields DEF Returns, Opening, FirstTime, Creating
    <3>3. CASE Create(c, Process, u.pid)
      <4>1. u.pid \in Pid \cup {NULL} /\ Process \in Kinds
        BY ThreadFields DEF Kinds
      <4>2. PICK q \in FreeCells, t \in Thread :
              /\ Moves(c, t) /\ t.at \in {"size", "scan"} /\ t.pid = u.pid /\ t.kind = Process /\ t.p = q
              /\ t.result = 0
        BY <3>3, <4>1, CreateMoves DEF Before, Quiet
      <4>3. u.kind = Process /\ u.result = 0 /\ u.pid = pid
        <5>1. Local(u)
          BY <1>2 DEF Before, Good
        <5>2. u.kind = Process
          BY <2>1, <5>1 DEF Local, FindsGood, Searching
        <5>3. u.result = 0
          BY <1>2, <1>8, <2>2 DEF SearchSpot, NotFound
        <5> QED
          BY <4>2, <5>2, <5>3 DEF Moves
      <4>4. NewProcess(c, q, pid)
        BY <1>2, <1>8, <2>1, <2>2, <4>2, <4>3 DEF NewProcess, Moves, Makes, FirstTime, Creating
      <4>5. Processes(pid) = {}
        BY <4>2, <4>4, NoneYetMade DEF FreeCells
      <4> QED
        BY <4>5
    <3> QED
      BY <3>1, <3>2, <3>3
  <2>3. CASE ~(NoTable \/ u.i > Spots)
    <3>1. PICK t : /\ th'[c] = t
                   /\ t.at \in {"search", "deref"} /\ t.pid = u.pid /\ t.kind = u.kind /\ t.result = u.result
                   /\ t.i = IF TypeOf(u.i) = Process THEN u.i ELSE u.i + 1
      <4>1. CASE TypeOf(u.i) = Process
        <5>1. th'[c] = [u EXCEPT !.at = "deref"]
          BY <1>2, <1>4, <1>8, <2>3, <4>1 DEF SearchSpot
        <5>2. PICK t : t = [u EXCEPT !.at = "deref"]
          OBVIOUS
        <5>3. t.at = "deref" /\ t.pid = u.pid /\ t.kind = u.kind /\ t.result = u.result /\ t.i = u.i
          BY <5>2 DEF Thread
        <5> QED
          BY <4>1, <5>1, <5>2, <5>3
      <4>2. CASE TypeOf(u.i) # Process
        <5>1. th'[c] = [u EXCEPT !.i = u.i + 1]
          BY <1>2, <1>4, <1>8, <2>3, <4>2 DEF SearchSpot
        <5>2. PICK t : t = [u EXCEPT !.i = u.i + 1]
          OBVIOUS
        <5>3. t.at = u.at /\ t.pid = u.pid /\ t.kind = u.kind /\ t.result = u.result /\ t.i = u.i + 1
          BY <5>2 DEF Thread
        <5> QED
          BY <2>1, <4>2, <5>1, <5>2, <5>3
      <4> QED
        BY <4>1, <4>2
    <3>2. Opening(c) /\ th[c].pid = pid /\ ~Makes(u)
      BY <1>2, <2>1, <3>1 DEF Opening, Makes, FirstTime, Creating
    <3>3. PICK h \in Handles : Names(h, p) /\ u.i <= h
      BY <1>1, <1>2, <3>2 DEF Ahead
    <3>4. t.i <= h
      <4>1. TypeOf(h) = Process
        BY <3>3, HandleOfProcess
      <4> QED
        BY <1>5, <3>1, <3>3, <4>1
    <3>5. ~Makes(t)
      BY <3>1 DEF Makes, FirstTime, Creating
    <3> QED
      BY <1>6, <3>1, <3>3, <3>4, <3>5
  <2> QED
    BY <2>2, <2>3
<1>9. CASE Compare(c)
  <2>1. u.at = "deref"
    BY <1>2, <1>9 DEF Compare, At
  <2>2. PICK q : q = HandleList[u.i].pointer
    OBVIOUS
  <2>3. CASE heap[q].pid = u.pid
    <3>1. th'[c] = [u EXCEPT !.at = "ref"]
      BY <1>2, <1>4, <1>9, <2>2, <2>3 DEF Compare
    <3>2. [u EXCEPT !.at = "ref"].at = "ref"
      BY DEF Thread
    <3> QED
      BY <3>1, <3>2 DEF Opening, FirstTime, Creating
  <2>4. CASE heap[q].pid # u.pid
    <3>1. th'[c] = [u EXCEPT !.at = "search", !.i = u.i + 1]
      BY <1>2, <1>4, <1>9, <2>2, <2>4 DEF Compare
    <3>2. PICK t : t = [u EXCEPT !.at = "search", !.i = u.i + 1]
      OBVIOUS
    <3>3. t.at = "search" /\ t.pid = u.pid /\ t.kind = u.kind /\ t.result = u.result /\ t.i = u.i + 1
      BY <3>2 DEF Thread
    <3>4. Opening(c) /\ u.pid = pid /\ ~Makes(u) /\ ~Makes(t)
      BY <1>2, <2>1, <3>1, <3>2, <3>3 DEF Opening, Makes, FirstTime, Creating
    <3>5. PICK h \in Handles : Names(h, p) /\ u.i <= h
      BY <1>1, <1>2, <3>4 DEF Ahead
    <3>6. HandleList[h].pointer = p /\ heap[p].pid = pid
      BY <3>5, HandleOfProcess
    <3>7. t.i <= h
      BY <1>5, <2>2, <2>4, <3>3, <3>4, <3>5, <3>6
    <3> QED
      BY <1>6, <3>1, <3>2, <3>4, <3>5, <3>7
  <2> QED
    BY <2>3, <2>4
<1>10. CASE MakeTable(c) \/ Scan(c) \/ WritePointer(c)
  <2>1. Makes(u)
    BY <1>2, <1>10 DEF MakeTable, Scan, WritePointer, At, Makes, Creating
  <2>2. PICK t : /\ th'[c] = t /\ t.pid = u.pid /\ t.kind = u.kind /\ t.result = u.result /\ t.p = u.p
                 /\ t.at \in FirstTime \cup Creating
    <3>1. \/ \E place \in {"alloc", "zero", "scan", "pointer", "type"} : th'[c] = [u EXCEPT !.at = place]
          \/ th'[c] = [u EXCEPT !.i = u.i + 1] /\ u.at = "scan"
      <4>1. CASE MakeTable(c)
        BY <1>2, <1>4, <4>1 DEF MakeTable
      <4>2. CASE Scan(c)
        BY <1>2, <1>4, <4>2 DEF Scan, At
      <4>3. CASE WritePointer(c)
        BY <1>2, <1>4, <4>3 DEF WritePointer
      <4> QED
        BY <1>10, <4>1, <4>2, <4>3
    <3>2. ASSUME NEW place \in {"alloc", "zero", "scan", "pointer", "type"}
          PROVE  LET t == [u EXCEPT !.at = place]
                 IN /\ t.pid = u.pid /\ t.kind = u.kind /\ t.result = u.result /\ t.p = u.p
                    /\ t.at \in FirstTime \cup Creating
      BY <3>2 DEF Thread, FirstTime, Creating
    <3>3. u.at = "scan" =>
            LET t == [u EXCEPT !.i = u.i + 1]
            IN /\ t.pid = u.pid /\ t.kind = u.kind /\ t.result = u.result /\ t.p = u.p
               /\ t.at \in FirstTime \cup Creating
      BY DEF Thread, Creating
    <3> QED
      BY <3>1, <3>2, <3>3
  <2>3. Opening(c) /\ u.pid = pid
    BY <1>2, <2>1, <2>2 DEF Opening, Makes
  <2>4. u.p = p
    BY <1>1, <1>2, <2>1, <2>3 DEF Ahead
  <2> QED
    BY <2>2, <2>4 DEF Ahead, Makes
<1> QED
  BY <1>7, <1>8, <1>9, <1>10, WhereTo


\* No step makes a second ProcessData of a process, while none have met.
LEMMA UniqueStep ==
  ASSUME Before, Quiet', races = {}, races' = {}, Unique, NEW c \in Conn, Begin(c) \/ Step(c), ~Faults(c)
  PROVE  Unique'
<1>1. ASSUME NEW pid \in Pid, NEW p \in Processes(pid)'
      PROVE  p \in Processes(pid) \/ NewProcess(c, p, pid)
  <2>1. p \in Ptr /\ heap'[p].kind = Process /\ heap'[p].pid = pid
    BY DEF Processes
  <2> QED
    BY <2>1, ProcessesStay DEF Processes
<1>2. ASSUME NEW pid \in Pid, NEW p \in Processes(pid)', NEW q \in Processes(pid)'
      PROVE  p = q
  <2>1. p \in Ptr /\ q \in Ptr
    BY DEF Processes
  <2>2. CASE p \in Processes(pid) /\ q \in Processes(pid)
    BY <2>2 DEF Unique
  <2>3. CASE NewProcess(c, p, pid) \/ NewProcess(c, q, pid)
    <3>1. Processes(pid) = {}
      BY <2>1, <2>3, NoneYetMade
    <3>2. NewProcess(c, p, pid) /\ NewProcess(c, q, pid)
      BY <1>1, <3>1
    <3> QED
      BY <3>2 DEF NewProcess
  <2> QED
    BY <1>1, <2>2, <2>3
<1>3. ASSUME NEW pid \in Pid, NEW d \in Conn, NEW p \in Processes(pid)', Opening(d)', th'[d].pid = pid
      PROVE  Ahead(d, p)'
  <2>1. p \in Ptr /\ heap'[p].kind = Process
    BY DEF Processes
  <2>2. CASE NewProcess(c, p, pid)
    <3>1. Opening(c)' /\ th'[c].pid = pid
      BY <2>2 DEF NewProcess, Opening, Makes
    <3>2. d = c
      BY <1>3, <3>1, OpenApartNext DEF Quiet
    <3> QED
      BY <2>2, <3>2 DEF NewProcess, Ahead, Makes
  <2>3. CASE p \in Processes(pid) /\ d = c
    BY <1>3, <2>1, <2>3, AheadStays
  <2>4. CASE p \in Processes(pid) /\ d # c
    <3>1. th'[d] = th[d]
      BY <2>4, WhereTo
    <3>2. Opening(d) /\ th[d].pid = pid
      BY <1>3, <3>1 DEF Opening
    <3>3. Ahead(d, p)
      BY <2>4, <3>2 DEF Unique, Ahead
    <3>4. \A h \in Handles : Names(h, p) => Names(h, p)'
      <4>1. heap'[p].kind # "free"
        BY <2>1 DEF Process
      <4> QED
        BY <2>1, <4>1, NamesStay
    <3> QED
      BY <3>1, <3>3, <3>4 DEF Ahead, Makes
  <2> QED
    BY <1>1, <2>2, <2>3, <2>4
<1> QED
  BY <1>2, <1>3 DEF Unique, Ahead

-----------------------------------------------------------------------------
(* The invariant.                                                           *)

\* At the beginning the table, the memory and the hands of the clients are empty.
LEMMA InitGood ==
  ASSUME Init
  PROVE  IInv
<1>1. Typed
  BY TypedInvariant
<1>2. /\ \A c \in Conn : th[c] = Idle
      /\ \A c \in Conn, n \in Slots : held[c][n] = Nothing
      /\ \A h \in Handles : HandleList[h] = EmptyEntry
      /\ \A p \in Ptr : heap[p] = Freed
      /\ table = "null" /\ races = {} /\ fault = FALSE
  BY DEF Init
<1>3. \A c \in Conn : /\ th[c].at = "idle" /\ th[c].result = 0 /\ HandOf(th[c]) = 0 /\ Own(c) = NULL
                      /\ Local(th[c])
  BY <1>2, IdleFields, IdleLocal DEF Own
<1>4. \A c \in Conn, n \in Slots : held[c][n].h = 0
  BY <1>2 DEF Nothing
<1>5. \A h \in Handles : HandleList[h].type = "htEmpty" /\ ~Live(h)
  BY <1>2 DEF EmptyEntry, Live
<1>6. Overlaps = {}
  <2>1. \A c, d \in Conn : /\ ~FirstOverlap(c, d) /\ ~SpotOverlap(c, d) /\ ~CountOverlap(c, d)
                           /\ ~LastOverlap(c, d) /\ ~OpenOverlap(c, d) /\ ~SpotGone(c)
    BY <1>3 DEF FirstOverlap, SpotOverlap, CountOverlap, LastOverlap, OpenOverlap, SpotGone, Opening, At,
                FirstTime, Creating
  <2> QED
    BY <2>1 DEF Overlaps, Pairs
<1>7. Phases
  BY <1>2, <1>3, <1>4 DEF Phases, BadTable, At
<1>8. EntriesGood /\ OwnApart /\ EndsGood /\ RefsGood /\ CountsGood /\ NoneLeft /\ NoneLost
  BY <1>2, <1>3, <1>4, <1>5 DEF EntriesGood, OwnApart, EndsGood, Ending, RefsGood, CountsGood, NoneLeft,
                                NoneLost
<1>9. Unique
  <2>1. \A pid \in Pid : Processes(pid) = {}
    BY <1>2 DEF Processes, Freed, Process
  <2> QED
    BY <2>1 DEF Unique
<1> QED
  BY <1>1, <1>2, <1>3, <1>6, <1>7, <1>8, <1>9 DEF IInv, RacesSeen, Good

\* Every step keeps it.
LEMMA StepKeeps ==
  ASSUME IInv, [Next]_vars
  PROVE  IInv'
<1>1. Typed'
  BY TypedInvariant DEF IInv
<1>2. CASE UNCHANGED vars
  <2>1. UNCHANGED <<HandleList, table, heap, th, held, races, fault>>
    BY <1>2 DEF vars
  <2>2. Overlaps' = Overlaps
    BY <2>1 DEF Overlaps, FirstOverlap, SpotOverlap, SpotGone, CountOverlap, LastOverlap, OpenOverlap,
                Opening, At
  <2>3. \A h : (Live(h)' <=> Live(h)) /\ Refs(h)' = Refs(h)
    BY <2>1 DEF Live, Dying, Refs, RefOf, HandOf, At
  <2>4. \A c \in Conn : Own(c)' = Own(c) /\ (Local(th[c])' <=> Local(th[c]))
    BY <2>1 DEF Own, OwnOf, Makes, HasList, Local, MakesGood, FindsGood, ClosesGood, IsObject
  <2>5. Good => Good'
    BY <2>1, <2>3, <2>4 DEF Good, Phases, BadTable, EntriesGood, OwnApart, EndsGood, RefsGood, CountsGood,
                            NoneLeft, NoneLost, Names, Gives, IsObject, At
  <2>6. Unique => Unique'
    BY <2>1, <2>3 DEF Unique, Processes, Opening, Makes, Names
  <2> QED
    BY <1>1, <2>1, <2>2, <2>5, <2>6 DEF IInv, RacesSeen, Clean, Among
<1>3. CASE Next
  <2>1. ~fault /\ races' = races \cup Overlaps'
    BY <1>3 DEF Next
  <2>2. RacesSeen'
    BY <2>1 DEF RacesSeen
  <2>3. PICK c \in Conn : Begin(c) \/ Step(c)
    BY <1>3 DEF Next
  <2>4. ASSUME Clean' PROVE Before /\ Quiet' /\ Good' /\ ~fault' /\ ~Faults(c)
    <3>1. Clean
      BY <2>1, <2>4 DEF Clean, Among
    <3>2. Before /\ Quiet'
      BY <1>1, <2>2, <2>4, <3>1 DEF IInv, Before, Quiet
    <3>3. Good' /\ fault' = fault
      BY <2>3, <3>2, StepGood
    <3> QED
      BY <2>1, <3>2, <3>3 DEF Faults
  <2>5. ASSUME races' = {} PROVE Unique'
    <3>1. races = {} /\ Clean'
      BY <2>1, <2>5 DEF Clean, Among
    <3> QED
      BY <2>3, <2>4, <2>5, <3>1, UniqueStep DEF IInv
  <2> QED
    BY <1>1, <2>2, <2>4, <2>5 DEF IInv
<1> QED
  BY <1>2, <1>3

\* So it holds.
LEMMA Inductive == Spec => []IInv
<1>1. Init => IInv
  BY InitGood
<1>2. IInv /\ [Next]_vars => IInv'
  BY StepKeeps
<1> QED
  BY <1>1, <1>2, PTL DEF Spec

\* No memory is misused before two calls have met in one of the four ways that
\* hurt.
THEOREM MemorySafe == Spec => []NoFault
<1>1. IInv => NoFault
  BY DEF IInv, Clean, NoFault
<1> QED
  BY <1>1, Inductive, PTL

\* Until two OpenProcess calls, or calls in another way, have met, no process has
\* two ProcessData.
THEOREM OneProcessEach == Spec => []OneProcessData
<1>1. IInv => OneProcessData
  BY DEF IInv, Unique, OneProcessData
<1> QED
  BY <1>1, Inductive, PTL

\* The handle that a client was given goes on to be what it asked for, whatever
\* the other connections do.
THEOREM HandlesOwn == Spec => []HeldIsOwn
<1>1. ASSUME IInv PROVE HeldIsOwn
  <2>1. ASSUME Clean, NEW c \in Conn, NEW n \in Slots, held[c][n] # Nothing,
               NEW h, h = held[c][n].h, NEW pid, pid = held[c][n].pid
        PROVE  /\ HandleList[h].type = (IF pid = NULL THEN Snapshot ELSE Process)
               /\ IsObject(HandleList[h].pointer, HandleList[h].type)
               /\ heap[HandleList[h].pointer].pid = pid
    <3>1. Before
      BY <1>1, <2>1 DEF IInv, Before, Quiet
    <3>2. h \in Handles /\ h # 0
      BY <2>1, <3>1, Constants DEF Before, Quiet, Typed, Placed
    <3>3. Live(h) /\ Gives(h, pid)
      BY <2>1, <3>1, <3>2, RefsGive
    <3> QED
      BY <3>1, <3>2, <3>3 DEF Gives, Before, Good, EntriesGood
  <2> QED
    BY <2>1 DEF HeldIsOwn, Clean
<1> QED
  BY <1>1, Inductive, PTL


\* Between the calls the references to a handle are the slots that hold it.
LEMMA RefsHeld ==
  ASSUME Before, \A c \in Conn : At(c, "idle"), NEW h \in Handles, NEW p \in Ptr, Names(h, p)
  PROVE  Holders(p) = Refs(h)
<1>1. h # 0
  BY Constants
<1>2. ASSUME NEW c \in Conn, NEW n \in Tags, RefOf(c, n) = h
      PROVE  n \in Slots /\ held[c][n].h = h
  <2>1. th[c].result = 0 /\ HandOf(th[c]) = 0
    BY IdleCall DEF At
  <2> QED
    BY <1>1, <1>2, <2>1, RefTags DEF RefOf
<1>3. ASSUME NEW c \in Conn, NEW n \in Slots, held[c][n] # Nothing, HandleList[held[c][n].h].pointer = p
      PROVE  held[c][n].h = h
  <2>1. PICK g : g = held[c][n].h
    OBVIOUS
  <2>2. g \in Handles /\ g # 0
    BY <1>3, <2>1, Constants DEF Before, Quiet, Typed, Placed
  <2>3. Live(g) /\ HandleList[g].pointer = p
    BY <1>3, <2>1, <2>2, RefsGive
  <2>4. g = h
    BY <2>2, <2>3 DEF Names, Before, Good, EntriesGood
  <2> QED
    BY <2>1, <2>4
<1>4. ASSUME NEW x \in Refs(h) PROVE x \in Holders(p)
  <2>1. PICK c \in Conn, n \in Tags : x = <<c, n>> /\ RefOf(c, n) = h
    BY DEF Refs
  <2>2. n \in Slots /\ held[c][n].h = h
    BY <1>2, <2>1
  <2>3. held[c][n] # Nothing
    BY <1>1, <2>2 DEF Nothing
  <2> QED
    BY <2>1, <2>2, <2>3 DEF Holders, Names
<1>5. ASSUME NEW x \in Holders(p) PROVE x \in Refs(h)
  <2>1. PICK c \in Conn, n \in Slots :
          x = <<c, n>> /\ held[c][n] # Nothing /\ HandleList[held[c][n].h].pointer = p
    BY DEF Holders
  <2>2. held[c][n].h = h
    BY <1>3, <2>1
  <2> QED
    BY <2>1, <2>2, RefsAre
<1> QED
  BY <1>4, <1>5

\* Between the calls every object is one that a living handle names, or leaked.
LEMMA ObjectsNamed ==
  ASSUME Before, \A c \in Conn : At(c, "idle"), NEW p \in Ptr
  PROVE  heap[p] = Freed \/ Leaked(p) \/ \E h \in Handles : Names(h, p)
<1>1. \A c \in Conn : Own(c) # p
  BY IdleCall, Constants DEF At
<1>2. \A h \in Handles : HandleList[h].type # "htEmpty" => Live(h)
  BY DEF Live, Dying, At
<1>3. CASE heap[p].kind = Module
  BY <1>2, <1>3 DEF Leaked, Names
<1> QED
  BY <1>1, <1>3 DEF Before, Good, NoneLost

\* Between the calls an object has at least one reference, and as many as clients
\* hold of it: no count is lost or kept, and no object is freed early or left
\* behind, but the module lists of processes whose maps could not be read.
THEOREM CountsBalanced == Spec => []CountsBalance
<1>1. ASSUME IInv PROVE CountsBalance
  <2>1. ASSUME \A c \in Conn : At(c, "idle"), Clean, NEW p \in Ptr
        PROVE  \/ heap[p] = Freed \/ Leaked(p)
               \/ Holders(p) # {} /\ heap[p].rc = Cardinality(Holders(p))
    <3>1. Before
      BY <1>1, <2>1 DEF IInv, Before, Quiet
    <3>2. ASSUME NEW h \in Handles, Names(h, p)
          PROVE  Holders(p) # {} /\ heap[p].rc = Cardinality(Holders(p))
      <4>1. heap[p].rc = Cardinality(Refs(h))
        BY <3>1, <3>2 DEF Names, Before, Good, CountsGood
      <4>2. Refs(h) # {}
        BY <2>1, <3>1, <3>2 DEF Names, Before, Good, NoneLeft, At
      <4> QED
        BY <2>1, <3>1, <3>2, <4>1, <4>2, RefsHeld
    <3> QED
      BY <2>1, <3>1, <3>2, ObjectsNamed
  <2> QED
    BY <2>1 DEF CountsBalance, Clean
<1> QED
  BY <1>1, Inductive, PTL
=============================================================================
