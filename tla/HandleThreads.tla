--------------------------- MODULE HandleThreads ---------------------------
(***************************************************************************)
(* The handle table under the threads of several connections.  porthelp.c  *)
(* and the objects of api.c have no lock, so the calls that HandleTable    *)
(* takes as one step each are taken apart here into the reads and writes   *)
(* of shared memory they are made of: OpenProcess with the module snapshot *)
(* it takes, a process list, CloseHandle, and any command that looks a     *)
(* handle up and then works on the ProcessData.  A read is one step with   *)
(* the read that follows it only where the step is taken from a place      *)
(* where the handle is named already, so that whoever takes it away        *)
(* meets that place.                                                       *)
(*                                                                         *)
(* What goes wrong is undefined behaviour, and a behaviour is not followed *)
(* beyond it: `fault`.  `races` remembers which of the five overlaps that  *)
(* the code leaves open have happened.  The invariants say that these five *)
(* are all there are.                                                      *)
(***************************************************************************)
EXTENDS Integers, FiniteSets

CONSTANTS
  Conn,     \* connections, each with its thread
  Pid,      \* processes the clients open
  Ptr,      \* heap addresses malloc can return
  NULL,     \* the null pointer
  Spots,    \* last spot of the table; large enough that it never fills
  MaxHeld,  \* bound on the handles one connection holds
  MaxCalls, \* bound on the calls of all connections
  MaxRaces  \* bound: kinds of overlap after which a behaviour is still followed

ASSUME ThreadsAssumption ==
  /\ IsFiniteSet(Conn)
  /\ NULL \notin Ptr \cup Pid
  /\ Spots \in Nat \ {0}
  /\ MaxHeld \in Nat
  /\ MaxCalls \in Nat
  /\ MaxRaces \in Nat

VARIABLES
  HandleList,  \* the entries, [type, pointer]
  table,       \* how far the first CreateHandleFromPointer has made the table
  heap,        \* the objects: [kind, pid, rc]
  th,          \* per connection: the call its thread is in
  held,        \* per connection: the handles its client was given, and for what,
               \* in as many slots as it may hold; the same handle can be in two
  calls,       \* calls begun so far
  races,       \* history: overlaps of calls that the code does not exclude
  fault        \* history: memory that is not what the code takes it for was used

vars == <<HandleList, table, heap, th, held, calls, races, fault>>

Process  == "htProcesHandle"
Module   == "htTHSModule"
Snapshot == "htTHSProcess"
Kinds    == {Process, Module, Snapshot}
Handles  == 1 .. Spots

EmptyEntry == [type |-> "htEmpty", pointer |-> NULL]
Freed      == [kind |-> "free", pid |-> NULL, rc |-> 0]
Object(kind, pid) == [kind |-> kind, pid |-> pid, rc |-> 1]

\* Where a thread can be.
Searching == {"search", "deref", "ref", "refwrite"}
FirstTime == {"size", "alloc", "zero"}
Creating  == {"scan", "pointer", "type"}
Closing   == {"close", "closewrite", "recheck", "free", "remove"}
Places    == {"idle", "look", "use"} \cup Searching \cup FirstTime \cup Creating \cup Closing

\* A call: `pid` is the process OpenProcess looks for, `kind` what is created
\* or closed, `i` the spot or handle it is at, `p` the pointer and `n` the count
\* it has in hand.  While OpenProcess takes a snapshot of the first module,
\* `result` is the new process handle and `ml` the module list; 0 and NULL else.
Thread ==
  [at : Places, pid : Pid \cup {NULL}, kind : Kinds, i : 1 .. Spots + 1,
   p : Ptr \cup {NULL}, n : Int, result : 0 .. Spots, ml : Ptr \cup {NULL}]
Idle ==
  [at |-> "idle", pid |-> NULL, kind |-> Process, i |-> 1, p |-> NULL, n |-> 0,
   result |-> 0, ml |-> NULL]

Slots   == 1 .. MaxHeld
Held    == [h : 0 .. Spots, pid : Pid \cup {NULL}]
Nothing == [h |-> 0, pid |-> NULL]

Init ==
  /\ HandleList = [h \in Handles |-> EmptyEntry]
  /\ table = "null"
  /\ heap = [p \in Ptr |-> Freed]
  /\ th = [c \in Conn |-> Idle]
  /\ held = [c \in Conn |-> [n \in Slots |-> Nothing]]
  /\ calls = 0
  /\ races = {}
  /\ fault = FALSE

-----------------------------------------------------------------------------
(* Steps of one thread.                                                     *)

At(c, place) == th[c].at = place
Goto(c, t)   == th' = [th EXCEPT ![c] = t]
Returns(c)   == Goto(c, Idle)

\* The client gets handle h, for process `pid` (NULL: for a process list).
Gets(c, h, pid) ==
  \E n \in Slots :
    /\ held[c][n] = Nothing
    /\ held' = [held EXCEPT ![c][n] = [h |-> h, pid |-> pid]]

\* HandleList_max is still 0, so no handle is in range.
NoTable == table = "null"
\* HandleList is NULL although HandleList_max is not, or is not cleared yet.
BadTable == table \in {"sized", "raw"}

TypeOf(h) == IF NoTable THEN "htEmpty" ELSE HandleList[h].type

\* `kind` is what the code takes the memory at p for.
IsObject(p, kind) == p # NULL /\ heap[p].kind = kind

Faults(c) ==
  /\ fault' = TRUE
  /\ Returns(c)
  /\ UNCHANGED <<HandleList, table, heap, held>>

FreeCells == {p \in Ptr : heap[p].kind = "free"}

\* malloc and the initialisation of a new object, then CreateHandleFromPointer,
\* which first tests HandleList==NULL.
Create(c, kind, pid) ==
  \E p \in FreeCells :
    /\ heap' = [heap EXCEPT ![p] = Object(kind, pid)]
    /\ Goto(c, [Idle EXCEPT !.at = IF table \in {"null", "sized"} THEN "size" ELSE "scan",
                            !.pid = pid, !.kind = kind, !.p = p])

Begins(c) == At(c, "idle")
MayGet(c) == \E n \in Slots : held[c][n] = Nothing

\* Mutant: the search begins with spot 0.
Search_FromZero(pid, result, ml) ==
  [Idle EXCEPT !.at = "search", !.i = 0, !.pid = pid, !.result = result, !.ml = ml]

\* OpenProcess, from the client or from the module snapshot.
Search(pid, result, ml) ==
  [Idle EXCEPT !.at = "search", !.pid = pid, !.result = result, !.ml = ml]

OpenProcess(c) ==
  /\ Begins(c) /\ MayGet(c)
  /\ \E pid \in Pid : Goto(c, Search(pid, 0, NULL))
  /\ UNCHANGED <<HandleList, table, heap, held, fault>>

\* CMD_CREATETOOLHELP32SNAPSHOT with TH32CS_SNAPPROCESS.
SnapProcess(c) ==
  /\ Begins(c) /\ MayGet(c)
  /\ Create(c, Snapshot, NULL)
  /\ UNCHANGED <<HandleList, table, held, fault>>

\* The end of the search without a hit.  The process may not exist (chdir fails);
\* the module snapshot relies on the handle that was made just before.
NotFound(c) ==
  LET t == th[c]
  IN IF t.result # 0 THEN Faults(c)
     ELSE /\ \/ Create(c, Process, t.pid)
             \/ Returns(c) /\ UNCHANGED heap
          /\ UNCHANGED <<HandleList, table, held, fault>>

\* SearchHandleList: one spot.
SearchSpot(c) ==
  /\ At(c, "search")
  /\ LET t == th[c]
     IN IF NoTable \/ t.i > Spots THEN NotFound(c)
        ELSE IF BadTable THEN Faults(c)
        ELSE /\ Goto(c, IF TypeOf(t.i) = Process THEN [t EXCEPT !.at = "deref"]
                                                 ELSE [t EXCEPT !.i = @ + 1])
             /\ UNCHANGED <<HandleList, table, heap, held, fault>>

\* SearchHandleListProcessCallback.
Compare(c) ==
  /\ At(c, "deref")
  /\ LET t == th[c]
         p == HandleList[t.i].pointer
     IN IF ~IsObject(p, Process) THEN Faults(c)
        ELSE /\ Goto(c, IF heap[p].pid = t.pid
                        THEN [t EXCEPT !.at = "ref"]
                        ELSE [t EXCEPT !.at = "search", !.i = @ + 1])
             /\ UNCHANGED <<HandleList, table, heap, held, fault>>

\* GetPointerFromHandle, whose NULL is not looked for, and p->ReferenceCount++.
ReadCount(c) ==
  /\ At(c, "ref")
  /\ LET t == th[c]
         p == IF TypeOf(t.i) = "htEmpty" THEN NULL ELSE HandleList[t.i].pointer
     IN IF ~IsObject(p, Process) THEN Faults(c)
        ELSE /\ Goto(c, [t EXCEPT !.at = "refwrite", !.p = p, !.n = heap[p].rc])
             /\ UNCHANGED <<HandleList, table, heap, held, fault>>

\* Mutant: the module snapshot does not close the process it opened.
AddReference_NoClose(c) ==
  /\ At(c, "refwrite")
  /\ LET t == th[c]
     IN IF ~IsObject(t.p, Process) THEN Faults(c)
        ELSE /\ heap' = [heap EXCEPT ![t.p].rc = t.n + 1]
             /\ \/ /\ t.result = 0
                   /\ Gets(c, t.i, t.pid)
                   /\ Returns(c)
                \/ /\ t.result # 0
                   /\ Goto(c, [t EXCEPT !.at = "scan", !.i = 1, !.kind = Module, !.p = t.ml])
                   /\ UNCHANGED held
             /\ UNCHANGED <<HandleList, table, fault>>

\* The client's OpenProcess returns the handle; the module snapshot reads the
\* modules and closes it again.
AddReference(c) ==
  /\ At(c, "refwrite")
  /\ LET t == th[c]
     IN IF ~IsObject(t.p, Process) THEN Faults(c)
        ELSE /\ heap' = [heap EXCEPT ![t.p].rc = t.n + 1]
             /\ \/ /\ t.result = 0
                   /\ Gets(c, t.i, t.pid)
                   /\ Returns(c)
                \/ /\ t.result # 0
                   /\ Goto(c, [t EXCEPT !.at = "close"])
                   /\ UNCHANGED held
             /\ UNCHANGED <<HandleList, table, fault>>

-----------------------------------------------------------------------------
(* CreateHandleFromPointer.                                                 *)

\* The first call of all makes the table: HandleList_max, malloc, memset.
MakeTable(c) ==
  /\ th[c].at \in FirstTime
  /\ \/ /\ At(c, "size")
        /\ table' = IF table = "null" THEN "sized" ELSE table
        /\ Goto(c, [th[c] EXCEPT !.at = "alloc"])
        /\ UNCHANGED HandleList
     \/ /\ At(c, "alloc")
        /\ table' = "raw"
        /\ HandleList' = [h \in Handles |-> EmptyEntry]
        /\ Goto(c, [th[c] EXCEPT !.at = "zero"])
     \/ /\ At(c, "zero")
        /\ table' = "zeroed"
        /\ HandleList' = [h \in Handles |-> EmptyEntry]
        /\ Goto(c, [th[c] EXCEPT !.at = "scan"])
  /\ UNCHANGED <<heap, held, fault>>

\* A spot whose type is htEmpty is taken; nothing marks it yet.
Scan(c) ==
  /\ At(c, "scan")
  /\ LET t == th[c]
     IN IF BadTable THEN Faults(c)
        ELSE /\ TypeOf(t.i) = "htEmpty" \/ t.i < Spots
             /\ Goto(c, IF TypeOf(t.i) = "htEmpty" THEN [t EXCEPT !.at = "pointer"]
                                                   ELSE [t EXCEPT !.i = @ + 1])
             /\ UNCHANGED <<HandleList, table, heap, held, fault>>

\* Mutant: the type is written before the pointer.
WriteEntry_TypeFirst(c) ==
  LET t == th[c]
  IN HandleList' = IF At(c, "pointer")
                   THEN [HandleList EXCEPT ![t.i].type = t.kind]
                   ELSE [HandleList EXCEPT ![t.i].pointer = t.p]

WriteEntry(c) ==
  LET t == th[c]
  IN HandleList' = IF At(c, "pointer")
                   THEN [HandleList EXCEPT ![t.i].pointer = t.p]
                   ELSE [HandleList EXCEPT ![t.i].type = t.kind]

WritePointer(c) ==
  /\ At(c, "pointer")
  /\ WriteEntry(c)
  /\ Goto(c, [th[c] EXCEPT !.at = "type"])
  /\ UNCHANGED <<table, heap, held, fault>>

\* What follows the new handle: OpenProcess takes a snapshot of the first module,
\* which opens the process again and closes it, and closes the snapshot in the
\* end.  When the maps file cannot be opened there is no snapshot: the module
\* list that was allocated for it stays, and nothing leads to it.
WriteType(c) ==
  /\ At(c, "type")
  /\ WriteEntry(c)
  /\ LET t == th[c]
     IN \/ /\ t.kind = Process
           /\ \E ml \in FreeCells :
                /\ heap' = [heap EXCEPT ![ml] = Object(Module, NULL)]
                /\ \/ Goto(c, Search(t.pid, t.i, ml)) /\ UNCHANGED held
                   \/ Gets(c, t.i, t.pid) /\ Returns(c)
        \/ /\ t.kind = Snapshot
           /\ Gets(c, t.i, t.pid)
           /\ Returns(c)
           /\ UNCHANGED heap
        \/ /\ t.kind = Module
           /\ Goto(c, [t EXCEPT !.at = "close"])
           /\ UNCHANGED <<heap, held>>
  /\ UNCHANGED <<table, fault>>

-----------------------------------------------------------------------------
(* CloseHandle.                                                             *)

\* CMD_CLOSEHANDLE: the client gives up a handle it holds.
CloseHandle(c) ==
  /\ Begins(c)
  /\ \E n \in Slots :
       /\ held[c][n] # Nothing
       /\ held' = [held EXCEPT ![c][n] = Nothing]
       /\ Goto(c, [Idle EXCEPT !.at = "close", !.i = held[c][n].h])
  /\ UNCHANGED <<HandleList, table, heap, fault>>

\* The end of a CloseHandle: of the process, after which the module snapshot gets
\* its handle; of the module snapshot, after which OpenProcess returns; of the
\* client's.
Closed(c, t) ==
  \/ /\ t.result # 0 /\ t.kind = Process
     /\ Goto(c, [t EXCEPT !.at = "scan", !.i = 1, !.kind = Module, !.p = t.ml, !.n = 0])
     /\ UNCHANGED held
  \/ /\ t.result # 0 /\ t.kind = Module
     /\ Gets(c, t.result, t.pid)
     /\ Returns(c)
  \/ /\ t.result = 0
     /\ Returns(c)
     /\ UNCHANGED held

\* GetHandleType, GetPointerFromHandle, and the first half of ReferenceCount--.
\* The reference that is given up keeps the object until the second half.
LookUp(c) ==
  /\ At(c, "close")
  /\ LET t == th[c]
         e == HandleList[t.i]
     IN IF BadTable THEN Faults(c)
        ELSE IF e.type = "htEmpty"
             THEN Closed(c, t) /\ UNCHANGED <<HandleList, table, heap, fault>>
        ELSE IF ~IsObject(e.pointer, e.type) THEN Faults(c)
        ELSE /\ Goto(c, [t EXCEPT !.at = "closewrite", !.kind = e.type,
                                  !.p = e.pointer, !.n = heap[e.pointer].rc])
             /\ UNCHANGED <<HandleList, table, heap, held, fault>>

\* Mutant: the object goes with the last but one reference.
IsLast_TooEarly(n) == n <= 1

IsLast(n) == n <= 0

\* The second half.
DropReference(c) ==
  /\ At(c, "closewrite")
  /\ LET t == th[c]
     IN IF ~IsObject(t.p, t.kind) THEN Faults(c)
        ELSE /\ heap' = [heap EXCEPT ![t.p].rc = t.n - 1]
             /\ Goto(c, [t EXCEPT !.at = "recheck"])
             /\ UNCHANGED <<HandleList, table, held, fault>>

\* The condition that follows reads ReferenceCount once more.
RereadCount(c) ==
  /\ At(c, "recheck")
  /\ LET t == th[c]
     IN IF ~IsObject(t.p, t.kind) THEN Faults(c)
        ELSE /\ IF IsLast(heap[t.p].rc)
                THEN Goto(c, [t EXCEPT !.at = "free"]) /\ UNCHANGED held
                ELSE Closed(c, t)
             /\ UNCHANGED <<HandleList, table, heap, fault>>

\* Mutant: the memory of the object is kept.
Free_Forgets(c) ==
  /\ At(c, "free")
  /\ Goto(c, [th[c] EXCEPT !.at = "remove"])
  /\ UNCHANGED <<HandleList, table, heap, held, fault>>

Free(c) ==
  /\ At(c, "free")
  /\ LET t == th[c]
     IN IF ~IsObject(t.p, t.kind) THEN Faults(c)
        ELSE /\ heap' = [heap EXCEPT ![t.p] = Freed]
             /\ Goto(c, [t EXCEPT !.at = "remove"])
             /\ UNCHANGED <<HandleList, table, held, fault>>

RemoveHandle(c) ==
  /\ At(c, "remove")
  /\ HandleList' = [HandleList EXCEPT ![th[c].i].type = "htEmpty"]
  /\ Closed(c, th[c])
  /\ UNCHANGED <<table, heap, fault>>

-----------------------------------------------------------------------------
(* The commands that take a process handle, of this connection or another   *)
(* one: the type is looked up, then the pointer, then the ProcessData is    *)
(* used.                                                                    *)

UseHandle(c) ==
  /\ Begins(c)
  /\ \E d \in Conn, n \in Slots :
       /\ held[d][n] # Nothing
       /\ IF BadTable THEN Faults(c)
          ELSE LET h == held[d][n].h
               IN /\ HandleList[h].type = Process
                  /\ Goto(c, [Idle EXCEPT !.at = "look", !.i = h])
                  /\ UNCHANGED <<HandleList, table, heap, held, fault>>

\* GetPointerFromHandle looks at the type again; its NULL is not looked for.
LookPointer(c) ==
  /\ At(c, "look")
  /\ Goto(c, [th[c] EXCEPT !.at = "use", !.p = IF TypeOf(th[c].i) = "htEmpty" THEN NULL
                                               ELSE HandleList[th[c].i].pointer])
  /\ UNCHANGED <<HandleList, table, heap, held, fault>>

UseProcess(c) ==
  /\ At(c, "use")
  /\ IF ~IsObject(th[c].p, Process) THEN Faults(c)
     ELSE Returns(c) /\ UNCHANGED <<HandleList, table, heap, held, fault>>

-----------------------------------------------------------------------------
(* The overlaps that nothing in the code excludes.                          *)

\* A thread is in the first CreateHandleFromPointer of all, another in any call.
FirstOverlap(c, d) == th[c].at \in FirstTime /\ ~At(d, "idle")

\* Two threads have found the same spot empty.
SpotOverlap(c, d) ==
  /\ th[c].at \in {"pointer", "type"} /\ th[d].at \in {"pointer", "type"}
  /\ th[c].i = th[d].i
SpotGone(c) == At(c, "pointer") /\ HandleList[th[c].i].type # "htEmpty"

\* Two threads are between the read and the write of one ReferenceCount, or one
\* that closes is while another one that closes has yet to read it again.
CountOverlap(c, d) ==
  /\ th[c].p = th[d].p
  /\ \/ th[c].at \in {"refwrite", "closewrite"} /\ th[d].at \in {"refwrite", "closewrite"}
     \/ At(c, "closewrite") /\ At(d, "recheck")

\* A thread is between the last close of an object and RemoveHandle, another
\* has found its handle.
LastOverlap(c, d) ==
  /\ th[c].at \in {"free", "remove"}
  /\ \/ th[d].at \in {"deref", "ref", "look"} /\ th[d].i = th[c].i
     \/ th[d].at \in {"refwrite", "use"} /\ th[d].p = th[c].p

\* Two threads open one process, and neither has written its handle yet.
Opening(c) ==
  /\ th[c].at \in {"search", "deref"} \cup FirstTime \cup Creating
  /\ th[c].kind = Process /\ th[c].result = 0
OpenOverlap(c, d) == Opening(c) /\ Opening(d) /\ th[c].pid = th[d].pid

Pairs == {x \in Conn \X Conn : x[1] # x[2]}
Overlaps ==
  {k \in {"first", "spot", "count", "last", "open"} :
     \/ k = "first" /\ \E x \in Pairs : FirstOverlap(x[1], x[2])
     \/ k = "spot"  /\ \/ \E x \in Pairs : SpotOverlap(x[1], x[2])
                       \/ \E c \in Conn : SpotGone(c)
     \/ k = "count" /\ \E x \in Pairs : CountOverlap(x[1], x[2])
     \/ k = "last"  /\ \E x \in Pairs : LastOverlap(x[1], x[2])
     \/ k = "open"  /\ \E x \in Pairs : OpenOverlap(x[1], x[2])}

Begin(c) == OpenProcess(c) \/ SnapProcess(c) \/ CloseHandle(c) \/ UseHandle(c)

Step(c) ==
  \/ SearchSpot(c) \/ Compare(c) \/ ReadCount(c) \/ AddReference(c)
  \/ MakeTable(c) \/ Scan(c) \/ WritePointer(c) \/ WriteType(c)
  \/ LookUp(c) \/ DropReference(c) \/ RereadCount(c) \/ Free(c) \/ RemoveHandle(c)
  \/ LookPointer(c) \/ UseProcess(c)

Next ==
  /\ ~fault /\ Cardinality(races) <= MaxRaces
  /\ \/ \E c \in Conn : Step(c) /\ UNCHANGED calls
     \/ /\ calls < MaxCalls
        /\ \E c \in Conn : Begin(c)
        /\ calls' = calls + 1
  /\ races' = races \cup Overlaps'

Spec == Init /\ [][Next]_vars

-----------------------------------------------------------------------------
\* Entries, objects and the places of the threads: no scan of the table leaves it,
\* and spot 0 is never one.
TypeOK ==
  /\ HandleList \in [Handles -> [type : Kinds \cup {"htEmpty"}, pointer : Ptr \cup {NULL}]]
  /\ table \in {"null", "sized", "raw", "zeroed"}
  /\ heap \in [Ptr -> [kind : Kinds \cup {"free"}, pid : Pid \cup {NULL}, rc : Int]]
  /\ th \in [Conn -> Thread]
  /\ held \in [Conn -> [Slots -> Held]]
  /\ calls \in 0 .. MaxCalls
  /\ races \subseteq {"first", "spot", "count", "last", "open"}
  /\ fault \in BOOLEAN

Among(K) == races \cap K # {}

\* Memory is misused (a freed or foreign object, NULL, an uncleared table)
\* only after two calls met in the first creation, on one spot, on one count, or
\* on a handle that was just being closed for good.  In particular a thread that
\* searches or uses the table may meet any creation of another one: the pointer
\* is there before the type that makes it visible.
NoFault == fault => Among({"first", "spot", "count", "last"})

Processes(pid) == {p \in Ptr : heap[p].kind = Process /\ heap[p].pid = pid}

\* OpenProcess calls find each other's ProcessData, whatever the other threads do to
\* the table, until two calls have met.  Not only those that open one process: a
\* count that two calls have spoilt lets a handle be emptied twice, the second time
\* when it is the handle of a new ProcessData already.
OneProcessData ==
  \A pid \in Pid : \A p, q \in Processes(pid) : p # q => races # {}

\* The handle a client was given leads to a living object of what it asked for.
HeldIsOwn ==
  \A c \in Conn, n \in Slots :
    LET k == held[c][n]
        e == HandleList[k.h]
    IN \/ k = Nothing
       \/ /\ e.type = (IF k.pid = NULL THEN Snapshot ELSE Process)
          /\ IsObject(e.pointer, e.type) /\ heap[e.pointer].pid = k.pid
       \/ Among({"first", "spot", "count", "last"})

Holders(p) ==
  {x \in Conn \X Slots : LET k == held[x[1]][x[2]]
                         IN k # Nothing /\ HandleList[k.h].pointer = p}

\* A module list that OpenProcess could not fill: no handle leads to it.
Leaked(p) ==
  /\ heap[p].kind = Module
  /\ \A h \in Handles : HandleList[h].type # "htEmpty" => HandleList[h].pointer # p

\* Between calls every object is held by a client, has as many references as
\* clients hold of it, and so was freed with the last one; all but the module lists
\* that CreateToolhelp32Snapshot leaves behind when it cannot read the maps.
CountsBalance ==
  (\A c \in Conn : At(c, "idle")) /\ ~Among({"first", "spot", "count", "last"}) =>
    \A p \in Ptr :
      \/ heap[p] = Freed \/ Leaked(p)
      \/ Holders(p) # {} /\ heap[p].rc = Cardinality(Holders(p))
=============================================================================
