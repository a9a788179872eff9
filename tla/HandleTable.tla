---------------------------- MODULE HandleTable ----------------------------
(***************************************************************************)
(* The handle table of ceserver (porthelp.c) and the objects its handles   *)
(* name: opened processes, toolhelp snapshots, pipes and native threads    *)
(* (api.c, ceserver.c).  Every call is one atomic step: this is the table  *)
(* as long as one connection thread uses it at a time.                     *)
(***************************************************************************)
EXTENDS Integers, FiniteSets

CONSTANTS
  Pid,         \* process ids a client may name
  Ptr,         \* heap addresses malloc can return; bounds the live objects
  NULL,        \* the null pointer
  InitialMax,  \* HandleList_max after the first allocation (256 in the code)
  MaxMax,      \* bound: the table may double while HandleList_max <= MaxMax
  MaxRefs,     \* bound on one process' ReferenceCount
  MaxEntries,  \* bound on the entries of one snapshot
  MaxConn      \* bound on the simultaneous connections

ASSUME TableAssumption ==
  /\ NULL \notin Ptr
  /\ InitialMax \in Nat /\ InitialMax > 1
  /\ MaxMax \in Nat
  /\ MaxRefs \in Nat
  /\ MaxEntries \in Nat
  /\ MaxConn \in Nat

VARIABLES
  hs,           \* [list: HandleList, max: HandleList_max, heap: the objects]
  connections,  \* the counter of ceserver.c
  refs          \* history: opens minus closes of each handle, by clients

vars == <<hs, connections, refs>>

Snapshots  == {"htTHSProcess", "htTHSModule", "htTHSThread"}
RefCounted == Snapshots \cup {"htProcesHandle"}
Kinds      == RefCounted \cup {"htPipeHandle", "htNativeThreadHandle"}

EmptyEntry == [type |-> "htEmpty", pointer |-> NULL]
Entry      == [type : Kinds, pointer : Ptr] \cup {EmptyEntry}

\* A heap cell.  `pid` is NULL in an object that belongs to no process;
\* `it` is -1 while a snapshot's iterator is what malloc left there.
Freed  == [kind |-> "free", rc |-> 0, pid |-> NULL, count |-> 0, it |-> 0]
Object == [kind : Kinds \cup {"free"}, rc : Int, pid : Pid \cup {NULL},
           count : Nat, it : Int]

NewProcess(pid) ==
  [kind |-> "htProcesHandle", rc |-> 1, pid |-> pid, count |-> 0, it |-> 0]
NewSnapshot(type, n) ==
  [kind |-> type, rc |-> 1, pid |-> NULL, count |-> n, it |-> -1]
NewPlain(type) ==
  [kind |-> type, rc |-> 1, pid |-> NULL, count |-> 0, it |-> 0]

-----------------------------------------------------------------------------
(* porthelp.c.  Each operator takes the state S = [list, max, heap] the     *)
(* function finds and gives the one it leaves.                              *)

Table(l, m, hp) == [list |-> l, max |-> m, heap |-> hp]

Handles(S) == 1 .. (S.max - 1)
Live(S)    == {h \in Handles(S) : S.list[h].type # "htEmpty"}
\* Mutant: the spot of a module list counts as empty.
EmptySpots_Modules(S) ==
  {h \in Handles(S) : S.list[h].type \in {"htEmpty", "htTHSModule"}}

EmptySpots(S) == Handles(S) \ Live(S)
Lowest(H) == CHOOSE h \in H : \A k \in H : h <= k

GetHandleType(S, h) == IF h \in Handles(S) THEN S.list[h].type ELSE "htEmpty"

\* Mutant: one entry more than HandleList_max says.
Relocate_Long(S) == [i \in 0 .. (2 * S.max) |-> EmptyEntry]

\* A full table is reallocated, and its memcpy copies sizeof(size_t) bytes:
\* the type of the unused entry 0, and no handle.
Relocate(S) == [i \in 0 .. (2 * S.max - 1) |-> EmptyEntry]

HandleFor(S) == IF EmptySpots(S) # {} THEN Lowest(EmptySpots(S)) ELSE S.max

CreateHandleFromPointer(S, p, type) ==
  LET e == [type |-> type, pointer |-> p]
  IN IF EmptySpots(S) # {}
     THEN Table([S.list EXCEPT ![HandleFor(S)] = e], S.max, S.heap)
     ELSE Table([Relocate(S) EXCEPT ![S.max] = e], 2 * S.max, S.heap)

RemoveHandle(S, h) ==
  IF h \in Live(S) THEN Table([S.list EXCEPT ![h] = EmptyEntry], S.max, S.heap)
                   ELSE S

\* SearchHandleList with the callback that compares the pid.
ProcessHandles(S, pid) ==
  {h \in Live(S) : /\ S.list[h].type = "htProcesHandle"
                   /\ S.heap[S.list[h].pointer].pid = pid}
SearchHandleList(S, pid) ==
  IF ProcessHandles(S, pid) = {} THEN 0 ELSE Lowest(ProcessHandles(S, pid))

-----------------------------------------------------------------------------
(* api.c: objects behind the handles.                                       *)

Store(S, p, obj) == Table(S.list, S.max, [S.heap EXCEPT ![p] = obj])
AddRef(S, p, d)  == Store(S, p, [S.heap[p] EXCEPT !.rc = @ + d])

\* What the last CloseHandle leaves of an object: the descriptor of a thread
\* snapshot is never freed, only its array.
Released(obj) == IF obj.kind = "htTHSThread" THEN [obj EXCEPT !.rc = 0]
                                             ELSE Freed

\* Mutant: the object is freed and its handle kept.
CloseHandle_KeepsHandle(S, h) ==
  IF GetHandleType(S, h) = "htEmpty" THEN S
  ELSE LET p == S.list[h].pointer
       IN IF S.heap[p].kind \in RefCounted /\ S.heap[p].rc - 1 > 0
          THEN AddRef(S, p, -1)
          ELSE Store(S, p, Released(S.heap[p]))

\* Mutant: the handle goes with the first close, not with the last.
CloseHandle_FirstClose(S, h) ==
  IF GetHandleType(S, h) = "htEmpty" THEN S
  ELSE LET p == S.list[h].pointer
       IN IF S.heap[p].kind \in RefCounted /\ S.heap[p].rc - 1 > 0
          THEN RemoveHandle(AddRef(S, p, -1), h)
          ELSE RemoveHandle(Store(S, p, Released(S.heap[p])), h)

CloseHandle(S, h) ==
  IF GetHandleType(S, h) = "htEmpty" THEN S
  ELSE LET p == S.list[h].pointer
       IN IF S.heap[p].kind \in RefCounted /\ S.heap[p].rc - 1 > 0
          THEN AddRef(S, p, -1)
          ELSE RemoveHandle(Store(S, p, Released(S.heap[p])), h)

\* The loop closes every pipe handle SearchHandleList can still find.
CloseAllPipes(S) ==
  LET pipes == {h \in Live(S) : S.list[h].type = "htPipeHandle"}
  IN Table([h \in 0 .. (S.max - 1) |->
              IF h \in pipes THEN EmptyEntry ELSE S.list[h]],
           S.max,
           [p \in Ptr |->
              IF \E h \in pipes : S.list[h].pointer = p THEN Freed ELSE S.heap[p]])

\* Mutant: a second handle for the ProcessData that is already open.
Reopen_SecondHandle(S, pid) ==
  LET p == S.list[SearchHandleList(S, pid)].pointer
  IN CreateHandleFromPointer(AddRef(S, p, 1), p, "htProcesHandle")

\* OpenProcess on a process that has a handle.
Reopen(S, pid) == AddRef(S, S.list[SearchHandleList(S, pid)].pointer, 1)

\* Mutant: the snapshot does not close the process it opened.
SnapModulesOpened_NoClose(S, pid, m, n) ==
  CreateHandleFromPointer(
    Store(Reopen(S, pid), m, NewSnapshot("htTHSModule", n)), m, "htTHSModule")

\* CreateToolhelp32Snapshot(TH32CS_SNAPMODULE or SNAPFIRSTMODULE, pid) on a
\* process that has a handle: it opens the process, reads the modules, closes
\* the process and makes the handle.
SnapModulesOpened(S, pid, m, n) ==
  LET h  == SearchHandleList(S, pid)
      S1 == CloseHandle(Reopen(S, pid), h)
  IN CreateHandleFromPointer(Store(S1, m, NewSnapshot("htTHSModule", n)), m, "htTHSModule")

\* Handle of the snapshot SnapModulesOpened makes.
SnapModulesHandle(S, pid) ==
  HandleFor(CloseHandle(Reopen(S, pid), SearchHandleList(S, pid)))

\* OpenProcess on a process without a handle: make one, then take the first
\* module in a snapshot of its own to learn whether the process is 64-bit.
\* If the maps file cannot be opened the snapshot's memory is lost.
OpenNew(S, pid, p, m, mapsOpen) ==
  LET S1 == CreateHandleFromPointer(Store(S, p, NewProcess(pid)), p, "htProcesHandle")
  IN IF mapsOpen
     THEN CloseHandle(SnapModulesOpened(S1, pid, m, 1), SnapModulesHandle(S1, pid))
     ELSE Store(S1, m, NewSnapshot("htTHSModule", 0))

-----------------------------------------------------------------------------
Init ==
  /\ hs = Table([i \in 0 .. (InitialMax - 1) |-> EmptyEntry], InitialMax,
                [p \in Ptr |-> Freed])
  /\ connections = 0
  /\ refs = [p \in Ptr |-> 0]

FreeCells == {p \in Ptr : hs.heap[p].kind = "free"}
\* Two spots are the most one call can take.
MayGrow == \/ \E i, j \in EmptySpots(hs) : i # j
           \/ hs.max <= MaxMax

\* Every call below is made by the thread of some connection.
Connected == connections > 0

OpenProcess(pid) ==
  /\ Connected
  /\ UNCHANGED connections
  /\ LET h == SearchHandleList(hs, pid)
         p == hs.list[h].pointer
     IN \/ /\ h # 0
           /\ hs.heap[p].rc < MaxRefs
           /\ hs' = Reopen(hs, pid)
           /\ refs' = [refs EXCEPT ![p] = @ + 1]
        \/ /\ h = 0
           /\ MayGrow
           /\ \E new, m \in FreeCells, mapsOpen \in BOOLEAN :
                /\ new # m
                /\ hs' = OpenNew(hs, pid, new, m, mapsOpen)
                /\ refs' = [refs EXCEPT ![new] = 1]

\* TH32CS_SNAPPROCESS and TH32CS_SNAPTHREAD.
SnapList(type) ==
  /\ Connected
  /\ MayGrow
  /\ \E p \in FreeCells, n \in 0 .. MaxEntries :
       hs' = CreateHandleFromPointer(Store(hs, p, NewSnapshot(type, n)), p, type)
  /\ UNCHANGED <<connections, refs>>

\* TH32CS_SNAPMODULE.  The process may have no handle yet (then it is opened
\* and closed around the reads), may have vanished between the fopen of its
\* maps file and OpenProcess, or may have no maps file at all.
SnapModules(pid) ==
  /\ Connected
  /\ MayGrow
  /\ UNCHANGED <<connections, refs>>
  /\ \E m \in FreeCells, n \in 0 .. MaxEntries :
       \/ /\ SearchHandleList(hs, pid) # 0
          /\ hs' = SnapModulesOpened(hs, pid, m, n)
       \/ /\ SearchHandleList(hs, pid) = 0
          /\ \E new, tmp \in FreeCells \ {m}, mapsOpen \in BOOLEAN :
               LET S1 == OpenNew(hs, pid, new, tmp, mapsOpen)
                   S2 == CloseHandle(S1, HandleFor(hs))
               IN /\ new # tmp
                  /\ hs' = CreateHandleFromPointer(
                             Store(S2, m, NewSnapshot("htTHSModule", n)), m, "htTHSModule")
       \/ /\ SearchHandleList(hs, pid) = 0
          /\ hs' = CreateHandleFromPointer(
                     Store(hs, m, NewSnapshot("htTHSModule", 0)), m, "htTHSModule")
       \/ hs' = Store(hs, m, NewSnapshot("htTHSModule", 0))

\* OpenPipe after a successful connect, and CMD_CREATETHREAD after the
\* extension started the thread.
OpenPlain(type) ==
  /\ Connected
  /\ MayGrow
  /\ \E p \in FreeCells :
       hs' = CreateHandleFromPointer(Store(hs, p, NewPlain(type)), p, type)
  /\ UNCHANGED <<connections, refs>>

\* Process32First, Module32First, Thread32First: rewind, then Next.
SnapshotFirst(h) ==
  /\ Connected
  /\ GetHandleType(hs, h) \in Snapshots
  /\ LET p == hs.list[h].pointer
     IN hs' = Store(hs, p, [hs.heap[p] EXCEPT !.it = IF hs.heap[p].count > 0 THEN 1 ELSE 0])
  /\ UNCHANGED <<connections, refs>>

\* Process32Next, Module32Next, Thread32Next.  The client has called First:
\* before that the iterator is uninitialised memory.
SnapshotNext(h) ==
  /\ Connected
  /\ GetHandleType(hs, h) \in Snapshots
  /\ LET p == hs.list[h].pointer
     IN /\ hs.heap[p].it >= 0
        /\ hs.heap[p].it < hs.heap[p].count
        /\ hs' = Store(hs, p, [hs.heap[p] EXCEPT !.it = @ + 1])
  /\ UNCHANGED <<connections, refs>>

\* CMD_CLOSEHANDLE.
ClientClose(h) ==
  /\ Connected
  /\ h \in Live(hs)
  /\ hs' = CloseHandle(hs, h)
  /\ LET p == hs.list[h].pointer
     IN refs' = IF hs.list[h].type = "htProcesHandle"
                THEN [refs EXCEPT ![p] = IF hs'.heap[p] = Freed THEN 0 ELSE @ - 1]
                ELSE refs
  /\ UNCHANGED connections

threadStartedEvent ==
  /\ connections < MaxConn
  /\ connections' = connections + 1
  /\ UNCHANGED <<hs, refs>>

threadClosedEvent ==
  /\ Connected
  /\ connections' = connections - 1
  /\ hs' = IF connections' = 0 THEN CloseAllPipes(hs) ELSE hs
  /\ UNCHANGED refs

Next ==
  \/ \E pid \in Pid : OpenProcess(pid) \/ SnapModules(pid)
  \/ SnapList("htTHSProcess") \/ SnapList("htTHSThread")
  \/ OpenPlain("htPipeHandle") \/ OpenPlain("htNativeThreadHandle")
  \/ \E h \in Handles(hs) : SnapshotFirst(h) \/ SnapshotNext(h) \/ ClientClose(h)
  \/ threadStartedEvent
  \/ threadClosedEvent

Spec == Init /\ [][Next]_vars

-----------------------------------------------------------------------------
\* The state parameter makes these usable on the intermediate states of a call.
WellFormed(S) ==
  /\ S = Table(S.list, S.max, S.heap)
  /\ S.max \in Nat /\ S.max > 1
  /\ S.list \in [0 .. (S.max - 1) -> Entry]
  /\ S.heap \in [Ptr -> Object]

LiveObjects(S) ==
  \A h \in Live(S) :
    /\ S.heap[S.list[h].pointer].kind = S.list[h].type
    /\ S.heap[S.list[h].pointer].rc >= 1

NoSharing(S) ==
  \A h, k \in Live(S) : S.list[h].pointer = S.list[k].pointer => h = k

\* The table is an array of entries and the heap holds the structures the
\* code allocates.
TypeOK ==
  /\ WellFormed(hs)
  /\ connections \in Nat
  /\ refs \in [Ptr -> Int]

\* No dangling handle: GetPointerFromHandle never gives freed memory, nor an
\* object of another type than GetHandleType says, and what it gives holds at
\* least one reference, whatever was closed, in whatever order, and however
\* the table grew.
NoDangling == LiveObjects(hs)

\* Two handles never name one object, so that closing one (which frees the
\* object) cannot break the other.
NoAlias == NoSharing(hs)

\* The reference count of an opened process is the number of opens its
\* clients have not closed; the opens and closes a module snapshot makes on
\* its own never show.
RefCountExact ==
  \A h \in Live(hs) :
    hs.list[h].type = "htProcesHandle"
      => hs.heap[hs.list[h].pointer].rc = refs[hs.list[h].pointer]

\* Until the full table is relocated, nothing that is still referenced becomes
\* unreachable: what malloc gave is found again by its handle.  Module lists
\* are left out: CreateToolhelp32Snapshot loses one when the maps file is missing.
NoOrphan ==
  hs.max = InitialMax => \A p \in Ptr :
    hs.heap[p].kind \in Kinds \ {"htTHSModule"} /\ hs.heap[p].rc > 0
      => \E h \in Live(hs) : hs.list[h].pointer = p

HandleSurvives(h) ==
  \/ h \in Live(hs)' /\ hs'.list[h] = hs.list[h]
  \/ hs'.heap[hs.list[h].pointer].rc = 0

\* A handle that a client holds goes away only when its object is released:
\* allocating, closing and searching leave all others as they are, however the
\* calls of a snapshot are nested.
HandlesKept == [][hs'.max = hs.max => \A h \in Live(hs) : HandleSurvives(h)]_vars

\* And so it is when the full table is relocated.
HandlesSurvive == [][\A h \in Live(hs) : HandleSurvives(h)]_vars
=============================================================================
