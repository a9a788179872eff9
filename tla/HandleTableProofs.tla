-------------------------- MODULE HandleTableProofs -------------------------
(* Proofs that the handle table keeps its types, that no handle ever dangles *)
(* or shares its object, that reference counts are exact, and that no call   *)
(* takes a handle from its client or loses an object unless it relocates the *)
(* full table; for every number of processes, heap cells and table spots.    *)
EXTENDS HandleTable, TLAPS, WellFoundedInduction

\* What every function of the table preserves.
Sound(S) == WellFormed(S) /\ LiveObjects(S) /\ NoSharing(S)

\* Memory that malloc may hand out, and that it stays so across a call which
\* stores into the cells C.
IsFree(S, p) == S.heap[p].kind = "free"
FreeOutside(S, T, C) == \A q \in Ptr \ C : IsFree(S, q) => IsFree(T, q)
FreeStays(S, T) == FreeOutside(S, T, {})

\* The only change to the heap is the new object at p, and a handle names it.
Placed(S, T, p, obj) == T.heap = [S.heap EXCEPT ![p] = obj]
Named(T, p, kind) == \E h \in Live(T) : T.list[h] = [type |-> kind, pointer |-> p]

-----------------------------------------------------------------------------
\* The scan of CreateHandleFromPointer and SearchHandleList finds a first
\* match whenever there is a match.
LEMMA LowestIn ==
  ASSUME NEW H, H \subseteq Nat, H # {}
  PROVE  Lowest(H) \in H
<1> DEFINE R == OpToRel(<, Nat)
<1>1. \E x \in H : \A y \in H : ~ (<<y, x>> \in R)
  <2>1. IsWellFoundedOn(R, Nat)
    BY NatLessThanWellFounded
  <2> HIDE DEF R
  <2> QED
    BY <2>1, WFMin
<1>2. PICK x \in H : \A y \in H : ~ (<<y, x>> \in R)
  BY <1>1
<1>3. \A y \in H : x <= y
  <2> TAKE y \in H
  <2>1. ~ (y < x)
    BY <1>2 DEF OpToRel
  <2> QED
    BY <2>1, SMT
<1> QED
  BY <1>3 DEF Lowest

\* An empty spot is a spot.
LEMMA HandleForSpot ==
  ASSUME NEW S, WellFormed(S), EmptySpots(S) # {}
  PROVE  HandleFor(S) \in Handles(S) /\ HandleFor(S) \notin Live(S)
<1>1. EmptySpots(S) \subseteq Nat
  BY DEF EmptySpots, Handles, WellFormed
<1>2. Lowest(EmptySpots(S)) \in EmptySpots(S)
  BY <1>1, LowestIn
<1> QED
  BY <1>2 DEF HandleFor, EmptySpots

\* Storing a new object in free memory disturbs no handle.
LEMMA StoreSound ==
  ASSUME NEW S, Sound(S), NEW p \in Ptr, IsFree(S, p), NEW obj \in Object
  PROVE  /\ Sound(Store(S, p, obj))
         /\ \A h \in Live(S) : S.list[h].pointer # p
         /\ Live(Store(S, p, obj)) = Live(S)
<1> USE DEF Sound, Table
<1>1. \A h \in Live(S) : S.list[h].type \in Kinds /\ S.list[h].pointer \in Ptr
  BY DEF WellFormed, Live, Handles, Entry, EmptyEntry
<1>2. \A h \in Live(S) : S.list[h].pointer # p
  BY <1>1 DEF LiveObjects, IsFree, Kinds, RefCounted, Snapshots
<1>3. WellFormed(Store(S, p, obj))
  BY DEF WellFormed, Store
<1>4. Live(Store(S, p, obj)) = Live(S)
  BY DEF Store, Live, Handles
<1>5. LiveObjects(Store(S, p, obj))
  BY <1>1, <1>2, <1>4 DEF LiveObjects, Store, WellFormed
<1>6. NoSharing(Store(S, p, obj))
  BY <1>4 DEF NoSharing, Store
<1> QED
  BY <1>2, <1>3, <1>4, <1>5, <1>6

\* A created handle names the new object; every other handle is as before or,
\* when the table was full, gone.
LEMMA CreateSound ==
  ASSUME NEW S, Sound(S), NEW p \in Ptr, IsFree(S, p),
         NEW obj \in Object, obj.kind \in Kinds, obj.rc >= 1,
         NEW T, T = CreateHandleFromPointer(Store(S, p, obj), p, obj.kind)
  PROVE  /\ Sound(T)
         /\ Placed(S, T, p, obj)
         /\ Named(T, p, obj.kind)
<1> DEFINE U == Store(S, p, obj)
           e == [type |-> obj.kind, pointer |-> p]
<1>1. Sound(U) /\ (\A h \in Live(S) : S.list[h].pointer # p) /\ Live(U) = Live(S)
  BY StoreSound
<1>2. U.list = S.list /\ U.max = S.max /\ U.heap = [S.heap EXCEPT ![p] = obj]
  BY DEF Store, Table
<1>3. e \in Entry /\ e.type # "htEmpty" /\ U.heap[p] = obj
  BY <1>2 DEF Entry, Sound, WellFormed, Kinds, RefCounted, Snapshots
<1>4. \A h \in Live(U) : U.list[h].pointer # p
  BY <1>1, <1>2
<1> HIDE DEF U
<1>5. CASE EmptySpots(U) # {}
  <2> DEFINE i == HandleFor(U)
  <2>1. i \in Handles(U) /\ i \notin Live(U)
    BY <1>1, <1>5, HandleForSpot DEF Sound
  <2>2. /\ T.list = [U.list EXCEPT ![i] = e] /\ T.max = U.max /\ T.heap = U.heap
        /\ T = Table(T.list, T.max, T.heap)
    BY <1>5 DEF CreateHandleFromPointer, U, Table
  <2> HIDE DEF i
  <2>3. i \in 0 .. (U.max - 1) /\ U.list \in [0 .. (U.max - 1) -> Entry]
    BY <1>1, <2>1 DEF Sound, WellFormed, Handles
  <2>4. WellFormed(T)
    BY <1>1, <1>3, <2>2, <2>3 DEF Sound, WellFormed
  <2>5. T.list[i] = e /\ \A h \in Live(U) : T.list[h] = U.list[h]
    <3>1. Live(U) \subseteq 0 .. (U.max - 1)
      BY DEF Live, Handles
    <3>2. \A h \in (0 .. (U.max - 1)) \ {i} : T.list[h] = U.list[h]
      BY <2>2, <2>3
    <3> QED
      BY <2>1, <2>2, <2>3, <3>1, <3>2
  <2>6. Live(T) = Live(U) \cup {i}
    <3>1. Handles(T) = Handles(U)
      BY <2>2 DEF Handles
    <3>2. \A h \in Handles(U) \ {i} : T.list[h] = U.list[h]
      BY <2>2, <2>3 DEF Handles
    <3> QED
      BY <1>3, <2>1, <2>5, <3>1, <3>2 DEF Live
  <2>7. LiveObjects(T)
    BY <1>1, <1>3, <2>2, <2>5, <2>6 DEF Sound, LiveObjects
  <2>8. NoSharing(T)
    BY <1>1, <1>4, <2>5, <2>6 DEF Sound, NoSharing
  <2> QED
    BY <1>2, <2>2, <2>4, <2>5, <2>6, <2>7, <2>8 DEF Sound, Placed, Named
<1>6. CASE EmptySpots(U) = {}
  <2>1. /\ T.list = [Relocate(U) EXCEPT ![U.max] = e] /\ T.max = 2 * U.max
        /\ T.heap = U.heap /\ T = Table(T.list, T.max, T.heap)
    BY <1>6 DEF CreateHandleFromPointer, U, Table
  <2>2. U.max \in Nat /\ U.max > 1 /\ U.heap \in [Ptr -> Object]
    BY <1>1 DEF Sound, WellFormed
  <2>3. Relocate(U) \in [0 .. (T.max - 1) -> Entry] /\ U.max \in 0 .. (T.max - 1)
    BY <2>1, <2>2 DEF Relocate, Entry
  <2>4. WellFormed(T)
    BY <1>3, <2>1, <2>2, <2>3 DEF WellFormed
  <2>5. T.list[U.max] = e /\ \A h \in Handles(T) \ {U.max} : T.list[h] = EmptyEntry
    BY <2>1, <2>2, <2>3 DEF Relocate, Handles
  <2>6. Live(T) = {U.max}
    BY <1>3, <2>1, <2>2, <2>5 DEF Live, Handles, EmptyEntry
  <2>7. LiveObjects(T) /\ NoSharing(T)
    BY <1>3, <2>1, <2>5, <2>6 DEF LiveObjects, NoSharing
  <2> QED
    BY <1>2, <2>1, <2>4, <2>5, <2>6, <2>7 DEF Sound, Placed, Named
<1> QED
  BY <1>5, <1>6

\* Updating the object behind a handle, its kind kept and a reference left.
LEMMA UpdateSound ==
  ASSUME NEW S, Sound(S), NEW h \in Live(S), NEW obj \in Object,
         obj.kind = S.heap[S.list[h].pointer].kind, obj.rc >= 1,
         NEW T, T = Store(S, S.list[h].pointer, obj)
  PROVE  Sound(T) /\ FreeStays(S, T) /\ Live(T) = Live(S) /\ T.list = S.list
<1> DEFINE p == S.list[h].pointer
<1>1. /\ p \in Ptr
      /\ \A k \in Live(S) : S.list[k].pointer \in Ptr /\ S.list[k].type \in Kinds
  BY DEF Sound, WellFormed, Live, Handles, Entry, EmptyEntry
<1>2. /\ T.list = S.list /\ T.max = S.max /\ T.heap = [S.heap EXCEPT ![p] = obj]
      /\ T = Table(T.list, T.max, T.heap)
  BY DEF Store, Table
<1>3. WellFormed(T) /\ Live(T) = Live(S)
  BY <1>1, <1>2 DEF Sound, WellFormed, Live, Handles
<1>4. LiveObjects(T)
  BY <1>1, <1>2, <1>3 DEF Sound, LiveObjects, WellFormed
<1>5. NoSharing(T)
  BY <1>2, <1>3 DEF Sound, NoSharing
<1>6. FreeStays(S, T)
  BY <1>1, <1>2 DEF FreeStays, FreeOutside, IsFree, Placed, Sound, WellFormed
<1> QED
  BY <1>2, <1>3, <1>4, <1>5, <1>6 DEF Sound

\* Closing: the object is decremented, or released together with its handle.
LEMMA CloseSound ==
  ASSUME NEW S, Sound(S), NEW h, NEW T, T = CloseHandle(S, h)
  PROVE  Sound(T) /\ FreeStays(S, T)
<1>1. CASE h \notin Live(S)
  <2>1. GetHandleType(S, h) = "htEmpty"
    BY <1>1 DEF GetHandleType, Live
  <2> QED
    BY <2>1 DEF CloseHandle, FreeStays, FreeOutside
<1>2. CASE h \in Live(S)
  <2> DEFINE p == S.list[h].pointer
             o == S.heap[p]
  <2>1. /\ p \in Ptr /\ o \in Object /\ GetHandleType(S, h) # "htEmpty"
        /\ o.kind \in Kinds /\ o.rc >= 1
    BY <1>2 DEF Sound, WellFormed, LiveObjects, GetHandleType, Live, Handles, Entry, EmptyEntry
  <2>2. CASE o.kind \in RefCounted /\ o.rc - 1 > 0
    <3> DEFINE obj == [o EXCEPT !.rc = @ + (-1)]
    <3>1. obj \in Object /\ obj.kind = o.kind /\ obj.rc >= 1
      BY <2>1, <2>2 DEF Object
    <3>2. T = Store(S, p, obj)
      BY <2>1, <2>2 DEF CloseHandle, AddRef
    <3> HIDE DEF obj
    <3> QED
      BY <1>2, <3>1, <3>2, UpdateSound
  <2>3. CASE ~ (o.kind \in RefCounted /\ o.rc - 1 > 0)
    <3> DEFINE obj == Released(o)
               U == Store(S, p, obj)
    <3>1. obj \in Object
      <4>1. Freed \in Object
        BY DEF Freed, Object
      <4>2. ASSUME NEW x \in Object
            PROVE  [x EXCEPT !.rc = 0] \in Object
        BY DEF Object
      <4> QED
        BY <2>1, <4>1, <4>2 DEF Released
    <3>2. T = RemoveHandle(U, h)
      BY <2>1, <2>3 DEF CloseHandle
    <3>3. U.list = S.list /\ U.max = S.max /\ U.heap = [S.heap EXCEPT ![p] = obj]
      BY DEF Store, Table
    <3> HIDE DEF obj, U
    <3>4. Live(U) = Live(S)
      BY <3>3 DEF Live, Handles
    <3>5. /\ T.list = [S.list EXCEPT ![h] = EmptyEntry] /\ T.max = S.max
          /\ T.heap = [S.heap EXCEPT ![p] = obj] /\ T = Table(T.list, T.max, T.heap)
      BY <1>2, <3>2, <3>3, <3>4 DEF RemoveHandle, Table
    <3>6. WellFormed(T)
      BY <2>1, <3>1, <3>5 DEF WellFormed, Sound, Entry
    <3>7. Live(T) = Live(S) \ {h} /\ \A k \in Live(T) : T.list[k] = S.list[k]
      BY <3>5 DEF Live, Handles, Sound, WellFormed, EmptyEntry
    <3>8. \A k \in Live(T) : S.list[k].pointer # p
      BY <1>2, <3>7 DEF Sound, NoSharing
    <3>9. LiveObjects(T)
      BY <3>5, <3>7, <3>8 DEF Sound, LiveObjects, WellFormed
    <3>10. NoSharing(T)
      BY <3>7 DEF Sound, NoSharing
    <3>11. FreeStays(S, T)
      BY <2>1, <3>5 DEF FreeStays, FreeOutside, IsFree, Kinds, RefCounted, Snapshots, Sound, WellFormed
    <3> QED
      BY <3>6, <3>9, <3>10, <3>11 DEF Sound
  <2> QED
    BY <2>2, <2>3
<1> QED
  BY <1>1, <1>2

\* Closing every pipe.
LEMMA PipesSound ==
  ASSUME NEW S, Sound(S), NEW T, T = CloseAllPipes(S)
  PROVE  Sound(T)
<1> DEFINE pipes == {h \in Live(S) : S.list[h].type = "htPipeHandle"}
<1>1. /\ T.list = [h \in 0 .. (S.max - 1) |-> IF h \in pipes THEN EmptyEntry ELSE S.list[h]]
      /\ T.max = S.max
      /\ T.heap = [p \in Ptr |-> IF \E h \in pipes : S.list[h].pointer = p
                                 THEN Freed ELSE S.heap[p]]
      /\ T = Table(T.list, T.max, T.heap)
  BY DEF CloseAllPipes, Table
<1> HIDE DEF pipes
<1>2. Freed \in Object /\ EmptyEntry \in Entry
  BY DEF Freed, Object, Entry
<1>3. WellFormed(T)
  BY <1>1, <1>2 DEF Sound, WellFormed
<1>4. Live(T) = Live(S) \ pipes /\ \A k \in Live(T) : T.list[k] = S.list[k]
  BY <1>1 DEF Live, Handles, Sound, WellFormed, EmptyEntry
<1>5. \A k \in Live(T) : S.list[k].pointer \in Ptr /\ T.heap[S.list[k].pointer] = S.heap[S.list[k].pointer]
  <2> TAKE k \in Live(T)
  <2>1. k \in Live(S) /\ k \notin pipes /\ S.list[k].pointer \in Ptr
    BY <1>4 DEF Sound, WellFormed, Live, Handles, Entry, EmptyEntry
  <2>2. ~ \E h \in pipes : S.list[h].pointer = S.list[k].pointer
    BY <2>1 DEF Sound, NoSharing, pipes
  <2> QED
    BY <1>1, <2>1, <2>2
<1>6. LiveObjects(T) /\ NoSharing(T)
  BY <1>4, <1>5 DEF Sound, LiveObjects, NoSharing
<1> QED
  BY <1>3, <1>6 DEF Sound

\* SearchHandleList returns a live process handle or 0.
LEMMA SearchFinds ==
  ASSUME NEW S, Sound(S), NEW pid, SearchHandleList(S, pid) # 0
  PROVE  SearchHandleList(S, pid) \in ProcessHandles(S, pid)
<1>1. ProcessHandles(S, pid) \subseteq Nat
  BY DEF ProcessHandles, Live, Handles, Sound, WellFormed
<1> QED
  BY <1>1, LowestIn DEF SearchHandleList

\* Opening a process that has a handle.
LEMMA ReopenSound ==
  ASSUME NEW S, Sound(S), NEW pid, SearchHandleList(S, pid) # 0,
         NEW T, T = Reopen(S, pid)
  PROVE  Sound(T) /\ FreeStays(S, T)
<1> DEFINE h == SearchHandleList(S, pid)
           o == S.heap[S.list[h].pointer]
           obj == [o EXCEPT !.rc = @ + 1]
<1>1. h \in Live(S)
  BY SearchFinds DEF ProcessHandles
<1>2. o \in Object /\ o.rc >= 1
  BY <1>1 DEF Sound, WellFormed, LiveObjects, Live, Handles, Entry, EmptyEntry
<1>3. obj \in Object /\ obj.kind = o.kind /\ obj.rc >= 1
  BY <1>2 DEF Object
<1>4. T = Store(S, S.list[h].pointer, obj)
  BY DEF Reopen, AddRef
<1> HIDE DEF h, obj
<1> QED
  BY <1>1, <1>3, <1>4, UpdateSound

\* A handle for a new snapshot.
LEMMA SnapshotCreated ==
  ASSUME NEW S, Sound(S), NEW p \in Ptr, IsFree(S, p), NEW type \in Snapshots, NEW n \in Nat,
         NEW T, T = CreateHandleFromPointer(Store(S, p, NewSnapshot(type, n)), p, type)
  PROVE  Sound(T) /\ FreeOutside(S, T, {p})
<1> DEFINE obj == NewSnapshot(type, n)
<1>1. obj \in Object /\ obj.kind = type /\ obj.kind \in Kinds /\ obj.rc >= 1
  BY DEF NewSnapshot, Object, Kinds, RefCounted
<1>2. T = CreateHandleFromPointer(Store(S, p, obj), p, obj.kind)
  BY <1>1
<1> HIDE DEF obj
<1>3. Sound(T) /\ Placed(S, T, p, obj)
  BY <1>1, <1>2, CreateSound
<1> QED
  BY <1>3 DEF FreeOutside, IsFree, Placed, Sound, WellFormed

\* The object behind a handle.
LEMMA LiveIsObject ==
  ASSUME NEW S, Sound(S), NEW h \in Live(S)
  PROVE  /\ S.list[h].pointer \in Ptr
         /\ S.heap[S.list[h].pointer] \in Object
         /\ S.heap[S.list[h].pointer].rc >= 1
BY DEF Sound, WellFormed, LiveObjects, Live, Handles, Entry, EmptyEntry

\* A module snapshot of a process that has a handle.
LEMMA SnapModulesSound ==
  ASSUME NEW S, Sound(S), NEW pid, SearchHandleList(S, pid) # 0,
         NEW m \in Ptr, IsFree(S, m), NEW n \in Nat,
         NEW T, T = SnapModulesOpened(S, pid, m, n)
  PROVE  Sound(T) /\ FreeOutside(S, T, {m})
<1> DEFINE S0 == Reopen(S, pid)
           S1 == CloseHandle(S0, SearchHandleList(S, pid))
<1>1. Sound(S0) /\ FreeStays(S, S0)
  BY ReopenSound
<1>2. T = CreateHandleFromPointer(Store(S1, m, NewSnapshot("htTHSModule", n)), m, "htTHSModule")
  BY DEF SnapModulesOpened
<1> HIDE DEF S0
<1>3. Sound(S1) /\ FreeStays(S0, S1)
  BY <1>1, CloseSound
<1> HIDE DEF S1
<1>4. FreeStays(S, S1) /\ IsFree(S1, m)
  BY <1>1, <1>3 DEF FreeStays, FreeOutside
<1>5. Sound(T) /\ FreeOutside(S1, T, {m})
  BY <1>2, <1>3, <1>4, SnapshotCreated DEF Snapshots
<1> QED
  BY <1>4, <1>5 DEF FreeStays, FreeOutside

\* Opening a process that has no handle.
LEMMA OpenNewSound ==
  ASSUME NEW S, Sound(S), NEW pid \in Pid, NEW p \in Ptr, NEW m \in Ptr, p # m,
         IsFree(S, p), IsFree(S, m), NEW mapsOpen \in BOOLEAN,
         NEW T, T = OpenNew(S, pid, p, m, mapsOpen)
  PROVE  Sound(T) /\ FreeOutside(S, T, {p, m})
<1> DEFINE obj == NewProcess(pid)
           S1 == CreateHandleFromPointer(Store(S, p, obj), p, obj.kind)
           S2 == SnapModulesOpened(S1, pid, m, 1)
           lost == NewSnapshot("htTHSModule", 0)
<1>1. obj \in Object /\ obj.kind = "htProcesHandle" /\ obj.kind \in Kinds /\ obj.rc >= 1
      /\ obj.pid = pid
  BY DEF NewProcess, Object, Kinds, RefCounted
<1>2. lost \in Object
  BY DEF NewSnapshot, Object, Kinds, RefCounted, Snapshots
<1>3. T = IF mapsOpen THEN CloseHandle(S2, SnapModulesHandle(S1, pid)) ELSE Store(S1, m, lost)
  BY <1>1 DEF OpenNew
<1> HIDE DEF obj, lost
<1>4. /\ Sound(S1)
      /\ Placed(S, S1, p, obj)
      /\ Named(S1, p, obj.kind)
  BY <1>1, CreateSound
<1> HIDE DEF S1
<1>5. S1.heap[p] = obj /\ \A q \in Ptr \ {p} : S1.heap[q] = S.heap[q]
  BY <1>4 DEF Sound, WellFormed, Placed
<1>6. SearchHandleList(S1, pid) # 0
  <2>1. ProcessHandles(S1, pid) # {}
    BY <1>1, <1>4, <1>5 DEF ProcessHandles, Named
  <2>2. ProcessHandles(S1, pid) \subseteq Nat \ {0}
    BY <1>4 DEF ProcessHandles, Live, Handles, Sound, WellFormed
  <2> QED
    BY <2>1, <2>2, LowestIn DEF SearchHandleList
<1>7. CASE mapsOpen
  <2>1. IsFree(S1, m)
    BY <1>5 DEF IsFree
  <2>2. Sound(S2) /\ FreeOutside(S1, S2, {m})
    BY <1>4, <1>6, <2>1, SnapModulesSound
  <2> HIDE DEF S2
  <2>3. Sound(T) /\ FreeStays(S2, T)
    BY <1>3, <1>7, <2>2, CloseSound
  <2> QED
    BY <1>5, <2>2, <2>3 DEF FreeStays, FreeOutside, IsFree
<1>8. CASE ~ mapsOpen
  <2>1. T = Store(S1, m, lost)
    BY <1>3, <1>8
  <2>2. Sound(T)
    <3>1. IsFree(S1, m)
      BY <1>5 DEF IsFree
    <3> QED
      BY <1>2, <1>4, <2>1, <3>1, StoreSound
  <2>3. T.heap = [S1.heap EXCEPT ![m] = lost]
    BY <2>1 DEF Store, Table
  <2> QED
    BY <1>4, <1>5, <2>2, <2>3 DEF Sound, WellFormed, FreeOutside, IsFree
<1> QED
  BY <1>7, <1>8

-----------------------------------------------------------------------------
\* The inductive invariant: types, no dangling handle, no shared object.  The
\* three need each other: that a free cell has no handle follows from
\* NoDangling, that releasing a cell breaks no other handle from NoAlias.
IInv == TypeOK /\ NoDangling /\ NoAlias

\* The empty table satisfies the invariant.
LEMMA InitIInv == Init => IInv
<1> SUFFICES ASSUME Init PROVE IInv
  OBVIOUS
<1>1. hs.list = [i \in 0 .. (InitialMax - 1) |-> EmptyEntry] /\ hs.max = InitialMax
      /\ hs.heap = [p \in Ptr |-> Freed] /\ hs = Table(hs.list, hs.max, hs.heap)
  BY DEF Init, Table
<1>2. Freed \in Object /\ EmptyEntry \in Entry /\ EmptyEntry.type = "htEmpty"
  BY DEF Freed, Object, Entry, EmptyEntry
<1>3. Live(hs) = {}
  BY <1>1, <1>2 DEF Live, Handles
<1>4. WellFormed(hs)
  BY <1>1, <1>2, TableAssumption DEF WellFormed
<1>5. connections \in Nat /\ refs \in [Ptr -> Int]
  BY DEF Init
<1> QED
  BY <1>3, <1>4, <1>5 DEF IInv, TypeOK, NoDangling, NoAlias, LiveObjects, NoSharing

\* Only the table can break the invariant.
LEMMA SoundSuffices ==
  ASSUME Sound(hs'), connections' \in Nat, refs' \in [Ptr -> Int]
  PROVE  IInv'
BY DEF Sound, IInv, TypeOK, NoDangling, NoAlias

\* The history of opens stays a function to the integers.
LEMMA RefsUpdate ==
  ASSUME NEW f \in [Ptr -> Int], NEW p, NEW v \in Int
  PROVE  [f EXCEPT ![p] = v] \in [Ptr -> Int]
OBVIOUS

\* Every call preserves the invariant.
LEMMA NextIInv == IInv /\ [Next]_vars => IInv'
<1> SUFFICES ASSUME IInv, [Next]_vars PROVE IInv'
  OBVIOUS
<1>0. Sound(hs) /\ connections \in Nat /\ refs \in [Ptr -> Int]
  BY DEF IInv, TypeOK, NoDangling, NoAlias, Sound
<1>f. \A p \in FreeCells : p \in Ptr /\ IsFree(hs, p)
  BY DEF FreeCells, IsFree
<1>e. 0 .. MaxEntries \subseteq Nat
  BY TableAssumption
<1>1. ASSUME NEW pid \in Pid, OpenProcess(pid) PROVE IInv'
  <2> DEFINE h == SearchHandleList(hs, pid)
             p == hs.list[h].pointer
  <2>c. connections' \in Nat
    BY <1>0, <1>1 DEF OpenProcess
  <2>1. CASE h # 0 /\ hs' = Reopen(hs, pid) /\ refs' = [refs EXCEPT ![p] = @ + 1]
    <3>1. Sound(hs')
      BY <1>0, <2>1, ReopenSound
    <3>2. refs' \in [Ptr -> Int]
      <4>1. h \in Live(hs)
        BY <1>0, <2>1, SearchFinds DEF ProcessHandles
      <4>2. p \in Ptr
        BY <1>0, <4>1, LiveIsObject
      <4>3. refs[p] + 1 \in Int /\ refs' = [refs EXCEPT ![p] = refs[p] + 1]
        BY <1>0, <2>1, <4>2
      <4> HIDE DEF p
      <4> QED
        BY <1>0, <4>3, RefsUpdate
    <3> QED
      BY <2>c, <3>1, <3>2, SoundSuffices
  <2>2. CASE \E new, m \in FreeCells, mapsOpen \in BOOLEAN :
                /\ new # m
                /\ hs' = OpenNew(hs, pid, new, m, mapsOpen)
                /\ refs' = [refs EXCEPT ![new] = 1]
    <3>1. PICK new \in FreeCells, m \in FreeCells, mapsOpen \in BOOLEAN :
                /\ new # m
                /\ hs' = OpenNew(hs, pid, new, m, mapsOpen)
                /\ refs' = [refs EXCEPT ![new] = 1]
      BY <2>2
    <3>2. Sound(hs')
      BY <1>0, <1>f, <3>1, OpenNewSound
    <3>3. refs' \in [Ptr -> Int]
      BY <1>0, <3>1, RefsUpdate
    <3> QED
      BY <2>c, <3>2, <3>3, SoundSuffices
  <2> QED
    BY <1>1, <2>1, <2>2 DEF OpenProcess
<1>2. ASSUME NEW pid \in Pid, SnapModules(pid) PROVE IInv'
  <2>0. connections' \in Nat /\ refs' \in [Ptr -> Int]
    BY <1>0, <1>2 DEF SnapModules
  <2>1. PICK m \in FreeCells, n \in 0 .. MaxEntries :
       \/ /\ SearchHandleList(hs, pid) # 0
          /\ hs' = SnapModulesOpened(hs, pid, m, n)
       \/ /\ SearchHandleList(hs, pid) = 0
          /\ \E new, tmp \in FreeCells \ {m}, mapsOpen \in BOOLEAN :
               LET S1 == OpenNew(hs, pid, new, tmp, mapsOpen)
                   S2 == CloseHandle(S1, HandleFor(hs))
               IN /\ new # tmp
                  /\ hs' = CreateHandleFromPointer(
                             Store(S2, m, NewSnapshot("htTHSModule", n)), m, "htTHSModule")
       \/ /\ SearchHandleList(hs, pid) = 0
          /\ hs' = CreateHandleFromPointer(
                     Store(hs, m, NewSnapshot("htTHSModule", 0)), m, "htTHSModule")
       \/ hs' = Store(hs, m, NewSnapshot("htTHSModule", 0))
    BY <1>2 DEF SnapModules
  <2>2. CASE SearchHandleList(hs, pid) # 0 /\ hs' = SnapModulesOpened(hs, pid, m, n)
    <3>1. Sound(hs')
      BY <1>0, <1>f, <1>e, <2>2, SnapModulesSound
    <3> QED
      BY <2>0, <3>1, SoundSuffices
  <2>3. ASSUME NEW new \in FreeCells \ {m}, NEW tmp \in FreeCells \ {m},
               NEW mapsOpen \in BOOLEAN, new # tmp,
               hs' = CreateHandleFromPointer(
                       Store(CloseHandle(OpenNew(hs, pid, new, tmp, mapsOpen), HandleFor(hs)),
                             m, NewSnapshot("htTHSModule", n)), m, "htTHSModule")
        PROVE  IInv'
    <3> DEFINE S1 == OpenNew(hs, pid, new, tmp, mapsOpen)
               S2 == CloseHandle(S1, HandleFor(hs))
    <3>1. Sound(S1) /\ FreeOutside(hs, S1, {new, tmp})
      BY <1>0, <1>f, <2>3, OpenNewSound
    <3>2. IsFree(S1, m)
      BY <1>f, <3>1 DEF FreeOutside
    <3>3. hs' = CreateHandleFromPointer(Store(S2, m, NewSnapshot("htTHSModule", n)), m, "htTHSModule")
      BY <2>3
    <3> HIDE DEF S1
    <3>4. Sound(S2) /\ FreeStays(S1, S2)
      BY <3>1, CloseSound
    <3>5. IsFree(S2, m)
      BY <1>f, <3>2, <3>4 DEF FreeStays, FreeOutside
    <3> HIDE DEF S2
    <3> QED
      BY <1>f, <1>e, <2>0, <3>3, <3>4, <3>5, SnapshotCreated, SoundSuffices
         DEF Kinds, RefCounted, Snapshots
  <2>4. CASE hs' = CreateHandleFromPointer(
                     Store(hs, m, NewSnapshot("htTHSModule", 0)), m, "htTHSModule")
    BY <1>0, <1>f, <2>0, <2>4, SnapshotCreated, SoundSuffices DEF Kinds, RefCounted, Snapshots
  <2>5. CASE hs' = Store(hs, m, NewSnapshot("htTHSModule", 0))
    <3>1. NewSnapshot("htTHSModule", 0) \in Object
      BY DEF NewSnapshot, Object, Kinds, RefCounted, Snapshots
    <3>2. Sound(hs')
      BY <1>0, <1>f, <2>5, <3>1, StoreSound
    <3> QED
      BY <2>0, <3>2, SoundSuffices
  <2> QED
    BY <2>1, <2>2, <2>3, <2>4, <2>5
<1>3. ASSUME NEW type \in {"htTHSProcess", "htTHSThread"}, SnapList(type) PROVE IInv'
  <2>1. PICK p \in FreeCells, n \in 0 .. MaxEntries :
          hs' = CreateHandleFromPointer(Store(hs, p, NewSnapshot(type, n)), p, type)
    BY <1>3 DEF SnapList
  <2>2. Sound(hs')
    BY <1>0, <1>f, <1>e, <2>1, SnapshotCreated DEF Kinds, RefCounted, Snapshots
  <2> QED
    BY <1>0, <1>3, <2>2, SoundSuffices DEF SnapList
<1>4. ASSUME NEW type \in {"htPipeHandle", "htNativeThreadHandle"}, OpenPlain(type) PROVE IInv'
  <2>1. PICK p \in FreeCells :
          hs' = CreateHandleFromPointer(Store(hs, p, NewPlain(type)), p, type)
    BY <1>4 DEF OpenPlain
  <2>2. NewPlain(type) \in Object /\ NewPlain(type).kind = type /\ type \in Kinds
        /\ NewPlain(type).rc >= 1
    BY DEF NewPlain, Object, Kinds
  <2>3. hs' = CreateHandleFromPointer(Store(hs, p, NewPlain(type)), p, NewPlain(type).kind)
    BY <2>1, <2>2
  <2>4. Sound(hs')
    BY <1>0, <1>f, <2>2, <2>3, CreateSound
  <2> QED
    BY <1>0, <1>4, <2>4, SoundSuffices DEF OpenPlain
<1>5. ASSUME NEW h \in Handles(hs), SnapshotFirst(h) PROVE IInv'
  <2> DEFINE o == hs.heap[hs.list[h].pointer]
             obj == [o EXCEPT !.it = IF o.count > 0 THEN 1 ELSE 0]
  <2>1. h \in Live(hs) /\ hs' = Store(hs, hs.list[h].pointer, obj)
    BY <1>5 DEF SnapshotFirst, GetHandleType, Live, Snapshots
  <2>2. o \in Object /\ o.rc >= 1
    BY <1>0, <2>1, LiveIsObject
  <2>3. obj \in Object /\ obj.kind = o.kind /\ obj.rc >= 1
    BY <2>2 DEF Object
  <2> HIDE DEF obj
  <2>4. Sound(hs')
    BY <1>0, <2>1, <2>3, UpdateSound
  <2> QED
    BY <1>0, <1>5, <2>4, SoundSuffices DEF SnapshotFirst
<1>6. ASSUME NEW h \in Handles(hs), SnapshotNext(h) PROVE IInv'
  <2> DEFINE o == hs.heap[hs.list[h].pointer]
             obj == [o EXCEPT !.it = @ + 1]
  <2>1. h \in Live(hs) /\ hs' = Store(hs, hs.list[h].pointer, obj)
    BY <1>6 DEF SnapshotNext, GetHandleType, Live, Snapshots
  <2>2. o \in Object /\ o.rc >= 1
    BY <1>0, <2>1, LiveIsObject
  <2>3. obj \in Object /\ obj.kind = o.kind /\ obj.rc >= 1
    BY <2>2 DEF Object
  <2> HIDE DEF obj
  <2>4. Sound(hs')
    BY <1>0, <2>1, <2>3, UpdateSound
  <2> QED
    BY <1>0, <1>6, <2>4, SoundSuffices DEF SnapshotNext
<1>7. ASSUME NEW h \in Handles(hs), ClientClose(h) PROVE IInv'
  <2>1. Sound(hs')
    BY <1>0, <1>7, CloseSound DEF ClientClose
  <2>2. connections' \in Nat
    BY <1>0, <1>7 DEF ClientClose
  <2>3. refs' \in [Ptr -> Int]
    <3> DEFINE p == hs.list[h].pointer
               v == IF hs'.heap[p] = Freed THEN 0 ELSE refs[p] - 1
    <3>1. p \in Ptr
      BY <1>0, <1>7, LiveIsObject DEF ClientClose
    <3>2. v \in Int
      BY <1>0, <3>1
    <3>3. refs' = [refs EXCEPT ![p] = v] \/ refs' = refs
      BY <1>7 DEF ClientClose
    <3> HIDE DEF p, v
    <3> QED
      BY <1>0, <3>2, <3>3, RefsUpdate
  <2> QED
    BY <2>1, <2>2, <2>3, SoundSuffices
<1>8. CASE threadStartedEvent
  <2>1. Sound(hs') /\ connections' \in Nat /\ refs' \in [Ptr -> Int]
    BY <1>0, <1>8 DEF threadStartedEvent
  <2> QED
    BY <2>1, SoundSuffices
<1>9. CASE threadClosedEvent
  <2>1. Sound(hs')
    BY <1>0, <1>9, PipesSound DEF threadClosedEvent
  <2>2. connections' \in Nat /\ refs' \in [Ptr -> Int]
    BY <1>0, <1>9 DEF threadClosedEvent, Connected
  <2> QED
    BY <2>1, <2>2, SoundSuffices
<1>10. CASE UNCHANGED vars
  <2>1. Sound(hs') /\ connections' \in Nat /\ refs' \in [Ptr -> Int]
    BY <1>0, <1>10 DEF vars
  <2> QED
    BY <2>1, SoundSuffices
<1> QED
  BY <1>1, <1>2, <1>3, <1>4, <1>5, <1>6, <1>7, <1>8, <1>9, <1>10 DEF Next

\* The handle table and its objects keep their types, for every table size
\* and every sequence of calls.
THEOREM TypeCorrect == Spec => []TypeOK
<1>1. IInv => TypeOK
  BY DEF IInv
<1> QED
  BY InitIInv, NextIInv, <1>1, PTL DEF Spec

\* No handle dangles: what GetPointerFromHandle gives is an object of the type
\* that GetHandleType says, with a reference left.
THEOREM HandleSafety == Spec => []NoDangling
<1>1. IInv => NoDangling
  BY DEF IInv
<1> QED
  BY InitIInv, NextIInv, <1>1, PTL DEF Spec

\* No two handles share an object: what closing one handle frees was named by
\* that handle alone.
THEOREM ObjectsApart == Spec => []NoAlias
<1>1. IInv => NoAlias
  BY DEF IInv
<1> QED
  BY InitIInv, NextIInv, <1>1, PTL DEF Spec

-----------------------------------------------------------------------------
(* What a call leaves alone.                                                *)

\* Between S and T only the handles H and the cells C changed.  A table that
\* grew has lost its handles, and gained none.
Frame(S, T, H, C) ==
  /\ T.max >= S.max
  /\ \A q \in Ptr \ C : T.heap[q] = S.heap[q]
  /\ \A h \in Live(T) \ H : h \in Live(S) /\ T.list[h] = S.list[h]
  /\ T.max = S.max => \A h \in Live(S) \ H : h \in Live(T) /\ T.list[h] = S.list[h]

\* Frames compose, as the calls do.
LEMMA FrameTrans ==
  ASSUME NEW S, NEW T, NEW U, WellFormed(S), WellFormed(T), WellFormed(U),
         NEW H, NEW C, NEW K, NEW D, Frame(S, T, H, C), Frame(T, U, K, D)
  PROVE  Frame(S, U, H \cup K, C \cup D)
<1>1. S.max \in Nat /\ T.max \in Nat /\ U.max \in Nat
  BY DEF WellFormed
<1>2. U.max >= S.max /\ (U.max = S.max => T.max = S.max /\ U.max = T.max)
  BY <1>1 DEF Frame
<1>3. \A h \in Live(U) \ (H \cup K) : h \in Live(S) /\ U.list[h] = S.list[h]
  BY DEF Frame
<1>4. U.max = S.max =>
        \A h \in Live(S) \ (H \cup K) : h \in Live(U) /\ U.list[h] = S.list[h]
  BY <1>2 DEF Frame
<1>5. \A q \in Ptr \ (C \cup D) : U.heap[q] = S.heap[q]
  BY DEF Frame
<1> QED
  BY <1>2, <1>3, <1>4, <1>5 DEF Frame

\* Handles that are live neither before nor after did not change.
LEMMA FrameDrops ==
  ASSUME NEW S, NEW T, NEW H, NEW C, NEW h, Frame(S, T, H, C),
         h \notin Live(S), h \notin Live(T)
  PROVE  Frame(S, T, H \ {h}, C)
BY DEF Frame

\* The handle that CreateHandleFromPointer gives is not in use.
LEMMA HandleForNew ==
  ASSUME NEW S, WellFormed(S)
  PROVE  HandleFor(S) \notin Live(S)
<1>1. CASE EmptySpots(S) # {}
  BY <1>1, HandleForSpot
<1>2. CASE EmptySpots(S) = {}
  BY <1>2 DEF HandleFor, Live, Handles, WellFormed
<1> QED
  BY <1>1, <1>2

\* A new object in free memory, without a handle.
LEMMA StoreFrame ==
  ASSUME NEW S, Sound(S), NEW p \in Ptr, NEW obj, NEW T, T = Store(S, p, obj)
  PROVE  Frame(S, T, {}, {p}) /\ T.heap[p] = obj /\ T.max = S.max
<1>1. T.list = S.list /\ T.max = S.max /\ T.heap = [S.heap EXCEPT ![p] = obj]
  BY DEF Store, Table
<1>2. S.heap \in [Ptr -> Object] /\ S.max \in Nat
  BY DEF Sound, WellFormed
<1>3. Live(T) = Live(S)
  BY <1>1 DEF Live, Handles
<1> QED
  BY <1>1, <1>2, <1>3 DEF Frame

\* A new object and its handle.
LEMMA CreateFrame ==
  ASSUME NEW S, Sound(S), NEW p \in Ptr, IsFree(S, p),
         NEW obj \in Object, obj.kind \in Kinds, obj.rc >= 1,
         NEW T, T = CreateHandleFromPointer(Store(S, p, obj), p, obj.kind)
  PROVE  /\ Frame(S, T, {HandleFor(S)}, {p}) /\ T.heap[p] = obj
         /\ HandleFor(S) \in Live(T) /\ T.list[HandleFor(S)] = [type |-> obj.kind, pointer |-> p]
<1> DEFINE U == Store(S, p, obj)
           e == [type |-> obj.kind, pointer |-> p]
           i == HandleFor(S)
<1>1. U.list = S.list /\ U.max = S.max /\ U.heap = [S.heap EXCEPT ![p] = obj]
  BY DEF Store, Table
<1>2. Live(U) = Live(S) /\ EmptySpots(U) = EmptySpots(S) /\ HandleFor(U) = i
  BY <1>1 DEF Live, Handles, EmptySpots, HandleFor
<1>3. S.max \in Nat /\ S.max > 1 /\ S.list \in [0 .. (S.max - 1) -> Entry]
      /\ S.heap \in [Ptr -> Object] /\ e.type # "htEmpty"
  BY DEF Sound, WellFormed, Kinds, RefCounted, Snapshots
<1>4. T.heap = [S.heap EXCEPT ![p] = obj]
  BY CreateSound DEF Placed
<1>5. CASE EmptySpots(S) # {}
  <2>1. T.list = [S.list EXCEPT ![i] = e] /\ T.max = S.max
    BY <1>1, <1>2, <1>5 DEF CreateHandleFromPointer, Table
  <2>2. i \in Handles(S) /\ i \notin Live(S)
    BY <1>5, HandleForSpot DEF Sound
  <2> HIDE DEF i, U, e
  <2>3. Handles(T) = Handles(S) /\ Handles(S) \subseteq 0 .. (S.max - 1)
    BY <2>1, <1>3 DEF Handles
  <2>4. T.list[i] = e /\ \A h \in Handles(S) \ {i} : T.list[h] = S.list[h]
    BY <2>1, <2>2, <2>3, <1>3
  <2>5. Live(T) = Live(S) \cup {i}
    BY <1>3, <2>2, <2>3, <2>4 DEF Live
  <2>6. \A h \in Live(S) : h \in Handles(S) /\ h # i
    BY <2>2 DEF Live
  <2>7. Frame(S, T, {i}, {p})
    BY <1>3, <1>4, <2>1, <2>4, <2>5, <2>6 DEF Frame
  <2> QED
    BY <1>3, <1>4, <2>4, <2>5, <2>7 DEF i, e
<1>6. CASE EmptySpots(S) = {}
  <2>1. i = S.max /\ T.max = 2 * S.max /\ T.list = [Relocate(U) EXCEPT ![S.max] = e]
    BY <1>1, <1>2, <1>6 DEF CreateHandleFromPointer, Table, HandleFor
  <2>2. Relocate(U) = [j \in 0 .. (2 * S.max - 1) |-> EmptyEntry]
    BY <1>1 DEF Relocate
  <2> HIDE DEF i, U, e
  <2>3. i \in Handles(T) /\ i \in 0 .. (2 * S.max - 1) /\ Handles(T) \subseteq 0 .. (2 * S.max - 1)
    BY <1>3, <2>1 DEF Handles
  <2>4. T.list[i] = e /\ \A h \in Handles(T) \ {i} : T.list[h] = EmptyEntry
    BY <2>1, <2>2, <2>3
  <2>5. Live(T) = {i}
    BY <1>3, <2>3, <2>4 DEF Live, EmptyEntry
  <2>6. T.max > S.max
    BY <1>3, <2>1
  <2>7. Frame(S, T, {i}, {p})
    BY <1>3, <1>4, <2>1, <2>5, <2>6 DEF Frame
  <2> QED
    BY <1>3, <1>4, <2>4, <2>5, <2>7 DEF i, e
<1> QED
  BY <1>5, <1>6

\* Closing a handle: one reference less, or the object released and the handle
\* gone.
LEMMA CloseFrame ==
  ASSUME NEW S, Sound(S), NEW h \in Live(S), NEW T, T = CloseHandle(S, h)
  PROVE  LET p == S.list[h].pointer
             o == S.heap[p]
         IN /\ Frame(S, T, {h}, {p}) /\ T.max = S.max
            /\ \/ h \notin Live(T) /\ T.heap[p] = Released(o)
               \/ /\ h \in Live(T) /\ T.list[h] = S.list[h] /\ o.rc > 1
                  /\ T.heap[p] = [o EXCEPT !.rc = @ + (-1)]
<1> DEFINE p == S.list[h].pointer
           o == S.heap[p]
<1>1. /\ p \in Ptr /\ o \in Object /\ GetHandleType(S, h) # "htEmpty"
      /\ o.kind \in Kinds /\ o.rc >= 1 /\ S.max \in Nat
      /\ S.heap \in [Ptr -> Object] /\ S.list \in [0 .. (S.max - 1) -> Entry]
      /\ Live(S) \subseteq Handles(S) /\ Handles(S) \subseteq 0 .. (S.max - 1)
  BY DEF Sound, WellFormed, LiveObjects, GetHandleType, Live, Handles, Entry, EmptyEntry
<1>2. CASE o.kind \in RefCounted /\ o.rc - 1 > 0
  <2> DEFINE obj == [o EXCEPT !.rc = @ + (-1)]
  <2>1. T = Store(S, p, obj) /\ o.rc > 1
    BY <1>1, <1>2 DEF CloseHandle, AddRef, Object
  <2>2. T.list = S.list /\ T.max = S.max /\ T.heap = [S.heap EXCEPT ![p] = obj]
    BY <2>1 DEF Store, Table
  <2>3. T.heap[p] = obj
    BY <1>1, <2>2
  <2> HIDE DEF obj
  <2>4. Live(T) = Live(S)
    BY <2>2 DEF Live, Handles
  <2>5. Frame(S, T, {h}, {p})
    BY <1>1, <2>2, <2>4 DEF Frame
  <2>6. T.heap[p] = [o EXCEPT !.rc = @ + (-1)]
    BY <2>3 DEF obj
  <2> HIDE DEF p, o
  <2> QED
    BY <2>1, <2>2, <2>4, <2>5, <2>6 DEF p, o
<1>3. CASE ~ (o.kind \in RefCounted /\ o.rc - 1 > 0)
  <2> DEFINE obj == Released(o)
             U == Store(S, p, obj)
  <2>1. T = RemoveHandle(U, h)
    BY <1>1, <1>3 DEF CloseHandle
  <2>2. U.list = S.list /\ U.max = S.max /\ U.heap = [S.heap EXCEPT ![p] = obj]
    BY DEF Store, Table
  <2> HIDE DEF U, obj
  <2>3. Live(U) = Live(S)
    BY <2>2 DEF Live, Handles
  <2>4. /\ T.list = [S.list EXCEPT ![h] = EmptyEntry] /\ T.max = S.max
        /\ T.heap = [S.heap EXCEPT ![p] = obj]
    BY <2>1, <2>2, <2>3 DEF RemoveHandle, Table
  <2>5. /\ T.list[h] = EmptyEntry /\ \A k \in Handles(S) \ {h} : T.list[k] = S.list[k]
        /\ T.heap[p] = obj /\ \A q \in Ptr \ {p} : T.heap[q] = S.heap[q]
    BY <1>1, <2>4
  <2>6. Live(T) = Live(S) \ {h}
    BY <2>4, <2>5 DEF Live, Handles, EmptyEntry
  <2>7. Frame(S, T, {h}, {p})
    BY <1>1, <2>4, <2>5, <2>6 DEF Frame
  <2> QED
    BY <2>4, <2>5, <2>6, <2>7 DEF obj
<1> QED
  BY <1>2, <1>3

\* Opening a process that has a handle and closing it again changes nothing.
LEMMA ReopenClose ==
  ASSUME NEW S, Sound(S), NEW pid, SearchHandleList(S, pid) # 0
  PROVE  CloseHandle(Reopen(S, pid), SearchHandleList(S, pid)) = S
<1> DEFINE h == SearchHandleList(S, pid)
           p == S.list[h].pointer
           o == S.heap[p]
           obj == [o EXCEPT !.rc = @ + 1]
           T == Reopen(S, pid)
<1>1. h \in Live(S) /\ S.list[h].type = "htProcesHandle"
  BY SearchFinds DEF ProcessHandles
<1>2. /\ p \in Ptr /\ o \in Object /\ o.rc >= 1 /\ o.kind = "htProcesHandle"
      /\ S.heap \in [Ptr -> Object] /\ S = Table(S.list, S.max, S.heap)
  BY <1>1 DEF Sound, WellFormed, LiveObjects, Live, Handles, Entry, EmptyEntry
<1>3. T.list = S.list /\ T.max = S.max /\ T.heap = [S.heap EXCEPT ![p] = obj]
  BY DEF Reopen, AddRef, Store, Table
<1>4. obj.rc = o.rc + 1 /\ obj.kind = "htProcesHandle" /\ obj \in Object
      /\ [obj EXCEPT !.rc = @ + (-1)] = o
  <2>1. o = [kind |-> o.kind, rc |-> o.rc, pid |-> o.pid, count |-> o.count, it |-> o.it]
        /\ o.rc \in Int /\ o.pid \in Pid \cup {NULL} /\ o.count \in Nat /\ o.it \in Int
    BY <1>2 DEF Object
  <2>2. obj = [kind |-> o.kind, rc |-> o.rc + 1, pid |-> o.pid, count |-> o.count, it |-> o.it]
    BY <2>1
  <2> HIDE DEF obj
  <2>3. [obj EXCEPT !.rc = @ + (-1)] =
          [kind |-> o.kind, rc |-> o.rc + 1 + (-1), pid |-> o.pid, count |-> o.count, it |-> o.it]
    BY <2>2
  <2>4. o.rc + 1 + (-1) = o.rc
    BY <2>1
  <2>5. [obj EXCEPT !.rc = @ + (-1)] = o
    BY <2>1, <2>3, <2>4
  <2>6. obj.rc = o.rc + 1 /\ obj.kind = "htProcesHandle"
    BY <1>2, <2>2
  <2>7. "htProcesHandle" \in Kinds \cup {"free"} /\ o.rc + 1 \in Int
    BY <2>1 DEF Kinds, RefCounted
  <2>8. obj \in Object
    BY <1>2, <2>1, <2>2, <2>7 DEF Object
  <2> QED
    BY <2>5, <2>6, <2>8
<1> HIDE DEF T, h, o, obj
<1>5. T.heap[p] = obj /\ [T.heap EXCEPT ![p] = o] = S.heap
  BY <1>2, <1>3 DEF o
<1>6. GetHandleType(T, h) # "htEmpty" /\ T.list[h].pointer = p
  BY <1>1, <1>3 DEF GetHandleType, Live, Handles
<1>7. T.heap[p].kind \in RefCounted /\ T.heap[p].rc - 1 > 0
  BY <1>2, <1>4, <1>5 DEF RefCounted, Object
<1>8. CloseHandle(T, h) = Store(T, p, [T.heap[p] EXCEPT !.rc = @ + (-1)])
  BY <1>6, <1>7 DEF CloseHandle, AddRef
<1>9. CloseHandle(T, h) = Store(T, p, o)
  BY <1>4, <1>5, <1>8
<1> QED
  BY <1>2, <1>3, <1>5, <1>9 DEF Store, h, T

\* The module snapshot of a process that has a handle is the new handle only.
LEMMA SnapModulesFrame ==
  ASSUME NEW S, Sound(S), NEW m \in Ptr, IsFree(S, m), NEW n \in Nat,
         NEW T, T = CreateHandleFromPointer(Store(S, m, NewSnapshot("htTHSModule", n)), m, "htTHSModule")
  PROVE  /\ Sound(T) /\ Frame(S, T, {HandleFor(S)}, {m})
         /\ T.heap[m] = NewSnapshot("htTHSModule", n)
         /\ HandleFor(S) \in Live(T)
         /\ T.list[HandleFor(S)] = [type |-> "htTHSModule", pointer |-> m]
<1> DEFINE obj == NewSnapshot("htTHSModule", n)
<1>1. obj \in Object /\ obj.kind = "htTHSModule" /\ obj.kind \in Kinds /\ obj.rc >= 1
  BY DEF NewSnapshot, Object, Kinds, RefCounted, Snapshots
<1>2. T = CreateHandleFromPointer(Store(S, m, obj), m, obj.kind)
  BY <1>1
<1> HIDE DEF obj
<1>3. Sound(T)
  BY <1>1, <1>2, CreateSound
<1>4. /\ Frame(S, T, {HandleFor(S)}, {m}) /\ T.heap[m] = obj
      /\ HandleFor(S) \in Live(T)
      /\ T.list[HandleFor(S)] = [type |-> obj.kind, pointer |-> m]
  BY <1>1, <1>2, CreateFrame
<1> QED
  BY <1>1, <1>3, <1>4 DEF obj

\* A module snapshot that is closed again leaves nothing.
LEMMA PassingSnapshot ==
  ASSUME NEW S, Sound(S), NEW pid, SearchHandleList(S, pid) # 0, NEW m \in Ptr, IsFree(S, m),
         NEW T, T = CloseHandle(SnapModulesOpened(S, pid, m, 1), SnapModulesHandle(S, pid))
  PROVE  Sound(T) /\ Frame(S, T, {}, {m}) /\ T.heap[m] = Freed
<1> DEFINE U == CreateHandleFromPointer(Store(S, m, NewSnapshot("htTHSModule", 1)), m, "htTHSModule")
           i == HandleFor(S)
<1>0. U = CreateHandleFromPointer(Store(S, m, NewSnapshot("htTHSModule", 1)), m, "htTHSModule")
  OBVIOUS
<1>1. T = CloseHandle(U, i)
  BY ReopenClose DEF SnapModulesOpened, SnapModulesHandle
<1> HIDE DEF U
<1>2. /\ Sound(U) /\ Frame(S, U, {i}, {m}) /\ U.heap[m] = NewSnapshot("htTHSModule", 1)
      /\ i \in Live(U) /\ U.list[i].pointer = m
  <2>1. 1 \in Nat
    OBVIOUS
  <2>2. /\ Sound(U) /\ Frame(S, U, {i}, {m})
        /\ U.heap[m] = NewSnapshot("htTHSModule", 1)
        /\ i \in Live(U)
        /\ U.list[i] = [type |-> "htTHSModule", pointer |-> m]
    BY <1>0, <2>1, SnapModulesFrame
  <2> HIDE DEF i
  <2> QED
    BY <2>2
<1>3. i \notin Live(S)
  BY HandleForNew DEF Sound
<1> HIDE DEF i
<1>4. U.heap[m].rc = 1 /\ Released(U.heap[m]) = Freed
  BY <1>2 DEF NewSnapshot, Released
<1>5. Frame(U, T, {i}, {m}) /\ i \notin Live(T) /\ T.heap[m] = Freed
  <2>1. /\ Frame(U, T, {i}, {m})
        /\ (i \notin Live(T) /\ T.heap[m] = Released(U.heap[m])) \/ U.heap[m].rc > 1
    BY <1>1, <1>2, CloseFrame
  <2> QED
    BY <1>4, <2>1
<1>6. Sound(T)
  BY <1>1, <1>2, CloseSound
<1>7. Frame(S, T, {i} \cup {i}, {m} \cup {m})
  BY <1>2, <1>5, <1>6, FrameTrans DEF Sound
<1>8. Frame(S, T, ({i} \cup {i}) \ {i}, {m} \cup {m})
  BY <1>3, <1>5, <1>7, FrameDrops
<1>9. ({i} \cup {i}) \ {i} = {} /\ {m} \cup {m} = {m}
  OBVIOUS
<1> QED
  BY <1>5, <1>6, <1>8, <1>9

\* A process without a handle gets the one of the first empty spot, unless the
\* table was full with it.
LEMMA OpenNewFrame ==
  ASSUME NEW S, Sound(S), NEW pid \in Pid, NEW p \in Ptr, NEW m \in Ptr, p # m,
         IsFree(S, p), IsFree(S, m), NEW mapsOpen \in BOOLEAN,
         NEW T, T = OpenNew(S, pid, p, m, mapsOpen)
  PROVE  /\ Sound(T) /\ Frame(S, T, {HandleFor(S)}, {p, m})
         /\ T.heap[p] = NewProcess(pid) /\ T.heap[m].kind \in {"free", "htTHSModule"}
         /\ HandleFor(S) \in Live(T) =>
              T.list[HandleFor(S)] = [type |-> "htProcesHandle", pointer |-> p]
         /\ T.max = S.max => HandleFor(S) \in Live(T)
<1> DEFINE obj == NewProcess(pid)
           S1 == CreateHandleFromPointer(Store(S, p, obj), p, obj.kind)
           lost == NewSnapshot("htTHSModule", 0)
           i == HandleFor(S)
<1>1. obj \in Object /\ obj.kind = "htProcesHandle" /\ obj.kind \in Kinds /\ obj.rc >= 1
      /\ obj.pid = pid
  BY DEF NewProcess, Object, Kinds, RefCounted
<1>2. lost \in Object /\ lost.kind = "htTHSModule"
  BY DEF NewSnapshot, Object, Kinds, RefCounted, Snapshots
<1>3. T = IF mapsOpen THEN CloseHandle(SnapModulesOpened(S1, pid, m, 1), SnapModulesHandle(S1, pid))
                      ELSE Store(S1, m, lost)
  BY <1>1 DEF OpenNew
<1>4. i \notin Live(S)
  BY HandleForNew DEF Sound
<1> HIDE DEF obj, lost
<1>s. S1 = CreateHandleFromPointer(Store(S, p, obj), p, obj.kind)
  OBVIOUS
<1> HIDE DEF S1
<1>5. /\ Sound(S1) /\ Frame(S, S1, {i}, {p}) /\ S1.heap[p] = obj
      /\ i \in Live(S1) /\ S1.list[i] = [type |-> "htProcesHandle", pointer |-> p]
  <2>1. Sound(S1)
    BY <1>1, <1>s, CreateSound
  <2>2. /\ Frame(S, S1, {i}, {p}) /\ S1.heap[p] = obj
        /\ i \in Live(S1) /\ S1.list[i] = [type |-> obj.kind, pointer |-> p]
    BY <1>1, <1>s, CreateFrame DEF Frame
  <2> QED
    BY <1>1, <2>1, <2>2
<1> HIDE DEF i
<1>6. IsFree(S1, m)
  BY <1>5 DEF IsFree, Frame
<1>7. SearchHandleList(S1, pid) # 0
  <2>1. i \in ProcessHandles(S1, pid)
    BY <1>1, <1>5 DEF ProcessHandles
  <2>2. ProcessHandles(S1, pid) \subseteq Nat \ {0}
    BY <1>5 DEF ProcessHandles, Live, Handles, Sound, WellFormed
  <2> QED
    BY <2>1, <2>2, LowestIn DEF SearchHandleList
<1>8. Sound(T) /\ Frame(S1, T, {}, {m}) /\ T.heap[m].kind \in {"free", "htTHSModule"}
  <2>1. CASE mapsOpen
    <3>1. Sound(T) /\ Frame(S1, T, {}, {m}) /\ T.heap[m] = Freed
      BY <1>3, <1>5, <1>6, <1>7, <2>1, PassingSnapshot
    <3> QED
      BY <3>1 DEF Freed
  <2>2. CASE ~ mapsOpen
    <3>1. T = Store(S1, m, lost)
      BY <1>3, <2>2
    <3> QED
      BY <1>2, <1>5, <1>6, <3>1, StoreSound, StoreFrame
  <2> QED
    BY <2>1, <2>2
<1>9. Frame(S, T, {i}, {p, m})
  <2>1. Frame(S, T, {i} \cup {}, {p} \cup {m})
    BY <1>5, <1>8, FrameTrans DEF Sound
  <2>2. {i} \cup {} = {i} /\ {p} \cup {m} = {p, m}
    OBVIOUS
  <2> QED
    BY <2>1, <2>2
<1>10. T.heap[p] = obj
  BY <1>5, <1>8 DEF Frame
<1>11. i \in Live(T) => T.list[i] = [type |-> "htProcesHandle", pointer |-> p]
  BY <1>5, <1>8 DEF Frame
<1>12. T.max = S.max => i \in Live(T)
  <2>1. S.max \in Nat /\ S1.max \in Nat /\ T.max \in Nat
    BY <1>5, <1>8 DEF Sound, WellFormed
  <2>2. S1.max >= S.max /\ T.max >= S1.max
    BY <1>5, <1>8 DEF Frame
  <2>3. T.max = S.max => T.max = S1.max
    BY <2>1, <2>2
  <2> QED
    BY <1>5, <1>8, <2>3 DEF Frame
<1> QED
  BY <1>8, <1>9, <1>10, <1>11, <1>12 DEF obj, i

\* A process that was opened for a snapshot only is closed again: no handle is
\* left, nor, unless the table grew, the object.
LEMMA PassingProcess ==
  ASSUME NEW S, Sound(S), NEW pid \in Pid, NEW p \in Ptr, NEW m \in Ptr, p # m,
         IsFree(S, p), IsFree(S, m), NEW mapsOpen \in BOOLEAN,
         NEW T, T = CloseHandle(OpenNew(S, pid, p, m, mapsOpen), HandleFor(S))
  PROVE  /\ Sound(T) /\ Frame(S, T, {}, {p, m})
         /\ T.heap[m].kind \in {"free", "htTHSModule"}
         /\ T.max = S.max => T.heap[p] = Freed
<1> DEFINE U == OpenNew(S, pid, p, m, mapsOpen)
           i == HandleFor(S)
<1>0. U = OpenNew(S, pid, p, m, mapsOpen) /\ T = CloseHandle(U, i)
  OBVIOUS
<1> HIDE DEF U
<1>1. /\ Sound(U) /\ Frame(S, U, {i}, {p, m})
      /\ U.heap[p] = NewProcess(pid) /\ U.heap[m].kind \in {"free", "htTHSModule"}
      /\ i \in Live(U) => U.list[i].pointer = p
      /\ U.max = S.max => i \in Live(U)
  <2>1. /\ Sound(U) /\ Frame(S, U, {i}, {p, m})
        /\ U.heap[p] = NewProcess(pid) /\ U.heap[m].kind \in {"free", "htTHSModule"}
        /\ i \in Live(U) => U.list[i] = [type |-> "htProcesHandle", pointer |-> p]
        /\ U.max = S.max => i \in Live(U)
    BY <1>0, OpenNewFrame
  <2> HIDE DEF i
  <2> QED
    BY <2>1
<1>2. i \notin Live(S)
  BY HandleForNew DEF Sound
<1>3. T = CloseHandle(U, i)
  BY <1>0
<1> HIDE DEF i
<1>4. U.heap[p].rc = 1 /\ Released(U.heap[p]) = Freed
  BY <1>1 DEF NewProcess, Released
<1>5. Sound(T)
  BY <1>1, <1>3, CloseSound
<1>6. /\ Frame(U, T, {i}, {p}) /\ T.max = U.max /\ i \notin Live(T)
      /\ U.max = S.max => T.heap[p] = Freed
  <2>1. CASE i \in Live(U)
    <3>1. /\ Frame(U, T, {i}, {p}) /\ T.max = U.max
          /\ (i \notin Live(T) /\ T.heap[p] = Released(U.heap[p])) \/ U.heap[p].rc > 1
      <4>1. LET q == U.list[i].pointer
            IN /\ Frame(U, T, {i}, {q}) /\ T.max = U.max
               /\ \/ i \notin Live(T) /\ T.heap[q] = Released(U.heap[q])
                  \/ /\ i \in Live(T) /\ T.list[i] = U.list[i] /\ U.heap[q].rc > 1
                     /\ T.heap[q] = [U.heap[q] EXCEPT !.rc = @ + (-1)]
        BY <1>1, <1>3, <2>1, CloseFrame
      <4>2. U.list[i].pointer = p
        BY <1>1, <2>1
      <4> QED
        BY <4>1, <4>2
    <3> QED
      BY <1>4, <3>1
  <2>2. CASE i \notin Live(U)
    <3>1. GetHandleType(U, i) = "htEmpty"
      BY <2>2 DEF GetHandleType, Live
    <3>2. T = U
      BY <1>3, <3>1 DEF CloseHandle
    <3>3. U.max \in Nat
      BY <1>1 DEF Sound, WellFormed
    <3> QED
      BY <1>1, <2>2, <3>2, <3>3 DEF Frame
  <2> QED
    BY <2>1, <2>2
<1>7. Frame(S, T, {i} \cup {i}, {p, m} \cup {p})
  BY <1>1, <1>5, <1>6, FrameTrans DEF Sound
<1>8. Frame(S, T, ({i} \cup {i}) \ {i}, {p, m} \cup {p})
  BY <1>2, <1>6, <1>7, FrameDrops
<1>9. ({i} \cup {i}) \ {i} = {} /\ {p, m} \cup {p} = {p, m}
  OBVIOUS
<1>10. T.heap[m] = U.heap[m]
  BY <1>6 DEF Frame
<1> QED
  BY <1>1, <1>5, <1>6, <1>8, <1>9, <1>10

\* Closing every pipe changes the pipes.
LEMMA PipesFrame ==
  ASSUME NEW S, Sound(S), NEW T, T = CloseAllPipes(S)
  PROVE  \E H \in SUBSET Live(S), C \in SUBSET Ptr :
           /\ Frame(S, T, H, C) /\ C = {S.list[h].pointer : h \in H} /\ T.max = S.max
           /\ \A h \in H : h \notin Live(T) /\ T.heap[S.list[h].pointer] = Freed
<1> DEFINE H == {h \in Live(S) : S.list[h].type = "htPipeHandle"}
           C == {S.list[h].pointer : h \in H}
<1>1. /\ T.list = [h \in 0 .. (S.max - 1) |-> IF h \in H THEN EmptyEntry ELSE S.list[h]]
      /\ T.max = S.max
      /\ T.heap = [p \in Ptr |-> IF \E h \in H : S.list[h].pointer = p
                                 THEN Freed ELSE S.heap[p]]
  BY DEF CloseAllPipes, Table
<1>2. H \subseteq Live(S) /\ S.max \in Nat /\ \A h \in H : S.list[h].pointer \in Ptr
  BY LiveIsObject DEF Sound, WellFormed
<1> HIDE DEF H
<1>3. Live(T) = Live(S) \ H /\ \A k \in Live(T) : T.list[k] = S.list[k]
  BY <1>1 DEF Live, Handles, Sound, WellFormed, EmptyEntry
<1>4. \A q \in Ptr \ C : T.heap[q] = S.heap[q]
  BY <1>1
<1>5. Frame(S, T, H, C)
  BY <1>1, <1>2, <1>3, <1>4 DEF Frame
<1>6. \A h \in H : h \notin Live(T) /\ T.heap[S.list[h].pointer] = Freed
  BY <1>1, <1>2, <1>3
<1>7. C \in SUBSET Ptr /\ H \in SUBSET Live(S) /\ C = {S.list[h].pointer : h \in H}
  BY <1>2
<1> HIDE DEF C
<1> QED
  BY <1>1, <1>5, <1>6, <1>7

-----------------------------------------------------------------------------
(* Reference counts, orphans and the handles that clients hold.             *)

Accounts == hs.max >= InitialMax /\ RefCountExact /\ NoOrphan

\* What HandlesKept says of a step.
KeptStep == hs'.max = hs.max => \A h \in Live(hs) : HandleSurvives(h)

Names(S, p) == \E h \in Live(S) : S.list[h].pointer = p

\* It is enough to look at the handles and the cells that changed.
LEMMA FrameAccounts ==
  ASSUME IInv, IInv', Accounts, NEW H, NEW C, Frame(hs, hs', H, C),
         \A h \in Live(hs) \ H : /\ hs.list[h].pointer \notin C
                                 /\ refs'[hs.list[h].pointer] = refs[hs.list[h].pointer],
         \A h \in Live(hs') \cap H : hs'.list[h].type = "htProcesHandle" =>
           hs'.heap[hs'.list[h].pointer].rc = refs'[hs'.list[h].pointer],
         hs'.max = hs.max => \A h \in Live(hs) \cap H : hs.list[h].pointer \in C,
         hs'.max = hs.max => \A p \in C :
           hs'.heap[p].kind \in Kinds \ {"htTHSModule"} /\ hs'.heap[p].rc > 0 => Names(hs', p),
         hs'.max = hs.max => \A h \in Live(hs) \cap H : HandleSurvives(h)
  PROVE  Accounts' /\ KeptStep
<1>1. Sound(hs) /\ Sound(hs') /\ hs.max \in Nat /\ hs'.max \in Nat
  BY DEF IInv, TypeOK, NoDangling, NoAlias, Sound, WellFormed
<1>2. \A h \in Live(hs) : hs.list[h].pointer \in Ptr
  BY <1>1, LiveIsObject
<1>3. hs'.max >= hs.max /\ hs'.max >= InitialMax
  BY <1>1, TableAssumption DEF Frame, Accounts
<1>4. RefCountExact'
  <2> SUFFICES ASSUME NEW h \in Live(hs'), hs'.list[h].type = "htProcesHandle"
               PROVE  hs'.heap[hs'.list[h].pointer].rc = refs'[hs'.list[h].pointer]
    BY DEF RefCountExact
  <2>1. CASE h \in H
    BY <2>1
  <2>2. CASE h \notin H
    <3>1. h \in Live(hs) /\ hs'.list[h] = hs.list[h]
      BY <2>2 DEF Frame
    <3>2. hs'.heap[hs.list[h].pointer] = hs.heap[hs.list[h].pointer]
      BY <1>2, <2>2, <3>1 DEF Frame
    <3> QED
      BY <2>2, <3>1, <3>2 DEF Accounts, RefCountExact
  <2> QED
    BY <2>1, <2>2
<1>5. NoOrphan'
  <2> SUFFICES ASSUME hs'.max = InitialMax, NEW p \in Ptr,
                      hs'.heap[p].kind \in Kinds \ {"htTHSModule"}, hs'.heap[p].rc > 0
               PROVE  Names(hs', p)
    BY DEF NoOrphan, Names
  <2>1. hs.max = InitialMax /\ hs'.max = hs.max
    BY <1>1, <1>3, TableAssumption DEF Accounts
  <2>2. CASE p \in C
    BY <2>1, <2>2
  <2>3. CASE p \notin C
    <3>1. hs'.heap[p] = hs.heap[p]
      BY <2>3 DEF Frame
    <3>2. PICK h \in Live(hs) : hs.list[h].pointer = p
      BY <2>1, <3>1 DEF Accounts, NoOrphan
    <3>3. h \notin H
      BY <2>1, <2>3, <3>2
    <3>4. h \in Live(hs') /\ hs'.list[h] = hs.list[h]
      BY <2>1, <3>3 DEF Frame
    <3> QED
      BY <3>2, <3>4 DEF Names
  <2> QED
    BY <2>2, <2>3
<1>6. KeptStep
  BY DEF KeptStep, HandleSurvives, Frame
<1> QED
  BY <1>3, <1>4, <1>5, <1>6 DEF Accounts

\* Calls that only make new objects and handles.
LEMMA NewAccounts ==
  ASSUME IInv, IInv', Accounts, NEW H, hs'.max = hs.max => H \cap Live(hs) = {},
         NEW C, \A p \in C : p \in Ptr /\ IsFree(hs, p), Frame(hs, hs', H, C),
         \A q \in Ptr \ C : refs'[q] = refs[q],
         \A h \in Live(hs') \cap H : hs'.list[h].type = "htProcesHandle" =>
           hs'.heap[hs'.list[h].pointer].rc = refs'[hs'.list[h].pointer],
         hs'.max = hs.max => \A p \in C :
           hs'.heap[p].kind \in Kinds \ {"htTHSModule"} /\ hs'.heap[p].rc > 0 => Names(hs', p)
  PROVE  Accounts' /\ KeptStep
<1>1. Sound(hs)
  BY DEF IInv, TypeOK, NoDangling, NoAlias, Sound
<1>2. ASSUME NEW h \in Live(hs)
      PROVE  hs.list[h].pointer \in Ptr /\ hs.list[h].pointer \notin C
  <2>1. /\ hs.list[h].pointer \in Ptr /\ hs.list[h].type \in Kinds
        /\ hs.heap[hs.list[h].pointer].kind = hs.list[h].type
    BY <1>1 DEF Sound, WellFormed, LiveObjects, Live, Handles, Entry, EmptyEntry
  <2> QED
    BY <2>1 DEF IsFree, Kinds, RefCounted, Snapshots
<1> QED
  BY <1>2, FrameAccounts

\* Calls that change the object behind one handle.
LEMMA OneAccounts ==
  ASSUME IInv, IInv', Accounts, NEW h \in Live(hs),
         Frame(hs, hs', {h}, {hs.list[h].pointer}),
         \A q \in Ptr \ {hs.list[h].pointer} : refs'[q] = refs[q],
         \/ h \notin Live(hs') /\ hs'.heap[hs.list[h].pointer].rc = 0
         \/ /\ h \in Live(hs') /\ hs'.list[h] = hs.list[h]
            /\ hs.list[h].type = "htProcesHandle" =>
                 hs'.heap[hs.list[h].pointer].rc = refs'[hs.list[h].pointer]
  PROVE  Accounts' /\ KeptStep
<1> DEFINE p == hs.list[h].pointer
<1>1. Sound(hs) /\ p \in Ptr
  BY LiveIsObject DEF IInv, TypeOK, NoDangling, NoAlias, Sound
<1>2. ASSUME NEW k \in Live(hs) \ {h}
      PROVE  hs.list[k].pointer \in Ptr /\ hs.list[k].pointer \notin {p}
  BY <1>1, LiveIsObject DEF Sound, NoSharing
<1>3. \A k \in Live(hs') \cap {h} : hs'.list[k].type = "htProcesHandle" =>
        hs'.heap[hs'.list[k].pointer].rc = refs'[hs'.list[k].pointer]
  OBVIOUS
<1>4. \A q \in {p} : hs'.heap[q].kind \in Kinds \ {"htTHSModule"} /\ hs'.heap[q].rc > 0
        => Names(hs', q)
  BY DEF Names
<1>5. \A k \in Live(hs) \cap {h} : HandleSurvives(k)
  BY DEF HandleSurvives
<1>6. \A k \in Live(hs) \cap {h} : hs.list[k].pointer \in {p}
  OBVIOUS
<1>7. Frame(hs, hs', {h}, {p})
  OBVIOUS
<1>8. \A k \in Live(hs) \ {h} : /\ hs.list[k].pointer \notin {p}
                                /\ refs'[hs.list[k].pointer] = refs[hs.list[k].pointer]
  BY <1>2
<1>9. PICK H, C : H = {h} /\ C = {p}
  OBVIOUS
<1> QED
  BY <1>3, <1>4, <1>5, <1>6, <1>7, <1>8, <1>9, FrameAccounts

\* A process is opened again, or opened for the first time.
LEMMA OpenProcessAccounts ==
  ASSUME IInv, IInv', Accounts, NEW pid \in Pid, OpenProcess(pid)
  PROVE  Accounts' /\ KeptStep
<1> DEFINE h == SearchHandleList(hs, pid)
           p == hs.list[h].pointer
           o == hs.heap[p]
<1>0. Sound(hs) /\ refs \in [Ptr -> Int]
  BY DEF IInv, TypeOK, NoDangling, NoAlias, Sound
<1>1. CASE h # 0 /\ hs' = Reopen(hs, pid) /\ refs' = [refs EXCEPT ![p] = @ + 1]
  <2> DEFINE obj == [o EXCEPT !.rc = @ + 1]
  <2>1. h \in Live(hs) /\ hs.list[h].type = "htProcesHandle"
    BY <1>0, <1>1, SearchFinds DEF ProcessHandles
  <2>2. p \in Ptr /\ o \in Object /\ hs.heap \in [Ptr -> Object] /\ hs.max \in Nat
    BY <1>0, <2>1, LiveIsObject DEF Sound, WellFormed
  <2>3. hs'.list = hs.list /\ hs'.max = hs.max /\ hs'.heap = [hs.heap EXCEPT ![p] = obj]
    BY <1>1 DEF Reopen, AddRef, Store, Table
  <2>4. obj.rc = o.rc + 1
    BY <2>2 DEF Object
  <2> HIDE DEF obj
  <2>5. hs'.heap[p].rc = o.rc + 1 /\ \A q \in Ptr \ {p} : hs'.heap[q] = hs.heap[q]
    <3>1. hs'.heap[p] = obj /\ \A q \in Ptr \ {p} : hs'.heap[q] = hs.heap[q]
      BY <2>2, <2>3
    <3> QED
      BY <2>4, <3>1
  <2>6. Live(hs') = Live(hs)
    BY <2>3 DEF Live, Handles
  <2>7. Frame(hs, hs', {h}, {p})
    BY <2>2, <2>3, <2>5, <2>6 DEF Frame
  <2>8. refs'[p] = refs[p] + 1 /\ \A q \in Ptr \ {p} : refs'[q] = refs[q]
    BY <1>0, <1>1, <2>2
  <2>9. o.rc = refs[p]
    BY <2>1 DEF Accounts, RefCountExact
  <2>10. hs'.heap[p].rc = refs'[p] /\ h \in Live(hs') /\ hs'.list[h] = hs.list[h]
    BY <2>1, <2>3, <2>5, <2>6, <2>8, <2>9
  <2> HIDE DEF h, o
  <2> QED
    BY <2>1, <2>7, <2>8, <2>10, OneAccounts
<1>2. ASSUME NEW new \in FreeCells, NEW m \in FreeCells, NEW mapsOpen \in BOOLEAN, new # m,
             hs' = OpenNew(hs, pid, new, m, mapsOpen), refs' = [refs EXCEPT ![new] = 1]
      PROVE  Accounts' /\ KeptStep
  <2>1. new \in Ptr /\ m \in Ptr /\ IsFree(hs, new) /\ IsFree(hs, m)
    BY DEF FreeCells, IsFree
  <2> DEFINE i == HandleFor(hs)
  <2>2. /\ Frame(hs, hs', {i}, {new, m})
        /\ hs'.heap[new] = NewProcess(pid) /\ hs'.heap[m].kind \in {"free", "htTHSModule"}
        /\ i \in Live(hs') => hs'.list[i] = [type |-> "htProcesHandle", pointer |-> new]
        /\ hs'.max = hs.max => i \in Live(hs')
    <3>1. PICK T : T = hs'
      OBVIOUS
    <3>2. T = OpenNew(hs, pid, new, m, mapsOpen)
      BY <1>2, <3>1
    <3>3. /\ Frame(hs, T, {i}, {new, m})
          /\ T.heap[new] = NewProcess(pid) /\ T.heap[m].kind \in {"free", "htTHSModule"}
          /\ i \in Live(T) => T.list[i] = [type |-> "htProcesHandle", pointer |-> new]
          /\ T.max = hs.max => i \in Live(T)
      <4>1. Sound(hs) /\ new # m
        BY <1>0, <1>2
      <4> QED
        BY <4>1, <2>1, <3>2, OpenNewFrame DEF Frame
    <3> QED
      BY <3>1, <3>3
  <2>3. i \notin Live(hs)
    BY <1>0, HandleForNew DEF Sound
  <2> HIDE DEF i
  <2>4. refs'[new] = 1 /\ \A q \in Ptr \ {new, m} : refs'[q] = refs[q]
    BY <1>0, <1>2, <2>1
  <2>5. hs'.heap[new].rc = 1
    BY <2>2 DEF NewProcess
  <2>6. \A k \in Live(hs') \cap {i} : hs'.list[k].type = "htProcesHandle" =>
          hs'.heap[hs'.list[k].pointer].rc = refs'[hs'.list[k].pointer]
    BY <2>2, <2>4, <2>5
  <2>7. hs'.max = hs.max => \A q \in {new, m} :
          hs'.heap[q].kind \in Kinds \ {"htTHSModule"} /\ hs'.heap[q].rc > 0 => Names(hs', q)
    BY <2>2 DEF Names, Kinds, RefCounted, Snapshots
  <2>8. PICK H, C : H = {i} /\ C = {new, m}
    OBVIOUS
  <2>9. H \cap Live(hs) = {} /\ \A q \in C : q \in Ptr /\ IsFree(hs, q)
    BY <2>1, <2>3, <2>8
  <2> QED
    BY <2>2, <2>4, <2>6, <2>7, <2>8, <2>9, NewAccounts
<1> QED
  BY <1>1, <1>2 DEF OpenProcess

\* A new object that is not a process, with or without a handle.
LEMMA ObjectAccounts ==
  ASSUME IInv, IInv', Accounts, UNCHANGED refs, NEW S, Sound(S),
         NEW C, \A q \in C : q \in Ptr /\ IsFree(hs, q), Frame(hs, S, {}, C),
         S.max = hs.max => \A q \in C :
           S.heap[q].kind \in Kinds \ {"htTHSModule"} => S.heap[q].rc = 0,
         NEW p \in Ptr, IsFree(hs, p), p \notin C, NEW obj \in Object,
         obj.kind \in Kinds \ {"htProcesHandle"}, obj.rc >= 1,
         hs' = CreateHandleFromPointer(Store(S, p, obj), p, obj.kind)
  PROVE  Accounts' /\ KeptStep
<1> DEFINE i == HandleFor(S)
<1>0. Sound(hs) /\ Sound(hs')
  BY DEF IInv, TypeOK, NoDangling, NoAlias, Sound
<1>1. IsFree(S, p)
  BY DEF Frame, IsFree
<1>2. /\ Frame(S, hs', {i}, {p}) /\ hs'.heap[p] = obj
      /\ i \in Live(hs') /\ hs'.list[i] = [type |-> obj.kind, pointer |-> p]
  <2>1. PICK T : T = hs'
    OBVIOUS
  <2>2. T = CreateHandleFromPointer(Store(S, p, obj), p, obj.kind)
    BY <2>1
  <2>3. /\ Frame(S, T, {i}, {p}) /\ T.heap[p] = obj
        /\ i \in Live(T) /\ T.list[i] = [type |-> obj.kind, pointer |-> p]
    <3>1. obj.kind \in Kinds
      OBVIOUS
    <3> QED
      BY <1>1, <2>2, <3>1, CreateFrame, SMTT(30)
  <2> QED
    BY <2>1, <2>3
<1>3. i \notin Live(S)
  BY HandleForNew DEF Sound
<1> HIDE DEF i
<1>4. PICK H, D : H = {i} /\ D = C \cup {p}
  OBVIOUS
<1>5. Frame(hs, hs', {i}, D)
  <2>1. Frame(hs, hs', {} \cup {i}, C \cup {p})
    BY <1>0, <1>2, FrameTrans DEF Sound
  <2>2. {} \cup {i} = {i}
    OBVIOUS
  <2> QED
    BY <1>4, <2>1, <2>2
<1>6. hs'.max >= S.max /\ S.max >= hs.max /\ hs'.max \in Nat /\ S.max \in Nat /\ hs.max \in Nat
  BY <1>0, <1>2 DEF Frame, Sound, WellFormed
<1>7. i \in Live(hs) => hs'.max # hs.max
  <2>1. hs'.max = hs.max => S.max = hs.max
    BY <1>6
  <2> QED
    BY <1>3, <2>1 DEF Frame
<1>8. ASSUME hs'.max = hs.max, NEW q \in D,
             hs'.heap[q].kind \in Kinds \ {"htTHSModule"}, hs'.heap[q].rc > 0
      PROVE  Names(hs', q)
  <2>1. CASE q = p
    BY <1>2, <2>1 DEF Names
  <2>2. CASE q \in C
    <3>1. S.max = hs.max /\ hs'.heap[q] = S.heap[q]
      BY <1>2, <1>6, <1>8, <2>2 DEF Frame
    <3> QED
      BY <1>8, <2>2, <3>1
  <2> QED
    BY <1>4, <2>1, <2>2
<1>9. \A h \in Live(hs') \cap H : hs'.list[h].type # "htProcesHandle"
  BY <1>2, <1>4
<1>10. \A q \in D : q \in Ptr /\ IsFree(hs, q)
  BY <1>4
<1>11. Frame(hs, hs', H, D) /\ (hs'.max = hs.max => H \cap Live(hs) = {})
  BY <1>4, <1>5, <1>7
<1> QED
  BY <1>8, <1>9, <1>10, <1>11, NewAccounts

\* The table as the call found it is where a new object goes.
LEMMA PlainAccounts ==
  ASSUME IInv, IInv', Accounts, UNCHANGED refs, NEW p \in FreeCells, NEW obj \in Object,
         obj.kind \in Kinds \ {"htProcesHandle"}, obj.rc >= 1,
         hs' = CreateHandleFromPointer(Store(hs, p, obj), p, obj.kind)
  PROVE  Accounts' /\ KeptStep
<1>1. Sound(hs) /\ p \in Ptr /\ IsFree(hs, p) /\ hs.max \in Nat
  BY DEF IInv, TypeOK, NoDangling, NoAlias, Sound, FreeCells, IsFree, WellFormed
<1>2. PICK C : C = {}
  OBVIOUS
<1>3. Frame(hs, hs, {}, C)
  BY <1>1 DEF Frame
<1> QED
  BY <1>1, <1>2, <1>3, ObjectAccounts

\* A module snapshot is as good an object as any.
LEMMA SnapshotObject ==
  ASSUME NEW type \in Snapshots, NEW n \in Nat
  PROVE  LET obj == NewSnapshot(type, n)
         IN obj \in Object /\ obj.kind = type /\ obj.kind \in Kinds \ {"htProcesHandle"} /\ obj.rc >= 1
BY DEF NewSnapshot, Object, Kinds, RefCounted, Snapshots

\* A module snapshot keeps the accounts, whichever of its steps fails.
LEMMA SnapModulesAccounts ==
  ASSUME IInv, IInv', Accounts, NEW pid \in Pid, SnapModules(pid)
  PROVE  Accounts' /\ KeptStep
<1>0. Sound(hs) /\ UNCHANGED refs
  BY DEF IInv, TypeOK, NoDangling, NoAlias, Sound, SnapModules
<1>1. PICK m \in FreeCells, n \in 0 .. MaxEntries :
       \/ /\ SearchHandleList(hs, pid) # 0
          /\ hs' = SnapModulesOpened(hs, pid, m, n)
       \/ /\ SearchHandleList(hs, pid) = 0
          /\ \E new, tmp \in FreeCells \ {m}, mapsOpen \in BOOLEAN :
               LET S1 == OpenNew(hs, pid, new, tmp, mapsOpen)
                   S2 == CloseHandle(S1, HandleFor(hs))
               IN /\ new # tmp
                  /\ hs' = CreateHandleFromPointer(
                             Store(S2, m, NewSnapshot("htTHSModule", n)), m, "htTHSModule")
       \/ /\ SearchHandleList(hs, pid) = 0
          /\ hs' = CreateHandleFromPointer(
                     Store(hs, m, NewSnapshot("htTHSModule", 0)), m, "htTHSModule")
       \/ hs' = Store(hs, m, NewSnapshot("htTHSModule", 0))
  BY DEF SnapModules
<1>2. m \in Ptr /\ IsFree(hs, m) /\ n \in Nat /\ 0 \in Nat
  BY TableAssumption DEF FreeCells, IsFree
<1>3. ASSUME NEW k \in Nat,
             hs' = CreateHandleFromPointer(
                     Store(hs, m, NewSnapshot("htTHSModule", k)), m, "htTHSModule")
      PROVE  Accounts' /\ KeptStep
  <2>1. PICK obj \in Object : /\ obj = NewSnapshot("htTHSModule", k) /\ obj.kind = "htTHSModule"
                              /\ obj.kind \in Kinds \ {"htProcesHandle"} /\ obj.rc >= 1
    BY SnapshotObject DEF Snapshots
  <2>2. hs' = CreateHandleFromPointer(Store(hs, m, obj), m, obj.kind)
    BY <1>3, <2>1
  <2> QED
    BY <1>0, <2>1, <2>2, PlainAccounts
<1>4. CASE SearchHandleList(hs, pid) # 0 /\ hs' = SnapModulesOpened(hs, pid, m, n)
  <2>1. hs' = CreateHandleFromPointer(Store(hs, m, NewSnapshot("htTHSModule", n)), m, "htTHSModule")
    BY <1>0, <1>4, ReopenClose DEF SnapModulesOpened
  <2> QED
    BY <1>2, <1>3, <2>1
<1>5. ASSUME NEW new \in FreeCells \ {m}, NEW tmp \in FreeCells \ {m}, NEW mapsOpen \in BOOLEAN,
             new # tmp,
             hs' = CreateHandleFromPointer(
                     Store(CloseHandle(OpenNew(hs, pid, new, tmp, mapsOpen), HandleFor(hs)),
                           m, NewSnapshot("htTHSModule", n)), m, "htTHSModule")
      PROVE  Accounts' /\ KeptStep
  <2>1. PICK S : S = CloseHandle(OpenNew(hs, pid, new, tmp, mapsOpen), HandleFor(hs))
    OBVIOUS
  <2>2. new \in Ptr /\ IsFree(hs, new) /\ tmp \in Ptr /\ IsFree(hs, tmp) /\ new # tmp
    BY <1>5 DEF FreeCells, IsFree
  <2>3. /\ Sound(S) /\ Frame(hs, S, {}, {new, tmp})
        /\ S.heap[tmp].kind \in {"free", "htTHSModule"}
        /\ S.max = hs.max => S.heap[new] = Freed
    BY <1>0, <2>1, <2>2, PassingProcess DEF Frame
  <2>4. PICK C : C = {new, tmp}
    OBVIOUS
  <2>5. S.max = hs.max => \A q \in C :
          S.heap[q].kind \in Kinds \ {"htTHSModule"} => S.heap[q].rc = 0
    BY <2>3, <2>4 DEF Freed, Kinds, RefCounted, Snapshots
  <2>6. PICK obj \in Object : /\ obj = NewSnapshot("htTHSModule", n) /\ obj.kind = "htTHSModule"
                              /\ obj.kind \in Kinds \ {"htProcesHandle"} /\ obj.rc >= 1
    BY <1>2, SnapshotObject DEF Snapshots
  <2>7. hs' = CreateHandleFromPointer(Store(S, m, obj), m, obj.kind)
    BY <1>5, <2>1, <2>6
  <2>8. m \notin C /\ (\A q \in C : q \in Ptr /\ IsFree(hs, q)) /\ Frame(hs, S, {}, C)
    BY <2>2, <2>3, <2>4
  <2> QED
    BY <1>0, <1>2, <2>3, <2>5, <2>6, <2>7, <2>8, ObjectAccounts
<1>6. CASE hs' = Store(hs, m, NewSnapshot("htTHSModule", 0))
  <2>1. Frame(hs, hs', {}, {m}) /\ hs'.heap[m] = NewSnapshot("htTHSModule", 0)
    BY <1>0, <1>2, <1>6, StoreFrame DEF Frame
  <2>2. hs'.heap[m].kind = "htTHSModule"
    BY <2>1 DEF NewSnapshot
  <2>3. PICK H, C : H = {} /\ C = {m}
    OBVIOUS
  <2> QED
    BY <1>0, <1>2, <2>1, <2>2, <2>3, NewAccounts
<1> QED
  BY <1>1, <1>2, <1>3, <1>4, <1>5, <1>6

\* The iterator of a snapshot moves.
LEMMA SnapshotAccounts ==
  ASSUME IInv, IInv', Accounts, NEW h \in Handles(hs), SnapshotFirst(h) \/ SnapshotNext(h)
  PROVE  Accounts' /\ KeptStep
<1> DEFINE p == hs.list[h].pointer
<1>1. Sound(hs) /\ hs.max \in Nat /\ hs.heap \in [Ptr -> Object] /\ UNCHANGED refs
  BY DEF IInv, TypeOK, NoDangling, NoAlias, Sound, WellFormed, SnapshotFirst, SnapshotNext
<1>2. h \in Live(hs) /\ hs.list[h].type # "htProcesHandle" /\ \E obj : hs' = Store(hs, p, obj)
  BY DEF SnapshotFirst, SnapshotNext, GetHandleType, Live, Snapshots
<1>3. PICK obj : hs' = Store(hs, p, obj)
  BY <1>2
<1>4. p \in Ptr
  BY <1>1, <1>2, LiveIsObject
<1>5. hs'.list = hs.list /\ hs'.max = hs.max /\ hs'.heap = [hs.heap EXCEPT ![p] = obj]
  BY <1>3 DEF Store, Table
<1>6. Live(hs') = Live(hs)
  BY <1>5 DEF Live, Handles
<1>7. Frame(hs, hs', {h}, {p})
  BY <1>1, <1>5, <1>6 DEF Frame
<1> QED
  BY <1>1, <1>2, <1>5, <1>6, <1>7, OneAccounts

\* A client closes a handle: one open less, or the end of the object.
LEMMA CloseAccounts ==
  ASSUME IInv, IInv', Accounts, NEW h \in Handles(hs), ClientClose(h)
  PROVE  Accounts' /\ KeptStep
<1> DEFINE p == hs.list[h].pointer
           o == hs.heap[p]
<1>1. Sound(hs) /\ refs \in [Ptr -> Int] /\ h \in Live(hs) /\ hs' = CloseHandle(hs, h)
  BY DEF IInv, TypeOK, NoDangling, NoAlias, Sound, ClientClose
<1>2. /\ Frame(hs, hs', {h}, {p})
      /\ \/ h \notin Live(hs') /\ hs'.heap[p] = Released(o)
         \/ /\ h \in Live(hs') /\ hs'.list[h] = hs.list[h] /\ o.rc > 1
            /\ hs'.heap[p] = [o EXCEPT !.rc = @ + (-1)]
  <2>1. PICK T : T = hs'
    OBVIOUS
  <2>2. LET q == hs.list[h].pointer
        IN /\ Frame(hs, T, {h}, {q}) /\ T.max = hs.max
           /\ \/ h \notin Live(T) /\ T.heap[q] = Released(hs.heap[q])
              \/ /\ h \in Live(T) /\ T.list[h] = hs.list[h] /\ hs.heap[q].rc > 1
                 /\ T.heap[q] = [hs.heap[q] EXCEPT !.rc = @ + (-1)]
    <3>1. Sound(hs) /\ h \in Live(hs) /\ T = CloseHandle(hs, h)
      BY <1>1, <2>1
    <3> QED
      BY <3>1, CloseFrame DEF Frame
  <2> QED
    BY <2>1, <2>2
<1>3. p \in Ptr /\ o \in Object /\ o.kind = hs.list[h].type
  BY <1>1, LiveIsObject DEF Sound, LiveObjects
<1>4. \A q \in Ptr \ {p} : refs'[q] = refs[q]
  BY <1>1, <1>3 DEF ClientClose
<1>5. CASE h \notin Live(hs') /\ hs'.heap[p] = Released(o)
  <2>1. hs'.heap[p].rc = 0
    <3>1. Released(o).rc = 0
      <4>1. o.kind = "htTHSThread" => [o EXCEPT !.rc = 0].rc = 0
        BY <1>3 DEF Object
      <4> QED
        BY <4>1 DEF Released, Freed
    <3> QED
      BY <1>5, <3>1
  <2> QED
    BY <1>1, <1>2, <1>4, <1>5, <2>1, OneAccounts
<1>6. CASE /\ h \in Live(hs') /\ hs'.list[h] = hs.list[h] /\ o.rc > 1
           /\ hs'.heap[p] = [o EXCEPT !.rc = @ + (-1)]
  <2>1. hs'.heap[p].rc = o.rc - 1 /\ hs'.heap[p].kind = o.kind
    BY <1>3, <1>6 DEF Object
  <2>2. ASSUME hs.list[h].type = "htProcesHandle"
        PROVE  hs'.heap[p].rc = refs'[p]
    <3>1. hs'.heap[p] # Freed
      BY <1>3, <2>1, <2>2 DEF Freed
    <3>2. refs' = [refs EXCEPT ![p] = @ - 1]
      BY <2>2, <3>1 DEF ClientClose
    <3>3. o.rc = refs[p]
      BY <1>1, <2>2 DEF Accounts, RefCountExact
    <3> QED
      BY <1>1, <1>3, <2>1, <3>2, <3>3
  <2> QED
    BY <1>1, <1>2, <1>4, <1>6, <2>2, OneAccounts
<1> QED
  BY <1>2, <1>5, <1>6

\* The last connection takes the pipes with it.
LEMMA PipesAccounts ==
  ASSUME IInv, IInv', Accounts, UNCHANGED refs, hs' = CloseAllPipes(hs)
  PROVE  Accounts' /\ KeptStep
<1>1. Sound(hs)
  BY DEF IInv, TypeOK, NoDangling, NoAlias, Sound
<1>2. PICK H \in SUBSET Live(hs), C \in SUBSET Ptr :
        /\ Frame(hs, hs', H, C) /\ C = {hs.list[h].pointer : h \in H} /\ hs'.max = hs.max
        /\ \A h \in H : h \notin Live(hs') /\ hs'.heap[hs.list[h].pointer] = Freed
  BY <1>1, PipesFrame
<1>3. C = {hs.list[h].pointer : h \in H}
  BY <1>2
<1>4. \A h \in Live(hs) \ H : hs.list[h].pointer \notin C
  BY <1>1, <1>3 DEF Sound, NoSharing
<1>5. \A h \in H : HandleSurvives(h)
  BY <1>2 DEF HandleSurvives, Freed
<1>6. \A p \in C : hs'.heap[p].kind = "free"
  BY <1>2, <1>3 DEF Freed
<1>7. Frame(hs, hs', H, C)
  BY <1>2, <1>3
<1>8. \A h \in Live(hs) \cap H : hs.list[h].pointer \in C
  BY <1>3
<1> QED
  BY <1>2, <1>4, <1>5, <1>6, <1>7, <1>8, FrameAccounts DEF Kinds, RefCounted, Snapshots

\* Every call keeps the accounts, and the handles that clients hold.
LEMMA AccountsStep ==
  ASSUME IInv, Accounts, [Next]_vars
  PROVE  Accounts' /\ KeptStep
<1>0. IInv'
  BY NextIInv
<1>1. ASSUME NEW pid \in Pid, OpenProcess(pid) \/ SnapModules(pid)
      PROVE  Accounts' /\ KeptStep
  BY <1>0, <1>1, OpenProcessAccounts, SnapModulesAccounts
<1>2. ASSUME NEW type \in {"htTHSProcess", "htTHSThread"}, SnapList(type)
      PROVE  Accounts' /\ KeptStep
  <2>1. PICK p \in FreeCells, n \in 0 .. MaxEntries :
          hs' = CreateHandleFromPointer(Store(hs, p, NewSnapshot(type, n)), p, type)
    BY <1>2 DEF SnapList
  <2>2. n \in Nat
    BY TableAssumption
  <2>3. PICK obj \in Object : /\ obj = NewSnapshot(type, n) /\ obj.kind = type
                              /\ obj.kind \in Kinds \ {"htProcesHandle"} /\ obj.rc >= 1
    BY <2>2, SnapshotObject DEF Snapshots
  <2>4. hs' = CreateHandleFromPointer(Store(hs, p, obj), p, obj.kind) /\ UNCHANGED refs
    BY <1>2, <2>1, <2>3 DEF SnapList
  <2> QED
    BY <1>0, <2>3, <2>4, PlainAccounts
<1>3. ASSUME NEW type \in {"htPipeHandle", "htNativeThreadHandle"}, OpenPlain(type)
      PROVE  Accounts' /\ KeptStep
  <2>1. PICK p \in FreeCells :
          hs' = CreateHandleFromPointer(Store(hs, p, NewPlain(type)), p, type)
    BY <1>3 DEF OpenPlain
  <2>2. PICK obj \in Object : /\ obj = NewPlain(type) /\ obj.kind = type
                              /\ obj.kind \in Kinds \ {"htProcesHandle"} /\ obj.rc >= 1
    <3>1. /\ NewPlain(type) \in Object /\ NewPlain(type).kind = type
          /\ type \in Kinds \ {"htProcesHandle"} /\ NewPlain(type).rc >= 1
      BY DEF NewPlain, Object, Kinds
    <3> QED
      BY <3>1
  <2>3. hs' = CreateHandleFromPointer(Store(hs, p, obj), p, obj.kind) /\ UNCHANGED refs
    BY <1>3, <2>1, <2>2 DEF OpenPlain
  <2> QED
    BY <1>0, <2>2, <2>3, PlainAccounts
<1>4. ASSUME NEW h \in Handles(hs), SnapshotFirst(h) \/ SnapshotNext(h) \/ ClientClose(h)
      PROVE  Accounts' /\ KeptStep
  BY <1>0, <1>4, SnapshotAccounts, CloseAccounts
<1>5. CASE hs' = CloseAllPipes(hs) /\ UNCHANGED refs
  BY <1>0, <1>5, PipesAccounts
<1>6. CASE UNCHANGED <<hs, refs>>
  BY <1>6 DEF Accounts, RefCountExact, NoOrphan, KeptStep, HandleSurvives
<1>7. CASE threadClosedEvent
  BY <1>5, <1>6, <1>7 DEF threadClosedEvent
<1>8. CASE threadStartedEvent \/ UNCHANGED vars
  BY <1>6, <1>8 DEF threadStartedEvent, vars
<1> QED
  BY <1>1, <1>2, <1>3, <1>4, <1>7, <1>8 DEF Next

\* They are balanced at first.
LEMMA AccountsInit ==
  ASSUME Init
  PROVE  Accounts
<1>1. hs.max = InitialMax /\ hs.heap = [p \in Ptr |-> Freed]
      /\ hs.list = [i \in 0 .. (InitialMax - 1) |-> EmptyEntry]
  BY DEF Init, Table
<1>2. Live(hs) = {}
  BY <1>1 DEF Live, Handles, EmptyEntry
<1>3. \A p \in Ptr : hs.heap[p].kind = "free"
  BY <1>1 DEF Freed
<1> QED
  BY <1>1, <1>2, <1>3, TableAssumption
     DEF Accounts, RefCountExact, NoOrphan, Kinds, RefCounted, Snapshots

\* The reference count of a process that has a handle is the number of opens
\* which its clients have not closed: neither the snapshots that open and close
\* a process on their own nor the relocation of the table disturb it.
THEOREM CountsExact == Spec => []RefCountExact
<1>1. Init => IInv /\ Accounts
  BY InitIInv, AccountsInit
<1>2. IInv /\ Accounts /\ [Next]_vars => (IInv /\ Accounts)'
  BY NextIInv, AccountsStep
<1>3. Accounts => RefCountExact
  BY DEF Accounts
<1> QED
  BY <1>1, <1>2, <1>3, PTL DEF Spec

\* Until the table is relocated, every object with a reference left is found by
\* a handle.
THEOREM NothingOrphaned == Spec => []NoOrphan
<1>1. Init => IInv /\ Accounts
  BY InitIInv, AccountsInit
<1>2. IInv /\ Accounts /\ [Next]_vars => (IInv /\ Accounts)'
  BY NextIInv, AccountsStep
<1>3. Accounts => NoOrphan
  BY DEF Accounts
<1> QED
  BY <1>1, <1>2, <1>3, PTL DEF Spec

\* A call that does not relocate the table takes no handle from a client but
\* those whose object it releases.
THEOREM HandlesStay == Spec => HandlesKept
<1>1. Init => IInv /\ Accounts
  BY InitIInv, AccountsInit
<1>2. IInv /\ Accounts /\ [Next]_vars => (IInv /\ Accounts)'
  BY NextIInv, AccountsStep
<1>3. IInv /\ Accounts /\ [Next]_vars
        => [hs'.max = hs.max => \A h \in Live(hs) : HandleSurvives(h)]_vars
  BY AccountsStep DEF KeptStep
<1> QED
  BY <1>1, <1>2, <1>3, PTL DEF Spec, HandlesKept
=============================================================================
