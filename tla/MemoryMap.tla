------------------------------ MODULE MemoryMap ------------------------------
(***************************************************************************)
(* The memory map queries of ceserver (api.c) on a process that changes its *)
(* map while it is read: VirtualQueryEx, called by a client that walks from *)
(* region to region, and VirtualQueryExFull with its filters.  The kernel   *)
(* gives /proc/pid/maps, smaps and pagemap piece by piece, each piece as    *)
(* the memory is when it is read.                                           *)
(***************************************************************************)
EXTENDS Naturals, Sequences, FiniteSets, FiniteSetsExt

CONSTANTS
  N,           \* pages 1 .. N of the process; page 0 is never mapped
  Top,         \* its last page below the task size; N without [vsyscall]
  Contents,    \* what a mapped page of it can be: [perms, present, dirty]
  Unmapped,    \* and what an unmapped one is
  Flags,       \* sets of VQE flags that clients use
  Chunk,       \* pages read from pagemap at once (512 in the code)
  InitialMax,  \* first size of the result list (64 or 128 in the code)
  MaxChanges   \* bound on the changes of the map

Page     == 1 .. N
Perms    == {"w", "x", "s"}
VQE      == {"VQE_PAGEDONLY", "VQE_DIRTYONLY", "VQE_NOSHARED"}

\* What the kernel maps above the task size.
Gate == [perms |-> {"x"}, present |-> FALSE, dirty |-> FALSE]

ASSUME MapAssumption ==
  /\ N \in Nat /\ Top \in 0 .. N
  /\ Contents \subseteq [perms : SUBSET Perms, present : BOOLEAN, dirty : BOOLEAN]
  /\ Unmapped \notin Contents \cup {Gate}
  /\ Flags \subseteq SUBSET VQE
  /\ Chunk \in Nat /\ Chunk > 0
  /\ InitialMax \in Nat /\ InitialMax > 0
  /\ MaxChanges \in Nat

VARIABLES
  mem,      \* the memory of the target
  alive,    \* the target has not exited
  changes,  \* how often the target changed its memory
  changed,  \* history: the pages that changed since the query began
  op,       \* "idle", "walk" (the client's loop) or "full"
  at,       \* where the query is: "line", "pread", "runs" or "done"
  last,     \* end of the line that was read last, 0 at the file's start
  addr,     \* VirtualQueryEx: its address, or the client's next one
  flags,    \* VirtualQueryExFull: flags, start and stop with what goes with
  block,    \* them, the header just read, current, the bits of pagemap and
  next,     \* the size of the list
  current, entries, i, max,
  regions   \* the answer: what the client or the list has so far

target == <<mem, alive, changes>>
full   == <<flags, block, next, current, entries, i, max>>
vars   == <<target, changed, op, at, last, addr, full, regions>>

-----------------------------------------------------------------------------
\* api.c: the protection string.
ProtectionStringToType(perms) == IF "s" \in perms THEN "MEM_MAPPED" ELSE "MEM_PRIVATE"
ProtectionStringToProtection(perms) ==
  IF "x" \in perms
  THEN IF "w" \in perms THEN "PAGE_EXECUTE_READWRITE" ELSE "PAGE_EXECUTE_READ"
  ELSE IF "w" \in perms THEN "PAGE_READWRITE" ELSE "PAGE_READONLY"

Region(base, stop, type, protection) ==
  [base |-> base, size |-> stop - base, type |-> type, protection |-> protection]
Of(base, stop, perms) ==
  Region(base, stop, ProtectionStringToType(perms), ProtectionStringToProtection(perms))

\* The kernel: a line is a mapping, pages in a row with equal permissions on one
\* side of the task size; the next line is the first mapping that ends after the
\* last line did, as it is now.  It may begin before that end, when mappings have
\* merged meanwhile.
NoLine == [start |-> 0, stop |-> 0, perms |-> {}, dirty |-> FALSE]
Line   == [start : 0 .. N, stop : 0 .. (N + 1), perms : SUBSET Perms, dirty : BOOLEAN]

Mapped == {pg \in Page : mem[pg] # Unmapped}
Same(pg, a) == pg \in Mapped /\ mem[pg].perms = mem[a].perms /\ (pg > Top <=> a > Top)
Uniform(a, b) == \A pg \in a .. b : Same(pg, a)
NextLine ==
  LET later == {pg \in Mapped : pg >= last}
  IN IF later = {} THEN NoLine
     ELSE LET m == Min(later)
              a == Min({k \in 1 .. m : Uniform(k, m)})
              b == Max({k \in m .. N : Uniform(m, k)})
          IN [start |-> a, stop |-> b + 1, perms |-> mem[m].perms,
              dirty |-> \E pg \in a .. b : mem[pg].dirty]

-----------------------------------------------------------------------------
Init ==
  /\ mem \in [Page -> Contents \cup {Gate, Unmapped}]
  /\ \A pg \in Page : IF pg > Top THEN mem[pg] = Gate ELSE mem[pg] \in Contents \cup {Unmapped}
  /\ alive = TRUE
  /\ changes = 0
  /\ changed = {}
  /\ op = "idle" /\ at = "done"
  /\ last = 0 /\ addr = 0
  /\ flags = {} /\ block = NoLine /\ next = NoLine /\ current = 0 /\ max = InitialMax
  /\ i = 0 /\ entries = [k \in 0 .. (Chunk - 1) |-> FALSE]
  /\ regions = <<>>

\* mmap, munmap, mprotect, a page that is touched, written, paged in or out,
\* during a query: Init has every map a query can begin with.
Change(a, b, x) ==
  /\ b <= Top
  /\ alive /\ at # "done"
  /\ changes < MaxChanges
  /\ changes' = changes + 1
  /\ mem' = [pg \in Page |-> IF pg \in a .. b THEN x ELSE mem[pg]]
  /\ changed' = changed \cup {pg \in Page : mem'[pg] # mem[pg]}
  /\ UNCHANGED <<alive, op, at, last, addr, full, regions>>

Exit ==
  /\ alive /\ at # "done"
  /\ alive' = FALSE
  /\ mem' = [pg \in Page |-> Unmapped]
  /\ changed' = changed \cup Mapped
  /\ UNCHANGED <<changes, op, at, last, addr, full, regions>>

-----------------------------------------------------------------------------
(* VirtualQueryEx, and the client that calls it with the end of each answer. *)

StartWalk ==
  /\ op = "idle"
  /\ op' = "walk" /\ at' = "line"
  /\ last' = 0 /\ addr' = 0
  /\ changed' = {} /\ regions' = <<>>
  /\ UNCHANGED <<target, full>>

\* "we passed it"
Passes(l) == l.stop > addr

\* Mutant: a gap is given up to the end of the region after it.
Answer_OverGap(l) ==
  IF addr >= l.start THEN Of(addr, l.stop, l.perms)
                     ELSE Region(addr, l.stop, 0, "PAGE_NOACCESS")

Answer(l) ==
  IF addr >= l.start THEN Of(addr, l.stop, l.perms)
                     ELSE Region(addr, l.start, 0, "PAGE_NOACCESS")

\* One turn of the loop over the lines.  After an answer the client asks for
\* the address behind it, and the file is opened again.
QueryLine ==
  /\ op = "walk" /\ at = "line"
  /\ UNCHANGED <<target, changed, op, full>>
  /\ \E l \in {NextLine} :
        \/ /\ l # NoLine /\ ~Passes(l)
           /\ last' = l.stop
           /\ UNCHANGED <<at, addr, regions>>
        \/ /\ l # NoLine /\ Passes(l)
           /\ regions' = Append(regions, Answer(l))
           /\ addr' = addr + Answer(l).size
           /\ last' = 0
           /\ UNCHANGED at
        \/ /\ l = NoLine
           /\ at' = "done"
           /\ UNCHANGED <<last, addr, regions>>

-----------------------------------------------------------------------------
(* VirtualQueryExFull.                                                      *)

StartFull(f) ==
  /\ op = "idle"
  /\ op' = "full" /\ at' = "line"
  /\ flags' = f /\ last' = 0
  /\ block' = NoLine /\ next' = NoLine /\ current' = 0 /\ i' = 0 /\ max' = InitialMax
  /\ entries' \in [0 .. (Chunk - 1) -> BOOLEAN]   \* malloc
  /\ changed' = {} /\ regions' = <<>>
  /\ UNCHANGED <<target, addr>>

Passed(l) ==
  /\ l # NoLine
  /\ "VQE_NOSHARED" \in flags => ProtectionStringToType(l.perms) # "MEM_MAPPED"
  /\ "VQE_DIRTYONLY" \in flags => l.dirty

\* Mutant: the list grows when it is more than full.
Grown_Late(m, n) == IF n > m THEN 2 * m ELSE m

\* The size of the list after an entry went to place n.
Grown(m, n) == IF n >= m THEN 2 * m ELSE m

AddToRegionList(region) ==
  /\ regions' = Append(regions, region)
  /\ max' = Grown(max, Len(regions) + 1)

\* The block is dealt with: the header that was read becomes the block.
Behind == /\ block' = next'
          /\ at' = IF next' = NoLine THEN "done" ELSE "line"

\* fgets up to the next header or the end of smaps: the block before it is
\* complete.
ReadRecord ==
  /\ op = "full" /\ at = "line"
  /\ UNCHANGED <<target, changed, op, addr, flags, entries>>
  /\ next' = NextLine
  /\ last' = next'.stop
  /\ \/ /\ ~Passed(block)
        /\ Behind
        /\ UNCHANGED <<current, max, regions>>
     \/ /\ Passed(block) /\ "VQE_PAGEDONLY" \notin flags
        /\ AddToRegionList(Of(block.start, block.stop, block.perms))
        /\ Behind
        /\ UNCHANGED current
     \/ /\ Passed(block) /\ "VQE_PAGEDONLY" \in flags
        /\ current' = block.start
        /\ at' = "pread"
        /\ UNCHANGED <<block, max, regions>>
  /\ i' = 0

PageCount == Min({block.stop - current, Chunk})

\* Mutant: a read of nothing is tried again.
Pread_Again ==
  /\ op = "full" /\ at = "pread"
  /\ i' = 0
  /\ entries' = [k \in 0 .. (Chunk - 1) |->
                   IF k < PageCount /\ current + k <= Top
                   THEN current + k \in Mapped /\ mem[current + k].present
                   ELSE entries[k]]
  /\ at' = IF alive THEN "runs" ELSE "pread"
  /\ UNCHANGED <<target, changed, op, last, addr, flags, block, next, current, max, regions>>

\* pread of pagemap.  It gives nothing above the task size, and 0 bytes once the
\* process is gone; the code goes on with what the buffer held.
Pread ==
  /\ op = "full" /\ at = "pread"
  /\ i' = 0
  /\ entries' = [k \in 0 .. (Chunk - 1) |->
                   IF alive /\ k < PageCount /\ current + k <= Top
                   THEN current + k \in Mapped /\ mem[current + k].present
                   ELSE entries[k]]
  /\ at' = "runs"
  /\ UNCHANGED <<target, changed, op, last, addr, flags, block, next, current, max, regions>>

\* Mutant: the section that reaches the end of the chunk is not stored.
Sections_Inner == {k \in i .. (PageCount - 1) : entries[k] /\ \E j \in k .. (PageCount - 1) : ~entries[j]}

\* Where the sections of present pages that are not stored yet begin.
Sections == {k \in i .. (PageCount - 1) : entries[k]}

\* The end of the section that begins at k.
Ends(k) == Min({j \in k .. PageCount : j = PageCount \/ ~entries[j]})

StoreSection ==
  /\ op = "full" /\ at = "runs"
  /\ Sections # {}
  /\ LET k == Min(Sections)
     IN /\ AddToRegionList(Of(current + k, current + Ends(k), block.perms))
        /\ i' = Ends(k)
  /\ UNCHANGED <<target, changed, op, at, last, addr, flags, block, next, current, entries>>

NextChunk ==
  /\ op = "full" /\ at = "runs"
  /\ Sections = {}
  /\ current' = current + PageCount
  /\ next' = next
  /\ i' = 0
  /\ IF current' < block.stop THEN at' = "pread" /\ UNCHANGED block ELSE Behind
  /\ UNCHANGED <<target, changed, op, last, addr, flags, entries, max, regions>>

-----------------------------------------------------------------------------
Reader == QueryLine \/ ReadRecord \/ Pread \/ StoreSection \/ NextChunk

Next ==
  \/ \E a, b \in Page, x \in Contents \cup {Unmapped} : a <= b /\ Change(a, b, x)
  \/ Exit
  \/ StartWalk
  \/ \E f \in Flags : StartFull(f)
  \/ Reader

Spec == Init /\ [][Next]_vars

\* The connection's thread runs.  Nothing is asked of the target.
FairSpec == Spec /\ WF_vars(Reader)

-----------------------------------------------------------------------------
Covers(r, pg) == r.base <= pg /\ pg < r.base + r.size
Covering(pg)  == {k \in 1 .. Len(regions) : Covers(regions[k], pg)}

\* The regions and lines have the shape the code can give them, and the list
\* has room for one more entry.
TypeOK ==
  /\ mem \in [Page -> Contents \cup {Gate, Unmapped}]
  /\ changed \subseteq Page
  /\ last \in 0 .. (N + 1) /\ addr \in 0 .. (N + 1) /\ current \in 0 .. (N + 1)
  /\ block \in Line /\ next \in Line
  /\ entries \in [0 .. (Chunk - 1) -> BOOLEAN]
  /\ i \in 0 .. Chunk
  /\ \A k \in 1 .. Len(regions) : regions[k].size > 0
  /\ op = "full" => Len(regions) < max

\* A client that walks from region to region meets each page that does not
\* change meanwhile exactly once and with its true protection, and misses none
\* that is mapped, whatever the rest of the map does between two queries, and
\* between two lines of one.
WalkExact ==
  op = "walk" =>
    \A pg \in Page \ changed :
      /\ pg < addr =>
           /\ Cardinality(Covering(pg)) = 1
           /\ \A k \in Covering(pg) :
                regions[k].protection = IF pg \in Mapped
                                        THEN ProtectionStringToProtection(mem[pg].perms)
                                        ELSE "PAGE_NOACCESS"
      /\ at = "done" /\ pg \in Mapped => pg < addr

\* The mapping of page pg has a dirty page: for sure, and as far as one can tell
\* when of the pages that changed nothing is known.
Span(pg, q) == (pg .. q) \cup (q .. pg)
SurelyDirty(pg) ==
  \E q \in Page : /\ \A x \in Span(pg, q) : x \notin changed /\ Same(x, pg)
                  /\ mem[q].dirty
MaybeDirty(pg) ==
  \E q \in Page : /\ \A x \in Span(pg, q) : x \in changed \/ Same(x, pg)
                  /\ q \in changed \/ mem[q].dirty

\* The pages that the flags ask for, and those that an answer may have beside
\* them: the bits of a page above the task size are not read.
Wanted(pg) ==
  /\ pg \in Mapped
  /\ "VQE_NOSHARED" \in flags => "s" \notin mem[pg].perms
  /\ "VQE_DIRTYONLY" \in flags => SurelyDirty(pg)
  /\ "VQE_PAGEDONLY" \in flags => mem[pg].present /\ pg <= Top
Allowed(pg) ==
  /\ pg \in Mapped
  /\ "VQE_NOSHARED" \in flags => "s" \notin mem[pg].perms
  /\ "VQE_DIRTYONLY" \in flags => MaybeDirty(pg)
  /\ "VQE_PAGEDONLY" \in flags => mem[pg].present \/ pg > Top

\* VirtualQueryExFull lists every page that does not change meanwhile and
\* passes the filters, and of those pages no other, with its true type and
\* protection: the header, the dirty flag and the bits of pagemap that are read
\* at different times are put together right.  With VQE_DIRTYONLY a mapping passes
\* as a whole, if one of its pages is dirty.  With VQE_PAGEDONLY nothing is said of
\* the pages above the task size: those may be listed or not.  If nothing changes,
\* the list is in order and lists no page twice.
FullExact ==
  op = "full" =>
    /\ \A pg \in Page \ changed :
         /\ \A k \in Covering(pg) :
              /\ Allowed(pg)
              /\ regions[k].type = ProtectionStringToType(mem[pg].perms)
              /\ regions[k].protection = ProtectionStringToProtection(mem[pg].perms)
         /\ at = "done" /\ Wanted(pg) => Covering(pg) # {}
    /\ changed = {} =>
         \A k \in 1 .. (Len(regions) - 1) :
           regions[k].base + regions[k].size <= regions[k + 1].base

\* Every query ends, whatever the target does, its exit included.
QueryEnds == op # "idle" ~> at = "done"
=============================================================================
