-------------------------- MODULE MemoryMapProofs --------------------------
(* Proofs that both memory map queries answer exactly for every page that   *)
(* does not change while they run, for any number of pages, any contents,   *)
(* flags and sizes of a chunk, and any changes of the target.               *)
EXTENDS MemoryMap, TLAPS, FiniteSetTheorems, WellFoundedInduction

-----------------------------------------------------------------------------
(* Least and greatest elements.                                             *)

\* A set of numbers that is not empty has a least element.
LEMMA MinIn ==
  ASSUME NEW S, S \subseteq Nat, S # {}
  PROVE  Min(S) \in S /\ \A j \in S : Min(S) <= j
<1> DEFINE R == OpToRel(<, Nat)
<1>1. \E x \in S : \A y \in S : ~ (<<y, x>> \in R)
  <2>1. IsWellFoundedOn(R, Nat)
    BY NatLessThanWellFounded
  <2> HIDE DEF R
  <2> QED
    BY <2>1, WFMin
<1>2. PICK x \in S : \A y \in S : ~ (<<y, x>> \in R)
  BY <1>1
<1>3. \A y \in S : x <= y
  <2> TAKE y \in S
  <2>1. ~ (y < x)
    BY <1>2 DEF OpToRel
  <2> QED
    BY <2>1, SMT
<1> QED
  BY <1>3 DEF Min

\* One that is bounded has a greatest one.
LEMMA MaxIn ==
  ASSUME NEW n \in Nat, NEW S, S \subseteq 0 .. n, S # {}
  PROVE  Max(S) \in S /\ \A j \in S : j <= Max(S)
<1> DEFINE T == {n - x : x \in S}
<1>1. T \subseteq Nat /\ T # {}
  OBVIOUS
<1>2. Min(T) \in T /\ \A j \in T : Min(T) <= j
  BY <1>1, MinIn
<1>3. PICK x \in S : Min(T) = n - x
  BY <1>2
<1>4. \A y \in S : x >= y
  <2> TAKE y \in S
  <2>1. n - y \in T
    OBVIOUS
  <2>2. n - x <= n - y
    BY <1>2, <1>3, <2>1
  <2> QED
    BY <2>2
<1> QED
  BY <1>4 DEF Max

-----------------------------------------------------------------------------
(* The lines the kernel gives.                                              *)

InLine(l, pg) == l.start <= pg /\ pg < l.stop

\* A line covers pages, the one that stands for the file's end none.
GoodLine(l) == l \in Line /\ (l = NoLine \/ (1 <= l.start /\ l.start < l.stop))

MemType == mem \in [Page -> Contents \cup {Gate, Unmapped}]

\* What is read at one moment does not depend on the rest of the query.
LEMMA Unmoved ==
  ASSUME UNCHANGED <<mem, changed>>
  PROVE  /\ Mapped' = Mapped
         /\ \A pg : SurelyDirty(pg)' <=> SurelyDirty(pg)
         /\ \A pg : MaybeDirty(pg)' <=> MaybeDirty(pg)
         /\ \A x, pg : Same(x, pg)' <=> Same(x, pg)
         /\ UNCHANGED flags => \A pg : (Wanted(pg)' <=> Wanted(pg)) /\ (Allowed(pg)' <=> Allowed(pg))
<1>1. Mapped' = Mapped
  BY DEF Mapped
<1>2. \A x, pg : Same(x, pg)' <=> Same(x, pg)
  BY <1>1 DEF Same
<1>3. \A pg : SurelyDirty(pg)' <=> SurelyDirty(pg)
  BY <1>2 DEF SurelyDirty
<1>4. \A pg : MaybeDirty(pg)' <=> MaybeDirty(pg)
  BY <1>2 DEF MaybeDirty
<1> QED
  BY <1>1, <1>2, <1>3, <1>4 DEF Wanted, Allowed

\* The next line is a whole mapping that ends after the last one; between the
\* two nothing is mapped.  Its dirty flag is right about each of its pages.
LEMMA NextLineExact ==
  ASSUME MemType, last \in 0 .. (N + 1)
  PROVE  /\ GoodLine(NextLine)
         /\ NextLine = NoLine => \A pg \in Mapped : pg < last
         /\ NextLine # NoLine =>
              /\ last < NextLine.stop
              /\ \A pg \in Page : InLine(NextLine, pg) =>
                   /\ pg \in Mapped /\ mem[pg].perms = NextLine.perms
                   /\ (pg > Top <=> NextLine.start > Top)
                   /\ SurelyDirty(pg) => NextLine.dirty
                   /\ NextLine.dirty => MaybeDirty(pg)
              /\ \A pg \in Mapped : last <= pg => NextLine.start <= pg
              /\ ~Same(NextLine.stop, NextLine.start)
<1> USE MapAssumption
<1> DEFINE later == {pg \in Mapped : pg >= last}
           m == Min(later)
           A == {k \in 1 .. m : Uniform(k, m)}
           B == {k \in m .. N : Uniform(m, k)}
           a == Min(A)
           b == Max(B)
           l == [start |-> a, stop |-> b + 1, perms |-> mem[m].perms,
                 dirty |-> \E pg \in a .. b : mem[pg].dirty]
<1>1. CASE later = {}
  <2>1. NextLine = NoLine
    BY <1>1 DEF NextLine
  <2>2. \A pg \in Mapped : pg < last
    BY <1>1 DEF Mapped, Page
  <2>3. GoodLine(NoLine)
    BY DEF GoodLine, Line, NoLine
  <2> QED
    BY <2>1, <2>2, <2>3
<1>2. CASE later # {}
  <2>1. NextLine = l
    BY <1>2 DEF NextLine
  <2>2. later \subseteq Nat
    BY DEF Mapped, Page
  <2>3. m \in later /\ \A j \in later : m <= j
    BY <1>2, <2>2, MinIn
  <2> HIDE DEF m
  <2>4. m \in Mapped /\ m \in 1 .. N /\ last <= m
    BY <2>3 DEF Mapped, Page
  <2>5. Uniform(m, m)
    BY <2>4 DEF Uniform, Same
  <2>6. m \in A /\ m \in B /\ A \subseteq Nat /\ B \subseteq 0 .. N
    BY <2>4, <2>5
  <2>7. a \in A /\ a <= m /\ \A k \in A : a <= k
    BY <2>6, MinIn
  <2>8. b \in B /\ m <= b /\ \A k \in B : k <= b
    BY <2>6, MaxIn
  <2> HIDE DEF a, b
  <2>9. a \in 1 .. m /\ b \in m .. N /\ Uniform(a, m) /\ Uniform(m, b)
    BY <2>7, <2>8
  <2>10. Same(m, a) /\ Same(a, a)
    BY <2>4, <2>9 DEF Uniform
  <2>11. \A pg \in a .. b : Same(pg, m)
    <3> SUFFICES ASSUME NEW pg \in a .. b
                 PROVE  Same(pg, m)
      OBVIOUS
    <3>1. CASE pg <= m
      <4>1. pg \in a .. m
        BY <2>4, <2>9, <3>1
      <4>2. Same(pg, a)
        BY <2>9, <4>1 DEF Uniform
      <4> QED
        BY <2>10, <4>2 DEF Same
    <3>2. CASE ~(pg <= m)
      <4>1. pg \in m .. b
        BY <2>4, <2>9, <3>2
      <4> QED
        BY <2>9, <4>1 DEF Uniform
    <3> QED
      BY <3>1, <3>2
  <2>12. ~Same(b + 1, m)
    <3> SUFFICES ASSUME Same(b + 1, m)
                 PROVE  FALSE
      OBVIOUS
    <3>1. b + 1 \in m .. N
      BY <2>4, <2>9 DEF Same, Mapped, Page
    <3>2. Uniform(m, b + 1)
      <4> SUFFICES ASSUME NEW pg \in m .. (b + 1)
                   PROVE  Same(pg, m)
        BY DEF Uniform
      <4>1. pg = b + 1 \/ pg \in m .. b
        BY <2>4, <2>9
      <4> QED
        BY <2>9, <4>1 DEF Uniform
    <3>3. b + 1 \in B
      BY <3>1, <3>2
    <3>4. b + 1 <= b
      BY <2>8, <3>3
    <3> QED
      BY <2>9, <2>4, <3>4
  <2>22. ~Same(a - 1, m)
    <3> SUFFICES ASSUME Same(a - 1, m)
                 PROVE  FALSE
      OBVIOUS
    <3>1. a - 1 \in 1 .. m
      BY <2>4, <2>9 DEF Same, Mapped, Page
    <3>2. Uniform(a - 1, m)
      <4> SUFFICES ASSUME NEW pg \in (a - 1) .. m
                   PROVE  Same(pg, a - 1)
        BY DEF Uniform
      <4>1. pg = a - 1 \/ pg \in a .. b
        BY <2>4, <2>9
      <4>2. Same(pg, m)
        BY <2>11, <4>1
      <4> QED
        BY <4>2 DEF Same
    <3>3. a - 1 \in A
      BY <3>1, <3>2
    <3>4. a <= a - 1
      BY <2>7, <3>3
    <3> QED
      BY <2>9, <2>4, <3>4
  <2>13. mem[m] \in Contents \cup {Gate} /\ mem[m].perms \in SUBSET Perms
    <3>1. mem[m] \in Contents \cup {Gate}
      BY <2>4 DEF Mapped, MemType, Page
    <3>2. Gate.perms \in SUBSET Perms
      BY DEF Gate, Perms
    <3> QED
      BY <3>1, <3>2
  <2>14. /\ l.start = a /\ l.stop = b + 1 /\ l.perms = mem[m].perms
         /\ l.dirty = (\E pg \in a .. b : mem[pg].dirty)
    OBVIOUS
  <2>15. l \in Line
    BY <2>4, <2>9, <2>13 DEF Line
  <2>16. l # NoLine
    BY <2>4, <2>9, <2>14 DEF NoLine
  <2>17. \A pg \in Page : InLine(l, pg) <=> pg \in a .. b
    BY <2>4, <2>9, <2>14 DEF InLine, Page
  <2>18. GoodLine(l)
    BY <2>4, <2>9, <2>14, <2>15 DEF GoodLine
  <2>19. \A pg \in Mapped : last <= pg => a <= pg
    BY <2>3, <2>7, <2>4 DEF Mapped, Page
  <2>20. last < b + 1
    BY <2>4, <2>9
  <2>21. ASSUME NEW pg \in a .. b, SurelyDirty(pg)
         PROVE  l.dirty
    <3>1. PICK q \in Page : (\A x \in Span(pg, q) : Same(x, pg)) /\ mem[q].dirty
      BY <2>21 DEF SurelyDirty
    <3>2. Same(pg, m) /\ pg \in Nat /\ q \in Nat /\ 1 <= q
      BY <2>4, <2>9, <2>11, <2>21 DEF Page
    <3>3. \A x \in Span(pg, q) : Same(x, m)
      BY <3>1, <3>2 DEF Same
    <3>4. ~(b < q)
      <4> SUFFICES ASSUME b < q
                   PROVE  FALSE
        OBVIOUS
      <4>1. b + 1 \in Span(pg, q)
        BY <2>4, <2>9, <2>21, <3>2 DEF Span
      <4> QED
        BY <2>12, <3>3, <4>1
    <3>5. ~(q < a)
      <4> SUFFICES ASSUME q < a
                   PROVE  FALSE
        OBVIOUS
      <4>1. a - 1 \in Span(pg, q)
        BY <2>4, <2>9, <2>21, <3>2 DEF Span
      <4> QED
        BY <2>22, <3>3, <4>1
    <3>6. q \in a .. b
      BY <2>4, <2>9, <3>2, <3>4, <3>5
    <3> QED
      BY <2>14, <3>1, <3>6
  <2>23. ASSUME NEW pg \in a .. b, l.dirty
         PROVE  MaybeDirty(pg)
    <3>1. PICK q \in a .. b : mem[q].dirty
      BY <2>14, <2>23
    <3>2. q \in Page /\ pg \in Nat /\ q \in Nat
      BY <2>4, <2>9, <2>23 DEF Page
    <3>3. ASSUME NEW x \in Span(pg, q)
          PROVE  Same(x, pg)
      <4>1. x \in a .. b
        BY <2>4, <2>9, <2>23, <3>1, <3>2, <3>3 DEF Span
      <4>2. Same(x, m) /\ Same(pg, m)
        BY <2>11, <2>23, <4>1
      <4> QED
        BY <4>2 DEF Same
    <3> QED
      BY <3>1, <3>2, <3>3 DEF MaybeDirty
  <2>24. \A pg \in Page : InLine(l, pg) => /\ pg \in Mapped /\ mem[pg].perms = l.perms
                                           /\ (pg > Top <=> l.start > Top)
                                           /\ SurelyDirty(pg) => l.dirty
                                           /\ l.dirty => MaybeDirty(pg)
    BY <2>10, <2>11, <2>14, <2>17, <2>21, <2>23 DEF Same
  <2>25. ~Same(l.stop, l.start)
    BY <2>10, <2>12, <2>14 DEF Same
  <2> HIDE DEF l
  <2> QED
    BY <2>1, <2>14, <2>16, <2>18, <2>19, <2>20, <2>24, <2>25
<1> QED
  BY <1>1, <1>2


-----------------------------------------------------------------------------
(* The inductive invariant.                                                 *)

Types       == {0, "MEM_MAPPED", "MEM_PRIVATE"}
Protections == {"PAGE_EXECUTE_READWRITE", "PAGE_EXECUTE_READ", "PAGE_READWRITE",
                "PAGE_READONLY", "PAGE_NOACCESS"}
Entry == [base : Nat, size : Nat \ {0}, type : Types, protection : Protections]

\* The types, with what goes with each place of a query: a chunk that is read
\* lies in a block that has passed the filters.
Shape ==
  /\ TypeOK
  /\ alive \in BOOLEAN
  /\ ~alive => Mapped = {}
  /\ op \in {"idle", "walk", "full"}
  /\ op = "idle" => at = "done"
  /\ op = "walk" => at \in {"line", "done"}
  /\ op = "full" => at \in {"line", "pread", "runs", "done"}
  /\ flags \subseteq VQE
  /\ GoodLine(block) /\ GoodLine(next)
  /\ max \in Nat \ {0}
  /\ regions \in Seq(Entry)
  /\ at \in {"pread", "runs"} =>
       /\ block # NoLine /\ Passed(block) /\ "VQE_PAGEDONLY" \in flags
       /\ block.start <= current /\ current < block.stop
       /\ i <= PageCount
  /\ at = "pread" => i = 0

\* The walk gives every page below its address one region, and its file is
\* never ahead of the address.
WalkInv ==
  op = "walk" =>
    /\ last <= addr
    /\ \A pg \in Page :
         IF pg < addr THEN \E k \in 1 .. Len(regions) : Covering(pg) = {k}
                      ELSE Covering(pg) = {}
    /\ \A pg \in Page \ changed : \A k \in Covering(pg) :
         regions[k].protection = IF pg \in Mapped
                                 THEN ProtectionStringToProtection(mem[pg].perms)
                                 ELSE "PAGE_NOACCESS"
    /\ at = "done" => \A pg \in Mapped : pg < addr

\* A line that was read is still right about the pages that have not changed,
\* and while none has, it is still a whole mapping.
LineTrue(l) ==
  /\ \A pg \in Page \ changed : InLine(l, pg) =>
       /\ pg \in Mapped /\ mem[pg].perms = l.perms
       /\ (pg > Top <=> l.start > Top)
       /\ SurelyDirty(pg) => l.dirty
       /\ l.dirty => MaybeDirty(pg)
  /\ changed = {} /\ l # NoLine => ~Same(l.stop, l.start)

\* Between two lines there is nothing.
GapTrue(l, n) ==
  /\ \A pg \in Page \ changed : l.stop <= pg /\ (n = NoLine \/ pg < n.start) => pg \notin Mapped
  /\ changed = {} /\ n # NoLine => l.stop <= n.start

\* What the list says of a page is true.
Right(r, pg) ==
  /\ Allowed(pg)
  /\ r.type = ProtectionStringToType(mem[pg].perms)
  /\ r.protection = ProtectionStringToProtection(mem[pg].perms)

\* The list has the page if it should.
Handled(pg) == Wanted(pg) => Covering(pg) # {}

\* The query has dealt with the pages below its frontier.
Frontier == IF at = "line" THEN block.start ELSE current + i

FullInv ==
  op = "full" =>
    /\ LineTrue(block) /\ LineTrue(next)
    /\ at = "line" => block = next /\ last = block.stop
    /\ at \in {"pread", "runs"} => GapTrue(block, next) /\ last = next.stop
    /\ at = "runs" => \A k \in 0 .. (PageCount - 1) :
         current + k \notin changed /\ current + k <= Top => entries[k] = mem[current + k].present
    /\ \A pg \in Page \ changed :
         /\ \A k \in Covering(pg) : Right(regions[k], pg)
         /\ at = "done" \/ pg < Frontier => Handled(pg)
    /\ changed = {} =>
         /\ \A k \in 1 .. (Len(regions) - 1) :
              regions[k].base + regions[k].size <= regions[k + 1].base
         /\ at # "done" => \A k \in 1 .. Len(regions) :
              regions[k].base + regions[k].size <= Frontier

IInv == Shape /\ WalkInv /\ FullInv


-----------------------------------------------------------------------------
(* The pieces of a query.                                                   *)

\* A region has the type and the protection of its line.
LEMMA RegionEntry ==
  ASSUME NEW base \in Nat, NEW stop \in Nat, base < stop
  PROVE  /\ \A perms : /\ Of(base, stop, perms) \in Entry
                       /\ Of(base, stop, perms).base = base
                       /\ Of(base, stop, perms).base + Of(base, stop, perms).size = stop
                       /\ Of(base, stop, perms).type = ProtectionStringToType(perms)
                       /\ Of(base, stop, perms).protection = ProtectionStringToProtection(perms)
         /\ Region(base, stop, 0, "PAGE_NOACCESS") \in Entry
         /\ Region(base, stop, 0, "PAGE_NOACCESS").base = base
         /\ Region(base, stop, 0, "PAGE_NOACCESS").size = stop - base
         /\ Region(base, stop, 0, "PAGE_NOACCESS").protection = "PAGE_NOACCESS"
<1>1. stop - base \in Nat \ {0} /\ base + (stop - base) = stop
  OBVIOUS
<1>2. \A perms : /\ ProtectionStringToType(perms) \in Types
                 /\ ProtectionStringToProtection(perms) \in Protections
  BY DEF ProtectionStringToType, ProtectionStringToProtection, Types, Protections
<1>3. 0 \in Types /\ "PAGE_NOACCESS" \in Protections
  BY DEF Types, Protections
<1> QED
  BY <1>1, <1>2, <1>3 DEF Of, Region, Entry

\* A chunk is not empty and does not reach behind its block.
LEMMA ChunkSize ==
  ASSUME block.stop \in Nat, current \in Nat, current < block.stop
  PROVE  /\ PageCount \in 1 .. Chunk /\ current + PageCount <= block.stop
         /\ PageCount \in Nat
<1> USE MapAssumption
<1>1. block.stop - current \in Nat /\ block.stop - current >= 1
  OBVIOUS
<1>2. {block.stop - current, Chunk} \subseteq Nat /\ {block.stop - current, Chunk} # {}
  BY <1>1
<1>3. /\ PageCount \in {block.stop - current, Chunk}
      /\ \A j \in {block.stop - current, Chunk} : PageCount <= j
  BY <1>2, MinIn DEF PageCount
<1>4. PageCount <= block.stop - current /\ PageCount <= Chunk
  BY <1>3
<1> HIDE DEF PageCount
<1> QED
  BY <1>1, <1>3, <1>4

\* A section is a run of present pages up to the chunk's end or a page that is
\* not present.
LEMMA SectionEnds ==
  ASSUME entries \in [0 .. (Chunk - 1) -> BOOLEAN], PageCount \in 1 .. Chunk,
         NEW k \in 0 .. (PageCount - 1), entries[k]
  PROVE  /\ Ends(k) \in (k + 1) .. PageCount
         /\ \A j \in k .. (Ends(k) - 1) : entries[j]
<1> USE MapAssumption
<1> DEFINE E == {j \in k .. PageCount : j = PageCount \/ ~entries[j]}
<1>1. PageCount \in E /\ E \subseteq Nat
  OBVIOUS
<1>2. Ends(k) \in E /\ \A j \in E : Ends(k) <= j
  BY <1>1, MinIn DEF Ends
<1> HIDE DEF PageCount
<1>3. Ends(k) # k
  BY <1>2
<1>4. Ends(k) \in k .. PageCount
  BY <1>2
<1>5. ASSUME NEW j \in k .. (Ends(k) - 1), ~entries[j]
      PROVE  FALSE
  <2>1. j \in E /\ j < Ends(k)
    BY <1>4, <1>5
  <2> QED
    BY <1>2, <1>4, <2>1
<1> QED
  BY <1>3, <1>4, <1>5

\* The first section that is not stored yet, and what lies before it.
LEMMA FirstSection ==
  ASSUME entries \in [0 .. (Chunk - 1) -> BOOLEAN], PageCount \in 1 .. Chunk, i \in 0 .. Chunk,
         Sections # {}
  PROVE  /\ Min(Sections) \in i .. (PageCount - 1) /\ entries[Min(Sections)]
         /\ Ends(Min(Sections)) \in (Min(Sections) + 1) .. PageCount
         /\ \A j \in Min(Sections) .. (Ends(Min(Sections)) - 1) : entries[j]
         /\ \A j \in i .. (Min(Sections) - 1) : ~entries[j]
<1> USE MapAssumption
<1> HIDE DEF PageCount
<1>1. Sections \subseteq Nat
  BY DEF Sections
<1>2. Min(Sections) \in Sections /\ \A j \in Sections : Min(Sections) <= j
  BY <1>1, MinIn
<1>3. Min(Sections) \in i .. (PageCount - 1) /\ entries[Min(Sections)]
  BY <1>2 DEF Sections
<1>4. ASSUME NEW j \in i .. (Min(Sections) - 1), entries[j]
      PROVE  FALSE
  <2>1. j \in Sections /\ j < Min(Sections)
    BY <1>3, <1>4 DEF Sections
  <2> QED
    BY <1>2, <1>3, <2>1
<1>5. Min(Sections) \in 0 .. (PageCount - 1)
  BY <1>3
<1> QED
  BY <1>3, <1>4, <1>5, SectionEnds

\* The list has room for one more entry, also after it has grown.
LEMMA RoomStep ==
  ASSUME regions \in Seq(Entry), max \in Nat \ {0}, Len(regions) < max, NEW r \in Entry,
         AddToRegionList(r)
  PROVE  /\ regions' \in Seq(Entry) /\ max' \in Nat \ {0} /\ Len(regions') < max'
         /\ regions' = Append(regions, r)
<1>1. regions' = Append(regions, r) /\ regions' \in Seq(Entry) /\ Len(regions') = Len(regions) + 1
  BY DEF AddToRegionList
<1>2. max' = IF Len(regions) + 1 >= max THEN 2 * max ELSE max
  BY DEF AddToRegionList, Grown
<1>3. Len(regions) \in Nat
  OBVIOUS
<1> QED
  BY <1>1, <1>2, <1>3

\* Which pages the list covers after an entry is added.
LEMMA CoveringAppend ==
  ASSUME regions \in Seq(Entry), NEW r \in Entry, regions' = Append(regions, r), NEW pg \in Page
  PROVE  /\ Covering(pg)' = Covering(pg) \cup (IF Covers(r, pg) THEN {Len(regions) + 1} ELSE {})
         /\ \A k \in Covering(pg) : k \in 1 .. Len(regions) /\ regions'[k] = regions[k]
         /\ regions'[Len(regions) + 1] = r
<1>1. /\ Len(regions') = Len(regions) + 1 /\ Len(regions) \in Nat
      /\ \A k \in 1 .. Len(regions) : regions'[k] = regions[k]
      /\ regions'[Len(regions) + 1] = r
  OBVIOUS
<1>2. 1 .. Len(regions') = (1 .. Len(regions)) \cup {Len(regions) + 1}
  BY <1>1
<1>3. Covering(pg)' = {k \in 1 .. Len(regions') : Covers(regions'[k], pg)}
  BY DEF Covering, Covers
<1> QED
  BY <1>1, <1>2, <1>3 DEF Covering


-----------------------------------------------------------------------------
(* Types.                                                                   *)

\* What the target does: a page that has not changed since the query began is
\* as it was, and the query itself is not touched.
Moves ==
  /\ \A pg \in Page \ changed' : pg \notin changed /\ mem'[pg] = mem[pg]
  /\ at # "done"
  /\ UNCHANGED <<op, at, last, addr, flags, block, next, current, entries, i, max, regions>>

TargetStep == Exit \/ \E a, b \in Page, x \in Contents \cup {Unmapped} : Change(a, b, x)

\* Both kinds of step keep this account of the changes.
LEMMA TargetMoves ==
  ASSUME MemType, changed \subseteq Page, ~alive => Mapped = {}, TargetStep
  PROVE  /\ Moves /\ MemType' /\ changed' \subseteq Page
         /\ alive' \in BOOLEAN /\ (~alive' => Mapped' = {})
<1> USE DEF MemType, Mapped
<1>1. CASE Exit
  <2>1. /\ mem' = [pg \in Page |-> Unmapped] /\ changed' = changed \cup Mapped /\ alive' = FALSE
        /\ at # "done" /\ UNCHANGED <<changes, op, at, last, addr, full, regions>>
    BY <1>1 DEF Exit
  <2> QED
    BY <2>1 DEF Moves, full
<1>2. ASSUME NEW a \in Page, NEW b \in Page, NEW x \in Contents \cup {Unmapped}, Change(a, b, x)
      PROVE  /\ Moves /\ MemType' /\ changed' \subseteq Page
             /\ alive' \in BOOLEAN /\ (~alive' => Mapped' = {})
  <2>1. /\ alive = TRUE /\ alive' = TRUE /\ at # "done"
        /\ mem' = [pg \in Page |-> IF pg \in a .. b THEN x ELSE mem[pg]]
        /\ changed' = changed \cup {pg \in Page : mem'[pg] # mem[pg]}
        /\ UNCHANGED <<op, at, last, addr, full, regions>>
    <3>1. alive /\ UNCHANGED alive
      BY <1>2 DEF Change
    <3>2. alive = TRUE
      BY <3>1
    <3> QED
      BY <1>2, <3>1, <3>2 DEF Change
  <2>2. MemType' /\ changed' \subseteq Page
    BY <2>1
  <2>3. Moves
    BY <2>1 DEF Moves, full
  <2> QED
    BY <2>1, <2>2, <2>3
<1> QED
  BY <1>1, <1>2 DEF TargetStep

\* Every step keeps the types and the place of the query.
LEMMA ShapeStep ==
  ASSUME Shape, [Next]_vars
  PROVE  Shape'
<1> USE MapAssumption
<1>0. /\ TypeOK /\ MemType /\ (~alive => Mapped = {}) /\ alive \in BOOLEAN
      /\ regions \in Seq(Entry) /\ max \in Nat \ {0} /\ flags \subseteq VQE
      /\ GoodLine(block) /\ GoodLine(next)
  BY DEF Shape, TypeOK, MemType
<1>1. GoodLine(NextLine)
  BY <1>0, NextLineExact DEF TypeOK
<1>g. \A l : GoodLine(l) => /\ l \in Line /\ l.start \in 0 .. N /\ l.stop \in 0 .. (N + 1)
                            /\ l # NoLine => 1 <= l.start /\ l.start < l.stop
  BY DEF GoodLine, Line
<1>n. GoodLine(NoLine)
  BY DEF GoodLine, Line, NoLine
\* The list after an entry: its sizes stay positive.
<1>s. ASSUME NEW rs \in Seq(Entry), NEW k \in 1 .. Len(rs)
      PROVE  rs[k].size > 0
  <2>1. rs[k] \in Entry
    OBVIOUS
  <2>2. rs[k].size \in Nat \ {0}
    BY <2>1 DEF Entry
  <2> QED
    BY <2>2
<1>2. CASE UNCHANGED vars
  BY <1>2 DEF vars, target, full, Shape, TypeOK, Mapped, Passed, PageCount
<1>3. CASE TargetStep
  <2>1. /\ Moves /\ MemType' /\ changed' \subseteq Page
        /\ alive' \in BOOLEAN /\ (~alive' => Mapped' = {})
    BY <1>0, <1>3, TargetMoves DEF TypeOK
  <2> QED
    BY <2>1 DEF Moves, Shape, TypeOK, MemType, Passed, PageCount
<1>4. CASE StartWalk
  <2>1. /\ op' = "walk" /\ at' = "line" /\ last' = 0 /\ addr' = 0 /\ changed' = {}
        /\ regions' = <<>>
        /\ UNCHANGED <<mem, alive, flags, block, next, current, entries, i, max>>
    BY <1>4 DEF StartWalk, target, full
  <2> QED
    BY <2>1 DEF Shape, TypeOK, Mapped
<1>5. ASSUME NEW f \in Flags, StartFull(f)
      PROVE  Shape'
  <2>1. /\ op' = "full" /\ at' = "line" /\ last' = 0 /\ changed' = {} /\ regions' = <<>>
        /\ flags' = f /\ block' = NoLine /\ next' = NoLine /\ current' = 0 /\ i' = 0
        /\ max' = InitialMax /\ entries' \in [0 .. (Chunk - 1) -> BOOLEAN]
        /\ UNCHANGED <<mem, alive, addr>>
    BY <1>5 DEF StartFull, target
  <2> QED
    BY <1>0, <1>n, <1>g, <2>1 DEF Shape, TypeOK, Mapped
<1>6. CASE QueryLine
  <2> DEFINE l == NextLine
  <2>1. /\ op = "walk" /\ at = "line"
        /\ UNCHANGED <<mem, alive, changed, op, flags, block, next, current, entries, i, max>>
    BY <1>6 DEF QueryLine, target, full
  <2>2. \/ l # NoLine /\ ~Passes(l) /\ last' = l.stop /\ UNCHANGED <<at, addr, regions>>
        \/ /\ l # NoLine /\ Passes(l) /\ regions' = Append(regions, Answer(l))
           /\ addr' = addr + Answer(l).size /\ last' = 0 /\ UNCHANGED at
        \/ l = NoLine /\ at' = "done" /\ UNCHANGED <<last, addr, regions>>
    BY <1>6 DEF QueryLine
  <2> HIDE DEF l
  <2>3. GoodLine(l)
    BY <1>1 DEF l
  <2>4. Passes(l) => Answer(l) \in Entry /\ addr + Answer(l).size \in 0 .. (N + 1)
    <3> SUFFICES ASSUME Passes(l)
                 PROVE  Answer(l) \in Entry /\ addr + Answer(l).size \in 0 .. (N + 1)
      OBVIOUS
    <3>1. /\ l.start \in 0 .. N /\ l.stop \in 0 .. (N + 1) /\ addr \in Nat /\ l.stop > addr
      BY <1>0, <1>g, <2>3 DEF Passes, TypeOK
    <3>2. CASE addr >= l.start
      <4>1. Answer(l) = Of(addr, l.stop, l.perms)
        BY <3>2 DEF Answer
      <4>2. Answer(l) \in Entry /\ addr + Answer(l).size = l.stop
        BY <3>1, <4>1, RegionEntry
      <4> QED
        BY <3>1, <4>2
    <3>3. CASE ~(addr >= l.start)
      BY <3>1, <3>3, RegionEntry DEF Answer
    <3> QED
      BY <3>2, <3>3
  <2>5. last' \in 0 .. (N + 1) /\ addr' \in 0 .. (N + 1) /\ at' \in {"line", "done"}
    BY <1>0, <1>g, <2>1, <2>2, <2>3, <2>4 DEF TypeOK
  <2>6. regions' \in Seq(Entry)
    BY <1>0, <2>2, <2>4
  <2> QED
    BY <1>s, <2>1, <2>5, <2>6 DEF Shape, TypeOK, Mapped
<1>7. CASE ReadRecord
  <2>1. /\ op = "full" /\ at = "line" /\ next' = NextLine /\ last' = NextLine.stop /\ i' = 0
        /\ UNCHANGED <<mem, alive, changed, op, addr, flags, entries>>
    BY <1>7 DEF ReadRecord, target
  <2>2. GoodLine(next)' /\ last' \in 0 .. (N + 1)
    BY <1>1, <1>g, <2>1 DEF GoodLine, Line, NoLine
  <2>3. block \in Line /\ (Passed(block) => block # NoLine)
    BY <1>0, <1>g DEF Passed
  <2>4. CASE ~Passed(block) /\ Behind /\ UNCHANGED <<current, max, regions>>
    <3>1. GoodLine(block)' /\ at' \in {"line", "done"}
      BY <2>2, <2>4 DEF Behind, GoodLine, Line, NoLine
    <3> QED
      BY <2>1, <2>2, <2>4, <3>1 DEF Shape, TypeOK, Mapped, GoodLine, Line, NoLine
  <2>5. CASE /\ Passed(block) /\ "VQE_PAGEDONLY" \notin flags
             /\ AddToRegionList(Of(block.start, block.stop, block.perms))
             /\ Behind /\ UNCHANGED current
    <3>1. GoodLine(block)' /\ at' \in {"line", "done"}
      BY <2>2, <2>5 DEF Behind, GoodLine, Line, NoLine
    <3>2. Of(block.start, block.stop, block.perms) \in Entry
      BY <1>0, <1>g, <2>3, <2>5, RegionEntry
    <3>3. /\ regions' \in Seq(Entry) /\ max' \in Nat \ {0} /\ Len(regions') < max'
      BY <1>0, <2>1, <2>5, <3>2, RoomStep DEF TypeOK
    <3>4. block' \in Line /\ next' \in Line
      BY <2>2, <3>1 DEF GoodLine, Line
    <3>5. \A k \in 1 .. Len(regions') : regions'[k].size > 0
      BY <1>s, <3>3
    <3>6. TypeOK'
      BY <2>1, <2>2, <2>5, <3>3, <3>4, <3>5 DEF Shape, TypeOK
    <3> QED
      BY <2>1, <2>2, <2>5, <3>1, <3>3, <3>6 DEF Shape, Mapped
  <2>6. CASE /\ Passed(block) /\ "VQE_PAGEDONLY" \in flags /\ current' = block.start
             /\ at' = "pread" /\ UNCHANGED <<block, max, regions>>
    <3>1. /\ block.start \in 0 .. N /\ block.stop \in 0 .. (N + 1) /\ block.start < block.stop
      BY <1>0, <1>g, <2>3, <2>6
    <3>2. Passed(block)'
      BY <2>1, <2>6 DEF Passed
    <3>3. (PageCount \in Nat)'
      <4>1. block'.stop \in Nat /\ current' \in Nat /\ current' < block'.stop
        BY <2>6, <3>1
      <4>2. {block'.stop - current', Chunk} \subseteq Nat
        BY <4>1
      <4> QED
        BY <4>2, MinIn DEF PageCount
    <3>4. /\ block' # NoLine /\ block'.start <= current' /\ current' < block'.stop
          /\ current' \in 0 .. (N + 1) /\ (i <= PageCount)'
      BY <2>1, <2>3, <2>6, <3>1, <3>3
    <3> QED
      BY <2>1, <2>2, <2>6, <3>2, <3>4 DEF Shape, TypeOK, Mapped, GoodLine, Line, NoLine
  <2> QED
    BY <1>7, <2>4, <2>5, <2>6 DEF ReadRecord
<1>8. CASE Pread
  <2>1. /\ op = "full" /\ at = "pread" /\ at' = "runs" /\ i' = 0
        /\ UNCHANGED <<mem, alive, changed, op, last, addr, flags, block, next, current, max, regions>>
    BY <1>8 DEF Pread, target
  <2>2. entries' \in [0 .. (Chunk - 1) -> BOOLEAN]
    BY <1>0, <1>8 DEF Pread, TypeOK
  <2>3. PageCount' = PageCount /\ (Passed(block)' <=> Passed(block)) /\ PageCount \in Nat
    <3>1. block.stop \in Nat /\ current \in Nat /\ current < block.stop
      BY <1>0, <1>g, <2>1 DEF Shape, TypeOK
    <3> QED
      BY <2>1, <3>1, ChunkSize DEF PageCount, Passed
  <2> QED
    BY <2>1, <2>2, <2>3 DEF Shape, TypeOK, Mapped
<1>9. CASE StoreSection \/ NextChunk
  <2>1. /\ op = "full" /\ at = "runs" /\ block # NoLine /\ Passed(block)
        /\ "VQE_PAGEDONLY" \in flags /\ block.start <= current /\ current < block.stop
        /\ UNCHANGED <<mem, alive, changed, op, last, addr, flags, next, entries>>
    BY <1>9 DEF StoreSection, NextChunk, target, Shape
  <2>2. /\ block.start \in Nat /\ block.stop \in 0 .. (N + 1) /\ current \in 0 .. (N + 1)
        /\ i \in 0 .. Chunk
    BY <1>0, <1>g DEF TypeOK
  <2>3. PageCount \in 1 .. Chunk /\ current + PageCount <= block.stop /\ PageCount \in Nat
    BY <2>1, <2>2, ChunkSize
  <2>4. CASE StoreSection
    <3> DEFINE k == Min(Sections)
    <3>1. /\ AddToRegionList(Of(current + k, current + Ends(k), block.perms)) /\ i' = Ends(k)
          /\ UNCHANGED <<at, block, current>>
      BY <2>4 DEF StoreSection
    <3>2. k \in i .. (PageCount - 1) /\ Ends(k) \in (k + 1) .. PageCount
      BY <1>0, <2>2, <2>3, <2>4, FirstSection DEF StoreSection, TypeOK
    <3>3. PageCount' = PageCount /\ Passed(block)'
      BY <2>1, <3>1 DEF PageCount, Passed
    <3> HIDE DEF k, PageCount
    <3>4. /\ current + k \in Nat /\ current + Ends(k) \in Nat /\ current + k < current + Ends(k)
          /\ Ends(k) \in 0 .. Chunk /\ Ends(k) <= PageCount
      BY <2>2, <2>3, <3>2
    <3>5. Of(current + k, current + Ends(k), block.perms) \in Entry
      BY <3>4, RegionEntry
    <3>6. regions' \in Seq(Entry) /\ max' \in Nat \ {0} /\ Len(regions') < max'
      BY <1>0, <2>1, <3>1, <3>5, RoomStep DEF TypeOK
    <3> QED
      BY <1>s, <2>1, <3>1, <3>3, <3>4, <3>6 DEF Shape, TypeOK, Mapped
  <2>5. CASE NextChunk
    <3>1. /\ current' = current + PageCount /\ next' = next /\ i' = 0
          /\ UNCHANGED <<max, regions>>
          /\ IF current' < block.stop THEN at' = "pread" /\ UNCHANGED block ELSE Behind
      BY <2>5 DEF NextChunk
    <3>2. current' \in 0 .. (N + 1) /\ block.start <= current'
      BY <2>1, <2>2, <2>3, <3>1
    <3>3. CASE current' < block.stop
      <4>1. at' = "pread" /\ block' = block
        BY <3>1, <3>3
      <4>2. (PageCount \in Nat)'
        <5>1. block'.stop \in Nat /\ current' \in Nat /\ current' < block'.stop
          BY <2>2, <3>2, <3>3, <4>1
        <5>2. {block'.stop - current', Chunk} \subseteq Nat
          BY <5>1
        <5> QED
          BY <5>2, MinIn DEF PageCount
      <4>3. (i <= PageCount)' /\ Passed(block)'
        BY <2>1, <3>1, <4>1, <4>2 DEF Passed
      <4> QED
        BY <2>1, <3>1, <3>2, <3>3, <4>1, <4>3 DEF Shape, TypeOK, Mapped
    <3>4. CASE ~(current' < block.stop)
      <4>1. block' = next /\ at' \in {"line", "done"}
        BY <3>1, <3>4 DEF Behind
      <4> QED
        BY <1>0, <2>1, <3>1, <3>2, <4>1 DEF Shape, TypeOK, Mapped, GoodLine
    <3> QED
      BY <3>3, <3>4
  <2> QED
    BY <1>9, <2>4, <2>5
<1> QED
  BY <1>2, <1>3, <1>4, <1>5, <1>6, <1>7, <1>8, <1>9 DEF Next, Reader, TargetStep


-----------------------------------------------------------------------------
(* The walk of VirtualQueryEx.                                              *)

\* An answer lies right behind the answers before it, and is true of the pages
\* in it as they are when the line is read.
LEMMA AnswerExact ==
  ASSUME Shape, last <= addr, NextLine # NoLine, Passes(NextLine)
  PROVE  /\ Answer(NextLine) \in Entry /\ Answer(NextLine).base = addr
         /\ \A pg \in Page : Covers(Answer(NextLine), pg) =>
              Answer(NextLine).protection =
                IF pg \in Mapped THEN ProtectionStringToProtection(mem[pg].perms)
                                 ELSE "PAGE_NOACCESS"
<1> USE MapAssumption
<1> DEFINE l == NextLine
<1>0. MemType /\ last \in 0 .. (N + 1) /\ addr \in 0 .. (N + 1)
  BY DEF Shape, TypeOK, MemType
<1>1. /\ GoodLine(l)
      /\ \A pg \in Page : InLine(l, pg) => pg \in Mapped /\ mem[pg].perms = l.perms
      /\ \A pg \in Mapped : last <= pg => l.start <= pg
  BY <1>0, NextLineExact
<1>2. l # NoLine /\ Passes(l)
  OBVIOUS
<1> HIDE DEF l
<1>3. l.start \in Nat /\ l.stop \in Nat /\ addr < l.stop
  BY <1>0, <1>1, <1>2 DEF GoodLine, Line, Passes
<1>4. CASE addr >= l.start
  <2>1. Answer(l) = Of(addr, l.stop, l.perms)
    BY <1>4 DEF Answer
  <2>2. /\ Answer(l) \in Entry /\ Answer(l).base = addr
        /\ Answer(l).base + Answer(l).size = l.stop
        /\ Answer(l).protection = ProtectionStringToProtection(l.perms)
    BY <1>0, <1>3, <2>1, RegionEntry
  <2>3. \A pg \in Page : Covers(Answer(l), pg) => InLine(l, pg)
    BY <1>0, <1>3, <1>4, <2>2 DEF Covers, InLine, Page
  <2> QED
    BY <1>1, <2>2, <2>3 DEF l
<1>5. CASE ~(addr >= l.start)
  <2>1. Answer(l) = Region(addr, l.start, 0, "PAGE_NOACCESS") /\ addr < l.start
    BY <1>0, <1>3, <1>5 DEF Answer
  <2>2. /\ Answer(l) \in Entry /\ Answer(l).base = addr
        /\ Answer(l).size = l.start - addr
        /\ Answer(l).protection = "PAGE_NOACCESS"
    BY <1>0, <1>3, <2>1, RegionEntry
  <2>3. ASSUME NEW pg \in Page, Covers(Answer(l), pg)
        PROVE  pg \notin Mapped
    <3>1. addr <= pg /\ pg < l.start
      BY <1>0, <1>3, <2>2, <2>3 DEF Covers, Page
    <3> QED
      BY <1>0, <1>1, <1>3, <3>1 DEF Page
  <2> QED
    BY <2>2, <2>3 DEF l
<1> QED
  BY <1>4, <1>5

\* Every step keeps the walk exact.
LEMMA WalkStep ==
  ASSUME Shape, WalkInv, [Next]_vars
  PROVE  WalkInv'
<1> USE MapAssumption
<1> DEFINE True(pg, k) == regions[k].protection =
             IF pg \in Mapped THEN ProtectionStringToProtection(mem[pg].perms)
                              ELSE "PAGE_NOACCESS"
<1>0. /\ MemType /\ last \in 0 .. (N + 1) /\ addr \in 0 .. (N + 1) /\ regions \in Seq(Entry)
      /\ changed \subseteq Page /\ (~alive => Mapped = {})
  BY DEF Shape, TypeOK, MemType
<1>1. CASE UNCHANGED vars
  BY <1>1 DEF vars, target, WalkInv, Covering, Mapped
<1>2. CASE TargetStep
  <2>1. Moves
    BY <1>0, <1>2, TargetMoves
  <2>2. \A pg \in Page : Covering(pg)' = Covering(pg)
    BY <2>1 DEF Moves, Covering
  <2>3. \A pg \in Page \ changed' : pg \notin changed /\ mem'[pg] = mem[pg]
    BY <2>1 DEF Moves
  <2>4. \A pg \in Page \ changed' : pg \in Mapped' <=> pg \in Mapped
    BY <2>3 DEF Mapped
  <2>5. UNCHANGED <<op, at, last, addr, regions>> /\ at # "done"
    BY <2>1 DEF Moves
  <2> QED
    BY <2>2, <2>3, <2>4, <2>5 DEF WalkInv
<1>3. CASE StartWalk
  <2>1. op' = "walk" /\ at' = "line" /\ last' = 0 /\ addr' = 0 /\ regions' = <<>>
    BY <1>3 DEF StartWalk
  <2>2. \A pg \in Page : Covering(pg)' = {} /\ ~(pg < addr')
    BY <2>1 DEF Covering, Page
  <2> QED
    BY <2>1, <2>2 DEF WalkInv
<1>4. CASE (\E f \in Flags : StartFull(f)) \/ ReadRecord \/ Pread \/ StoreSection \/ NextChunk
  <2>1. op' = "full"
    BY <1>4 DEF StartFull, ReadRecord, Pread, StoreSection, NextChunk
  <2> QED
    BY <2>1 DEF WalkInv
<1>5. CASE QueryLine
  <2>1. /\ op = "walk" /\ at = "line" /\ UNCHANGED <<mem, changed, op>>
    BY <1>5 DEF QueryLine, target
  <2>2. /\ last <= addr
        /\ \A pg \in Page : IF pg < addr THEN \E k \in 1 .. Len(regions) : Covering(pg) = {k}
                                         ELSE Covering(pg) = {}
        /\ \A pg \in Page \ changed : \A k \in Covering(pg) : True(pg, k)
    BY <2>1 DEF WalkInv
  <2>3. Mapped' = Mapped
    BY <2>1 DEF Mapped
  <2>4. CASE UNCHANGED <<addr, regions>>
    <3>1. \A pg \in Page : Covering(pg)' = Covering(pg)
      BY <2>4 DEF Covering
    <3>2. CASE NextLine # NoLine /\ ~Passes(NextLine) /\ last' = NextLine.stop /\ UNCHANGED at
      <4>1. last' <= addr
        BY <1>0, <3>2, NextLineExact DEF Passes, GoodLine, Line
      <4> QED
        BY <2>1, <2>2, <2>3, <2>4, <3>1, <3>2, <4>1 DEF WalkInv
    <3>3. CASE NextLine = NoLine /\ at' = "done" /\ UNCHANGED last
      <4>1. \A pg \in Mapped : pg < addr
        BY <1>0, <2>2, <3>3, NextLineExact DEF Mapped, Page
      <4> QED
        BY <2>1, <2>2, <2>3, <2>4, <3>1, <3>3, <4>1 DEF WalkInv
    <3>4. CASE regions' = Append(regions, Answer(NextLine))
      <4>1. Len(regions') = Len(regions) + 1
        BY <1>0, <3>4
      <4> QED
        BY <1>0, <2>4, <4>1
    <3> QED
      BY <1>5, <3>2, <3>3, <3>4 DEF QueryLine
  <2>5. CASE /\ NextLine # NoLine /\ Passes(NextLine)
             /\ regions' = Append(regions, Answer(NextLine))
             /\ addr' = addr + Answer(NextLine).size /\ last' = 0 /\ UNCHANGED at
    <3> DEFINE r == Answer(NextLine)
    <3>1. /\ r \in Entry /\ r.base = addr
          /\ \A pg \in Page : Covers(r, pg) =>
               r.protection = IF pg \in Mapped THEN ProtectionStringToProtection(mem[pg].perms)
                                               ELSE "PAGE_NOACCESS"
      BY <2>2, <2>5, AnswerExact
    <3>2. regions' = Append(regions, r) /\ addr' = addr + r.size /\ last' = 0 /\ at' = "line"
      BY <2>1, <2>5
    <3> HIDE DEF r
    <3>3. r.size \in Nat /\ addr' \in Nat /\ last' <= addr'
      BY <1>0, <3>1, <3>2 DEF Entry
    <3>4. \A pg \in Page : Covers(r, pg) <=> addr <= pg /\ pg < addr'
      BY <1>0, <3>1, <3>2, <3>3 DEF Covers, Page
    <3>5. ASSUME NEW pg \in Page
          PROVE  /\ Covering(pg)' = Covering(pg) \cup (IF Covers(r, pg) THEN {Len(regions) + 1} ELSE {})
                 /\ \A k \in Covering(pg) : k \in 1 .. Len(regions) /\ regions'[k] = regions[k]
                 /\ regions'[Len(regions) + 1] = r
      BY <1>0, <3>1, <3>2, CoveringAppend
    <3>6. Len(regions') = Len(regions) + 1 /\ Len(regions) \in Nat
      BY <1>0, <3>1, <3>2
    <3>7. ASSUME NEW pg \in Page
          PROVE  IF pg < addr' THEN \E k \in 1 .. Len(regions') : Covering(pg)' = {k}
                               ELSE Covering(pg)' = {}
      <4>1. CASE pg < addr
        <5>1. PICK k \in 1 .. Len(regions) : Covering(pg) = {k}
          BY <2>2, <4>1
        <5>2. ~Covers(r, pg) /\ pg < addr'
          BY <1>0, <3>2, <3>3, <3>4, <4>1 DEF Page
        <5>3. Covering(pg)' = {k} /\ k \in 1 .. Len(regions')
          BY <3>5, <3>6, <5>1, <5>2
        <5> QED
          BY <5>2, <5>3
      <4>2. CASE ~(pg < addr)
        <5>1. Covering(pg) = {} /\ addr <= pg
          BY <1>0, <2>2, <4>2 DEF Page
        <5>2. Len(regions) + 1 \in 1 .. Len(regions')
          BY <3>6
        <5> QED
          BY <3>4, <3>5, <5>1, <5>2
      <4> QED
        BY <4>1, <4>2
    <3>8. ASSUME NEW pg \in Page \ changed', NEW k \in Covering(pg)'
          PROVE  regions'[k].protection = IF pg \in Mapped'
                                          THEN ProtectionStringToProtection(mem'[pg].perms)
                                          ELSE "PAGE_NOACCESS"
      <4>1. CASE k \in Covering(pg)
        BY <2>1, <2>2, <2>3, <3>5, <4>1
      <4>2. CASE k \notin Covering(pg)
        <5>1. Covers(r, pg) /\ regions'[k] = r
          BY <3>5, <3>8, <4>2
        <5> QED
          BY <2>1, <2>3, <3>1, <5>1
      <4> QED
        BY <4>1, <4>2
    <3> QED
      BY <2>1, <3>2, <3>3, <3>7, <3>8 DEF WalkInv
  <2> QED
    BY <1>5, <2>4, <2>5 DEF QueryLine
<1> QED
  BY <1>1, <1>2, <1>3, <1>4, <1>5 DEF Next, Reader, TargetStep


-----------------------------------------------------------------------------
(* The list of VirtualQueryExFull.                                          *)

ListRight == \A pg \in Page \ changed : \A k \in Covering(pg) : Right(regions[k], pg)
Ordered ==
  \A k \in 1 .. (Len(regions) - 1) : regions[k].base + regions[k].size <= regions[k + 1].base
EndBy(f) == \A k \in 1 .. Len(regions) : regions[k].base + regions[k].size <= f

\* An entry that is right about its pages, and lies behind the others, keeps the
\* list right and in order.
LEMMA ListAppend ==
  ASSUME regions \in Seq(Entry), NEW r \in Entry, regions' = Append(regions, r),
         UNCHANGED <<mem, changed, flags>>, ListRight,
         \A pg \in Page \ changed : Covers(r, pg) => Right(r, pg)
  PROVE  /\ ListRight'
         /\ \A pg \in Page : Handled(pg) \/ Covers(r, pg) => Handled(pg)'
         /\ Ordered /\ EndBy(r.base) => Ordered' /\ EndBy(r.base + r.size)'
<1>1. ASSUME NEW pg \in Page
      PROVE  /\ Covering(pg)' = Covering(pg) \cup (IF Covers(r, pg) THEN {Len(regions) + 1} ELSE {})
             /\ \A k \in Covering(pg) : k \in 1 .. Len(regions) /\ regions'[k] = regions[k]
             /\ regions'[Len(regions) + 1] = r
  BY CoveringAppend
<1>2. \A pg : (Wanted(pg)' <=> Wanted(pg)) /\ (Allowed(pg)' <=> Allowed(pg))
  BY Unmoved
<1>3. \A e, pg : Right(e, pg) => /\ Allowed(pg)'
                                 /\ e.type = ProtectionStringToType(mem'[pg].perms)
                                 /\ e.protection = ProtectionStringToProtection(mem'[pg].perms)
  BY <1>2 DEF Right
<1>4. ASSUME NEW pg \in Page \ changed', NEW k \in Covering(pg)'
      PROVE  Right(regions[k], pg)'
  <2>1. CASE k \in Covering(pg)
    <3>1. regions'[k] = regions[k] /\ Right(regions[k], pg)
      BY <1>1, <1>4, <2>1 DEF ListRight
    <3> QED
      BY <1>3, <3>1 DEF Right
  <2>2. CASE k \notin Covering(pg)
    <3>1. regions'[k] = r /\ Covers(r, pg)
      BY <1>1, <1>4, <2>2
    <3>2. Right(r, pg)
      BY <1>4, <3>1
    <3> QED
      BY <1>3, <3>1, <3>2 DEF Right
  <2> QED
    BY <2>1, <2>2
<1>5. \A pg \in Page : Handled(pg) \/ Covers(r, pg) => Handled(pg)'
  BY <1>1, <1>2 DEF Handled
<1>6. ASSUME Ordered, EndBy(r.base)
      PROVE  Ordered' /\ EndBy(r.base + r.size)'
  <2>1. /\ Len(regions') = Len(regions) + 1 /\ Len(regions) \in Nat
        /\ \A k \in 1 .. Len(regions) : regions'[k] = regions[k] /\ regions[k] \in Entry
        /\ regions'[Len(regions) + 1] = r
    OBVIOUS
  <2>2. r.base \in Nat /\ r.size \in Nat
    BY DEF Entry
  <2>3. \A k \in 1 .. Len(regions) : regions[k].base \in Nat /\ regions[k].size \in Nat
    BY <2>1 DEF Entry
  <2>4. ASSUME NEW k \in 1 .. (Len(regions') - 1)
        PROVE  regions'[k].base + regions'[k].size <= regions'[k + 1].base
    <3>1. CASE k = Len(regions)
      BY <1>6, <2>1, <3>1 DEF EndBy
    <3>2. CASE k # Len(regions)
      <4>1. k \in 1 .. (Len(regions) - 1) /\ k \in 1 .. Len(regions) /\ k + 1 \in 1 .. Len(regions)
        BY <2>1, <2>4, <3>2
      <4> QED
        BY <1>6, <2>1, <4>1 DEF Ordered
    <3> QED
      BY <3>1, <3>2
  <2>5. ASSUME NEW k \in 1 .. Len(regions')
        PROVE  regions'[k].base + regions'[k].size <= r.base + r.size
    <3>1. CASE k = Len(regions) + 1
      BY <2>1, <2>2, <3>1
    <3>2. CASE k # Len(regions) + 1
      <4>1. k \in 1 .. Len(regions)
        BY <2>1, <2>5, <3>2
      <4>2. regions[k].base + regions[k].size <= r.base
        BY <1>6, <4>1 DEF EndBy
      <4> QED
        BY <2>1, <2>2, <2>3, <4>1, <4>2
    <3> QED
      BY <3>1, <3>2
  <2> QED
    BY <2>4, <2>5 DEF Ordered, EndBy
<1> QED
  BY <1>4, <1>5, <1>6 DEF ListRight

\* The header that is read behind a block is true, and nothing lies between.
LEMMA NextGap ==
  ASSUME MemType, last \in 0 .. (N + 1), GoodLine(block), last = block.stop, LineTrue(block)
  PROVE  LineTrue(NextLine) /\ GapTrue(block, NextLine)
<1> USE MapAssumption
<1> DEFINE n == NextLine
<1>1. /\ GoodLine(n)
      /\ n = NoLine => \A pg \in Mapped : pg < last
      /\ n # NoLine =>
           /\ last < n.stop
           /\ \A pg \in Page : InLine(n, pg) =>
                /\ pg \in Mapped /\ mem[pg].perms = n.perms
                /\ (pg > Top <=> n.start > Top)
                /\ SurelyDirty(pg) => n.dirty
                /\ n.dirty => MaybeDirty(pg)
           /\ \A pg \in Mapped : last <= pg => n.start <= pg
           /\ ~Same(n.stop, n.start)
  BY NextLineExact
<1> HIDE DEF n
<1>2. /\ n.start \in 0 .. N /\ n.stop \in 0 .. (N + 1)
      /\ block.start \in 0 .. N /\ block.stop \in 0 .. (N + 1)
      /\ n = NoLine => n.stop = 0
      /\ n # NoLine => 1 <= n.start /\ n.start < n.stop
      /\ block # NoLine => 1 <= block.start /\ block.start < block.stop
      /\ block = NoLine => block.stop = 0
  BY <1>1 DEF GoodLine, Line, NoLine
<1>3. LineTrue(n)
  <2>1. CASE n = NoLine
    <3>1. \A pg \in Page : ~InLine(n, pg)
      BY <1>2, <2>1 DEF InLine, Page
    <3> QED
      BY <2>1, <3>1 DEF LineTrue
  <2>2. CASE n # NoLine
    BY <1>1, <2>2 DEF LineTrue
  <2> QED
    BY <2>1, <2>2
<1>4. \A pg \in Page \ changed : block.stop <= pg /\ (n = NoLine \/ pg < n.start) => pg \notin Mapped
  BY <1>1, <1>2 DEF Page
<1>5. ASSUME changed = {}, n # NoLine, ~(block.stop <= n.start)
      PROVE  FALSE
  <2>1. block # NoLine /\ n.start < block.stop
    BY <1>2, <1>5
  <2>2. /\ last \in Page /\ last - 1 \in Page /\ block.start \in Page
        /\ InLine(n, last) /\ InLine(n, last - 1)
        /\ InLine(block, last - 1) /\ InLine(block, block.start)
    BY <1>1, <1>2, <1>5, <2>1 DEF InLine, Page
  <2>3. /\ last \in Mapped /\ mem[last].perms = n.perms /\ mem[last - 1].perms = n.perms
        /\ (last > Top <=> last - 1 > Top)
    BY <1>1, <1>5, <2>2
  <2>4. /\ mem[last - 1].perms = block.perms /\ mem[block.start].perms = block.perms
        /\ (last - 1 > Top <=> block.start > Top)
    BY <1>5, <2>2 DEF LineTrue
  <2>5. ~Same(last, block.start)
    BY <1>5, <2>1 DEF LineTrue
  <2> QED
    BY <2>3, <2>4, <2>5 DEF Same
<1> QED
  BY <1>3, <1>4, <1>5 DEF GapTrue, n

\* When a block is dealt with, the query is at the next one, or done.
LEMMA BehindExact ==
  ASSUME MemType, NEW f \in Nat, f = block.stop, GoodLine(block), GoodLine(next'), Behind, UNCHANGED <<mem, changed>>,
         LineTrue(next'), GapTrue(block, next'), last' = next'.stop,
         ListRight', \A pg \in Page \ changed : pg < block.stop => Handled(pg)',
         changed = {} => Ordered' /\ EndBy(f)',
         regions' \in Seq(Entry)
  PROVE  FullInv'
<1> USE MapAssumption
<1>1. /\ block' = next' /\ at' = (IF next' = NoLine THEN "done" ELSE "line")
      /\ Mapped' = Mapped /\ changed' = changed /\ mem' = mem
  BY DEF Behind, Mapped
<1>2. LineTrue(block)' /\ LineTrue(next)'
  BY <1>1, Unmoved DEF LineTrue
<1>3. /\ block.stop \in Nat /\ next'.start \in Nat
  BY DEF GoodLine, Line
<1>4. ASSUME NEW pg \in Page \ changed, ~(pg < block.stop), next' = NoLine \/ pg < next'.start
      PROVE  Handled(pg)'
  <2>1. pg \notin Mapped'
    BY <1>1, <1>3, <1>4 DEF GapTrue, Page
  <2> QED
    BY <2>1 DEF Handled, Wanted
<1>5. CASE next' = NoLine
  <2>1. at' = "done"
    BY <1>1, <1>5
  <2>2. \A pg \in Page \ changed' : Handled(pg)'
    BY <1>1, <1>4, <1>5
  <2> QED
    BY <1>1, <1>2, <2>1, <2>2 DEF FullInv, ListRight, Ordered
<1>6. CASE next' # NoLine
  <2>1. at' = "line" /\ Frontier' = next'.start
    BY <1>1, <1>6 DEF Frontier
  <2>2. \A pg \in Page \ changed' : pg < Frontier' => Handled(pg)'
    BY <1>1, <1>4, <1>6, <2>1
  <2>3. ASSUME changed' = {}
        PROVE  EndBy(Frontier)'
    <3>1. block.stop <= next'.start /\ EndBy(f)'
      BY <1>1, <1>6, <2>3 DEF GapTrue
    <3>2. \A k \in 1 .. Len(regions') : regions'[k].base \in Nat /\ regions'[k].size \in Nat
      <4> TAKE k \in 1 .. Len(regions')
      <4>1. regions'[k] \in Entry
        OBVIOUS
      <4> QED
        BY <4>1 DEF Entry
    <3>3. \A k \in 1 .. Len(regions') : regions'[k].base + regions'[k].size <= f
      BY <3>1 DEF EndBy
    <3> QED
      BY <1>3, <2>1, <3>1, <3>2, <3>3 DEF EndBy
  <2> QED
    BY <1>1, <1>2, <2>1, <2>2, <2>3 DEF FullInv, ListRight, Ordered, EndBy
<1> QED
  BY <1>5, <1>6


\* A page of the target that has not changed is as the lines and the list say.
LEMMA FullTarget ==
  ASSUME Shape, FullInv, TargetStep
  PROVE  FullInv'
<1>1. Moves
  BY TargetMoves DEF Shape, TypeOK, MemType
<1>2. /\ \A pg \in Page \ changed' : pg \notin changed /\ mem'[pg] = mem[pg]
      /\ at # "done"
      /\ UNCHANGED <<op, at, last, flags, block, next, current, entries, i, regions>>
  BY <1>1 DEF Moves
<1>3. \A pg \in Page \ changed' : pg \in Mapped' <=> pg \in Mapped
  BY <1>2 DEF Mapped
<1>4. changed' = {} => changed = {} /\ \A pg \in Page : mem'[pg] = mem[pg] /\ (pg \in Mapped' <=> pg \in Mapped)
  <2>1. changed \subseteq Page
    BY DEF Shape, TypeOK
  <2> QED
    BY <1>2, <1>3, <2>1
<1>5. Mapped \subseteq Page /\ Mapped' \subseteq Page
  BY DEF Mapped
<1>d. ASSUME NEW pg \in Page \ changed'
      PROVE  (SurelyDirty(pg)' => SurelyDirty(pg)) /\ (MaybeDirty(pg) => MaybeDirty(pg)')
  <2>1. \A q \in Page : Span(pg, q) \subseteq Page
    BY MapAssumption DEF Span, Page
  <2>2. \A x \in Page \ changed' : Same(x, pg)' <=> Same(x, pg)
    BY <1>2, <1>3, <1>d DEF Same
  <2>3. SurelyDirty(pg)' => SurelyDirty(pg)
    <3> SUFFICES ASSUME SurelyDirty(pg)'
                 PROVE  SurelyDirty(pg)
      OBVIOUS
    <3>1. PICK q \in Page : (\A x \in Span(pg, q) : x \notin changed' /\ Same(x, pg)') /\ mem'[q].dirty
      BY DEF SurelyDirty
    <3>2. q \in Span(pg, q)
      BY MapAssumption DEF Span, Page
    <3> QED
      BY <1>2, <2>1, <2>2, <3>1, <3>2 DEF SurelyDirty
  <2>4. MaybeDirty(pg) => MaybeDirty(pg)'
    <3> SUFFICES ASSUME MaybeDirty(pg)
                 PROVE  MaybeDirty(pg)'
      OBVIOUS
    <3>1. PICK q \in Page : /\ \A x \in Span(pg, q) : x \in changed \/ Same(x, pg)
                            /\ q \in changed \/ mem[q].dirty
      BY DEF MaybeDirty
    <3>2. \A x \in Span(pg, q) : x \in changed' \/ Same(x, pg)'
      BY <1>2, <2>1, <2>2, <3>1
    <3>3. q \in changed' \/ mem'[q].dirty
      BY <1>2, <3>1
    <3> QED
      BY <3>2, <3>3 DEF MaybeDirty
  <2> QED
    BY <2>3, <2>4
<1>6. ASSUME NEW l, GoodLine(l), LineTrue(l)
      PROVE  /\ \A pg \in Page \ changed' : InLine(l, pg) =>
                  /\ pg \in Mapped' /\ mem'[pg].perms = l.perms
                  /\ (pg > Top <=> l.start > Top)
                  /\ SurelyDirty(pg)' => l.dirty
                  /\ l.dirty => MaybeDirty(pg)'
             /\ changed' = {} /\ l # NoLine => ~(/\ l.stop \in Mapped'
                                                /\ mem'[l.stop].perms = mem'[l.start].perms
                                                /\ (l.stop > Top <=> l.start > Top))
  <2>1. \A pg \in Page \ changed' : InLine(l, pg) =>
          /\ pg \in Mapped' /\ mem'[pg].perms = l.perms
          /\ (pg > Top <=> l.start > Top)
          /\ SurelyDirty(pg)' => l.dirty
          /\ l.dirty => MaybeDirty(pg)'
    BY <1>2, <1>3, <1>6, <1>d DEF LineTrue
  <2>2. ASSUME changed' = {}, l # NoLine, l.stop \in Mapped',
               mem'[l.stop].perms = mem'[l.start].perms, l.stop > Top <=> l.start > Top
        PROVE  FALSE
    <3>1. l.start \in Page
      BY <1>6, <2>2, MapAssumption DEF GoodLine, Line, Page
    <3>2. Same(l.stop, l.start)
      BY <1>4, <1>5, <2>2, <3>1 DEF Same
    <3> QED
      BY <1>4, <1>6, <2>2, <3>2 DEF LineTrue
  <2> QED
    BY <2>1, <2>2
<1> SUFFICES ASSUME op = "full"
             PROVE  FullInv'
  BY <1>2 DEF FullInv
<1>7. LineTrue(block)' /\ LineTrue(next)'
  <2>1. GoodLine(block) /\ GoodLine(next) /\ LineTrue(block) /\ LineTrue(next)
    BY DEF Shape, FullInv
  <2> QED
    BY <1>2, <1>6, <2>1 DEF LineTrue, InLine, Same
<1>8. at \in {"pread", "runs"} => GapTrue(block, next)'
  BY <1>2, <1>3, <1>4 DEF FullInv, GapTrue
<1>9. PageCount' = PageCount /\ Frontier' = Frontier
  BY <1>2 DEF PageCount, Frontier
<1>10. at = "runs" => \A k \in 0 .. (PageCount - 1) :
         current + k \notin changed' /\ current + k <= Top => entries[k] = mem'[current + k].present
  <2> SUFFICES ASSUME at = "runs", NEW k \in 0 .. (PageCount - 1), current + k \notin changed',
                      current + k <= Top
               PROVE  entries[k] = mem'[current + k].present
    OBVIOUS
  <2>1. current + k \in Page
    <3>1. /\ current \in Nat /\ block.start >= 1 /\ block.start <= current /\ current < block.stop
          /\ block.start \in Nat /\ block.stop \in 0 .. (N + 1)
      BY DEF Shape, TypeOK, GoodLine, Line
    <3>2. PageCount \in Nat /\ current + PageCount <= block.stop
      BY <3>1, ChunkSize
    <3> QED
      BY <3>1, <3>2, MapAssumption DEF Page
  <2> QED
    BY <1>2, <2>1 DEF FullInv
<1>11. ASSUME NEW pg \in Page \ changed'
       PROVE  /\ Covering(pg)' = Covering(pg) /\ (Handled(pg) => Handled(pg)')
              /\ \A k : Right(regions[k], pg) => Right(regions[k], pg)'
  <2>1. Covering(pg)' = Covering(pg)
    BY <1>2 DEF Covering
  <2>2. (Wanted(pg)' => Wanted(pg)) /\ (Allowed(pg) => Allowed(pg)')
    BY <1>2, <1>3, <1>d, <1>11 DEF Wanted, Allowed
  <2>3. Handled(pg) => Handled(pg)'
    BY <2>1, <2>2 DEF Handled
  <2>4. \A k : Right(regions[k], pg) => Right(regions[k], pg)'
    BY <1>2, <1>11, <2>2 DEF Right
  <2> QED
    BY <2>1, <2>3, <2>4
<1>12. \A pg \in Page \ changed' :
         /\ \A k \in Covering(pg)' : Right(regions[k], pg)'
         /\ at' = "done" \/ pg < Frontier' => Handled(pg)'
  BY <1>2, <1>9, <1>11 DEF FullInv
<1>13. changed' = {} =>
         /\ \A k \in 1 .. (Len(regions') - 1) :
              regions'[k].base + regions'[k].size <= regions'[k + 1].base
         /\ at' # "done" => \A k \in 1 .. Len(regions') :
              regions'[k].base + regions'[k].size <= Frontier'
  BY <1>2, <1>4, <1>9 DEF FullInv
<1>14. /\ at' = "line" => block' = next' /\ last' = block'.stop
       /\ at' \in {"pread", "runs"} => last' = next'.stop
  BY <1>2 DEF FullInv
<1> QED
  BY <1>2, <1>7, <1>8, <1>9, <1>10, <1>12, <1>13, <1>14 DEF FullInv

\* The block that a header completes is filtered out, listed or looked at page
\* by page.
LEMMA FullRead ==
  ASSUME Shape, Shape', FullInv, ReadRecord
  PROVE  FullInv'
<1> USE MapAssumption
<1>1. /\ op = "full" /\ at = "line" /\ next' = NextLine /\ last' = next'.stop /\ i' = 0
      /\ UNCHANGED <<mem, changed, op, flags, entries>>
  BY DEF ReadRecord, target
<1>2. /\ MemType /\ last \in 0 .. (N + 1) /\ GoodLine(block) /\ GoodLine(next')
      /\ regions \in Seq(Entry) /\ regions' \in Seq(Entry)
  BY DEF Shape, TypeOK, MemType
<1>3. /\ LineTrue(block) /\ last = block.stop /\ ListRight
      /\ \A pg \in Page \ changed : pg < block.start => Handled(pg)
      /\ changed = {} => Ordered /\ EndBy(block.start)
  BY <1>1 DEF FullInv, ListRight, Ordered, EndBy, Frontier
<1>4. LineTrue(next') /\ GapTrue(block, next')
  BY <1>1, <1>2, <1>3, NextGap
<1>5. /\ block.start \in Nat /\ block.stop \in Nat /\ block.start <= block.stop
      /\ block # NoLine => block.start < block.stop
  BY <1>2 DEF GoodLine, Line, NoLine
<1>6. \A pg : (Wanted(pg)' <=> Wanted(pg)) /\ (Allowed(pg)' <=> Allowed(pg))
  BY <1>1, Unmoved
<1>7. ASSUME NEW pg \in Page \ changed, InLine(block, pg)
      PROVE  /\ pg \in Mapped /\ mem[pg].perms = block.perms
             /\ (block.dirty => MaybeDirty(pg))
             /\ block # NoLine
             /\ ~Passed(block) => Handled(pg)
  <2>1. /\ pg \in Mapped /\ mem[pg].perms = block.perms
        /\ (SurelyDirty(pg) => block.dirty) /\ (block.dirty => MaybeDirty(pg))
    BY <1>3, <1>7 DEF LineTrue
  <2>2. block # NoLine
    BY <1>7 DEF InLine, NoLine, Page
  <2>3. ~Passed(block) => Handled(pg)
    BY <2>1, <2>2 DEF Passed, Handled, Wanted, ProtectionStringToType
  <2> QED
    BY <2>1, <2>2, <2>3
<1>8. \A pg \in Page : pg < block.stop => pg < block.start \/ InLine(block, pg)
  BY <1>5 DEF InLine, Page
<1>9. CASE ~Passed(block) /\ Behind /\ UNCHANGED <<current, max, regions>>
  <2>1. \A pg \in Page : Handled(pg) => Handled(pg)'
    BY <1>1, <1>6, <1>9 DEF Handled, Covering
  <2>2. ListRight'
    BY <1>1, <1>3, <1>6, <1>9 DEF ListRight, Covering, Right
  <2>3. \A pg \in Page \ changed : pg < block.stop => Handled(pg)'
    BY <1>3, <1>7, <1>8, <1>9, <2>1
  <2>4. changed = {} => Ordered' /\ \A k \in 1 .. Len(regions') :
                          regions'[k].base + regions'[k].size <= block.stop
    <3> SUFFICES ASSUME changed = {}
                 PROVE  Ordered' /\ \A k \in 1 .. Len(regions') :
                          regions'[k].base + regions'[k].size <= block.stop
      OBVIOUS
    <3>1. Ordered'
      BY <1>3, <1>9 DEF Ordered
    <3>2. ASSUME NEW k \in 1 .. Len(regions)
          PROVE  regions[k].base + regions[k].size <= block.stop
      <4>1. regions[k] \in Entry
        BY <1>2
      <4>2. regions[k].base \in Nat /\ regions[k].size \in Nat
        BY <4>1 DEF Entry
      <4>3. regions[k].base + regions[k].size <= block.start
        BY <1>3 DEF EndBy
      <4> QED
        BY <1>5, <4>2, <4>3
    <3> QED
      BY <1>9, <3>1, <3>2
  <2> QED
    BY <1>1, <1>2, <1>4, <1>5, <1>9, <2>2, <2>3, <2>4, BehindExact DEF EndBy
<1>10. CASE /\ Passed(block) /\ "VQE_PAGEDONLY" \notin flags
            /\ AddToRegionList(Of(block.start, block.stop, block.perms))
            /\ Behind /\ UNCHANGED current
  <2> DEFINE r == Of(block.start, block.stop, block.perms)
  <2>1. /\ r \in Entry /\ r.base = block.start /\ r.base + r.size = block.stop
        /\ r.type = ProtectionStringToType(block.perms)
        /\ r.protection = ProtectionStringToProtection(block.perms)
    BY <1>5, <1>10, RegionEntry DEF Passed
  <2>2. regions' = Append(regions, r)
    BY <1>10 DEF AddToRegionList
  <2> HIDE DEF r
  <2>3. \A pg \in Page : Covers(r, pg) <=> InLine(block, pg)
    BY <2>1 DEF Covers, InLine
  <2>4. \A pg \in Page \ changed : Covers(r, pg) => Right(r, pg)
    BY <1>7, <1>10, <2>1, <2>3 DEF Right, Allowed, Passed, ProtectionStringToType
  <2>5. /\ ListRight'
        /\ \A pg \in Page : Handled(pg) \/ Covers(r, pg) => Handled(pg)'
        /\ Ordered /\ EndBy(r.base) => Ordered' /\ \A k \in 1 .. Len(regions') :
                                         regions'[k].base + regions'[k].size <= r.base + r.size
    BY <1>1, <1>2, <1>3, <2>1, <2>2, <2>4, ListAppend DEF EndBy
  <2>6. changed = {} => Ordered' /\ \A k \in 1 .. Len(regions') :
                          regions'[k].base + regions'[k].size <= block.stop
    BY <1>3, <2>1, <2>5
  <2>7. \A pg \in Page \ changed : pg < block.stop => Handled(pg)'
    BY <1>3, <1>8, <2>3, <2>5
  <2> QED
    BY <1>1, <1>2, <1>4, <1>5, <1>10, <2>5, <2>6, <2>7, BehindExact DEF EndBy
<1>11. CASE /\ Passed(block) /\ "VQE_PAGEDONLY" \in flags /\ current' = block.start
            /\ at' = "pread" /\ UNCHANGED <<block, max, regions>>
  <2>1. Frontier' = block.start
    BY <1>1, <1>5, <1>11 DEF Frontier
  <2>2. /\ \A pg \in Page : Handled(pg)' <=> Handled(pg)
        /\ \A pg \in Page : Covering(pg)' = Covering(pg)
        /\ \A pg, k : Right(regions[k], pg)' <=> Right(regions[k], pg)
    BY <1>1, <1>6, <1>11 DEF Handled, Covering, Right
  <2>3. LineTrue(block)' /\ LineTrue(next)' /\ GapTrue(block, next)'
    BY <1>1, <1>3, <1>4, <1>11, Unmoved DEF LineTrue, GapTrue
  <2> QED
    BY <1>1, <1>3, <1>11, <2>1, <2>2, <2>3 DEF FullInv, ListRight, Ordered, EndBy
<1> QED
  BY <1>9, <1>10, <1>11 DEF ReadRecord


\* The pages of a chunk are pages of its block.
LEMMA ChunkInBlock ==
  ASSUME Shape, at \in {"pread", "runs"}
  PROVE  /\ current \in Nat /\ block.start \in Nat /\ block.stop \in Nat /\ i \in Nat
         /\ block.start <= current /\ current < block.stop
         /\ PageCount \in 1 .. Chunk /\ PageCount \in Nat /\ current + PageCount <= block.stop
         /\ i <= PageCount
         /\ \A k \in 0 .. (PageCount - 1) :
              current + k \in Page /\ InLine(block, current + k) /\ k \in 0 .. (Chunk - 1)
<1> USE MapAssumption
<1>1. /\ current \in Nat /\ block.start >= 1 /\ block.start <= current /\ current < block.stop
      /\ block.start \in Nat /\ block.stop \in 0 .. (N + 1) /\ block.stop \in Nat /\ i \in Nat
      /\ i <= PageCount
  BY DEF Shape, TypeOK, GoodLine, Line
<1>2. PageCount \in 1 .. Chunk /\ PageCount \in Nat /\ current + PageCount <= block.stop
  BY <1>1, ChunkSize
<1> HIDE DEF PageCount
<1>3. ASSUME NEW k \in 0 .. (PageCount - 1)
      PROVE  current + k \in Page /\ InLine(block, current + k) /\ k \in 0 .. (Chunk - 1)
  BY <1>1, <1>2 DEF InLine, Page
<1> QED
  BY <1>1, <1>2, <1>3

\* The bits that are read are those of the pages below the task size, also when
\* the read of those gives nothing: then every page of the block has changed.
LEMMA FullPread ==
  ASSUME Shape, FullInv, Pread
  PROVE  FullInv'
<1> USE MapAssumption
<1>1. /\ op = "full" /\ at = "pread" /\ at' = "runs" /\ i' = 0 /\ i = 0
      /\ UNCHANGED <<mem, alive, changed, op, last, flags, block, next, current, regions>>
  BY DEF Pread, target, Shape
<1>2. entries' = [k \in 0 .. (Chunk - 1) |->
                    IF alive /\ k < PageCount /\ current + k <= Top
                    THEN current + k \in Mapped /\ mem[current + k].present
                    ELSE entries[k]]
  BY DEF Pread
<1>3. /\ PageCount \in Nat
      /\ \A k \in 0 .. (PageCount - 1) :
           current + k \in Page /\ InLine(block, current + k) /\ k \in 0 .. (Chunk - 1)
  BY <1>1, ChunkInBlock
<1>4. PageCount' = PageCount /\ Mapped' = Mapped /\ Frontier' = Frontier
  BY <1>1 DEF PageCount, Mapped, Frontier
<1> HIDE DEF PageCount
<1>5. ASSUME NEW k \in 0 .. (PageCount - 1), current + k \notin changed, current + k <= Top
      PROVE  entries'[k] = mem[current + k].present
  <2>1. current + k \in Mapped
    BY <1>1, <1>3, <1>5 DEF FullInv, LineTrue
  <2>2. alive
    BY <2>1 DEF Shape
  <2>3. mem[current + k].present \in BOOLEAN
    <3>1. mem[current + k] \in Contents \cup {Gate}
      BY <1>3, <2>1 DEF Shape, TypeOK, Mapped
    <3>2. Gate.present \in BOOLEAN
      BY DEF Gate
    <3> QED
      BY <3>1, <3>2
  <2>4. entries'[k] = (current + k \in Mapped /\ mem[current + k].present)
    BY <1>2, <1>3, <1>5, <2>2
  <2> QED
    BY <2>1, <2>3, <2>4
<1>6. LineTrue(block)' /\ LineTrue(next)' /\ GapTrue(block, next)'
  BY <1>1, <1>4, Unmoved DEF FullInv, LineTrue, GapTrue
<1>7. /\ \A pg \in Page : (Handled(pg)' <=> Handled(pg)) /\ Covering(pg)' = Covering(pg)
      /\ \A pg, k : Right(regions[k], pg)' <=> Right(regions[k], pg)
  BY <1>1, <1>4, Unmoved DEF Handled, Covering, Right
<1> QED
  BY <1>1, <1>4, <1>5, <1>6, <1>7 DEF FullInv

\* A section lists present pages of the block, and skips none.
LEMMA FullSection ==
  ASSUME Shape, FullInv, StoreSection
  PROVE  FullInv'
<1> USE MapAssumption
<1> DEFINE b == Min(Sections)
           e == Ends(b)
           r == Of(current + b, current + e, block.perms)
<1>1. /\ op = "full" /\ at = "runs" /\ Sections # {} /\ AddToRegionList(r) /\ i' = e
      /\ UNCHANGED <<mem, changed, op, at, last, flags, block, next, current, entries>>
  BY DEF StoreSection, target
<1>2. /\ current \in Nat /\ i \in Nat /\ PageCount \in 1 .. Chunk /\ PageCount \in Nat
      /\ \A k \in 0 .. (PageCount - 1) :
           current + k \in Page /\ InLine(block, current + k) /\ k \in 0 .. (Chunk - 1)
  BY <1>1, ChunkInBlock
<1>3. /\ b \in i .. (PageCount - 1) /\ e \in (b + 1) .. PageCount
      /\ \A j \in b .. (e - 1) : entries[j]
      /\ \A j \in i .. (b - 1) : ~entries[j]
  <2>1. entries \in [0 .. (Chunk - 1) -> BOOLEAN] /\ i \in 0 .. Chunk
    BY DEF Shape, TypeOK
  <2> QED
    BY <1>1, <1>2, <2>1, FirstSection
<1>4. PageCount' = PageCount /\ Mapped' = Mapped
  BY <1>1 DEF PageCount, Mapped
<1> HIDE DEF PageCount, b, e
<1>5. current + b \in Nat /\ current + e \in Nat /\ current + b < current + e /\ b \in Nat /\ e \in Nat
  BY <1>2, <1>3
<1>6. /\ r \in Entry /\ r.base = current + b /\ r.base + r.size = current + e
      /\ r.type = ProtectionStringToType(block.perms)
      /\ r.protection = ProtectionStringToProtection(block.perms)
  BY <1>5, RegionEntry
<1>7. regions' = Append(regions, r) /\ regions \in Seq(Entry)
  BY <1>1 DEF AddToRegionList, Shape
<1> HIDE DEF r
<1>8. /\ LineTrue(block) /\ LineTrue(next) /\ GapTrue(block, next) /\ last = next.stop /\ ListRight
      /\ \A k \in 0 .. (PageCount - 1) :
           current + k \notin changed /\ current + k <= Top => entries[k] = mem[current + k].present
      /\ \A pg \in Page \ changed : pg < current + i => Handled(pg)
      /\ changed = {} => Ordered /\ EndBy(current + i)
  BY <1>1 DEF FullInv, ListRight, Ordered, EndBy, Frontier
<1>9. ASSUME NEW pg \in Page \ changed, Covers(r, pg)
      PROVE  Right(r, pg)
  <2>1. pg - current \in b .. (e - 1) /\ pg - current \in 0 .. (PageCount - 1)
        /\ current + (pg - current) = pg
    BY <1>2, <1>3, <1>5, <1>6, <1>9 DEF Covers, Page, Entry
  <2>2. entries[pg - current] /\ InLine(block, pg)
    BY <1>2, <1>3, <2>1
  <2>3. mem[pg].present \/ pg > Top
    BY <1>8, <1>9, <2>1, <2>2, MapAssumption DEF Page
  <2>4. pg \in Mapped /\ mem[pg].perms = block.perms /\ (block.dirty => MaybeDirty(pg))
    BY <1>8, <1>9, <2>2 DEF LineTrue
  <2>5. Passed(block)
    BY <1>1 DEF Shape
  <2> QED
    BY <1>6, <2>3, <2>4, <2>5 DEF Right, Allowed, Passed, ProtectionStringToType
<1>10. /\ ListRight'
       /\ \A pg \in Page : Handled(pg) \/ Covers(r, pg) => Handled(pg)'
       /\ Ordered /\ EndBy(r.base) => Ordered' /\ \A k \in 1 .. Len(regions') :
                                        regions'[k].base + regions'[k].size <= r.base + r.size
  BY <1>1, <1>6, <1>7, <1>8, <1>9, ListAppend DEF EndBy
<1>11. ASSUME NEW pg \in Page \ changed, pg < current + e
       PROVE  Handled(pg)'
  <2>1. CASE pg < current + i
    BY <1>8, <1>10, <1>11, <2>1
  <2>2. CASE ~(pg < current + i) /\ pg < current + b
    <3>1. pg - current \in i .. (b - 1) /\ pg - current \in 0 .. (PageCount - 1)
          /\ current + (pg - current) = pg
      BY <1>2, <1>3, <1>5, <2>2 DEF Page
    <3>2. ~entries[pg - current]
      BY <1>3, <3>1
    <3>3. ~(mem[pg].present /\ pg <= Top)
      BY <1>8, <1>11, <3>1, <3>2
    <3>4. "VQE_PAGEDONLY" \in flags
      BY <1>1 DEF Shape
    <3>5. Handled(pg)
      BY <3>3, <3>4 DEF Handled, Wanted
    <3> QED
      BY <1>10, <1>11, <3>5
  <2>3. CASE ~(pg < current + b)
    <3>1. Covers(r, pg)
      BY <1>5, <1>6, <1>11, <2>3 DEF Covers, Page, Entry
    <3> QED
      BY <1>10, <1>11, <3>1
  <2> QED
    BY <2>1, <2>2, <2>3
<1>12. ASSUME changed = {}
       PROVE  Ordered' /\ \A k \in 1 .. Len(regions') :
                regions'[k].base + regions'[k].size <= current + e
  <2>1. EndBy(r.base)
    <3> SUFFICES ASSUME NEW k \in 1 .. Len(regions)
                 PROVE  regions[k].base + regions[k].size <= r.base
      BY DEF EndBy
    <3>1. regions[k] \in Entry
      BY <1>7
    <3>2. regions[k].base \in Nat /\ regions[k].size \in Nat
      BY <3>1 DEF Entry
    <3>3. regions[k].base + regions[k].size <= current + i
      BY <1>8, <1>12 DEF EndBy
    <3>4. current + i <= current + b /\ r.base = current + b
      BY <1>2, <1>3, <1>5, <1>6
    <3>5. regions[k].base + regions[k].size <= current + b
      BY <1>2, <1>5, <3>2, <3>3, <3>4
    <3> QED
      BY <3>4, <3>5
  <2> QED
    BY <1>6, <1>8, <1>10, <1>12, <2>1
<1>13. LineTrue(block)' /\ LineTrue(next)' /\ GapTrue(block, next)'
  BY <1>1, <1>4, <1>8, Unmoved DEF LineTrue, GapTrue
<1>14. Frontier' = current + e
  BY <1>1 DEF Frontier
<1> QED
  BY <1>1, <1>4, <1>8, <1>10, <1>11, <1>12, <1>13, <1>14 DEF FullInv, ListRight, Ordered

\* The end of a chunk skips only pages that are not present.
LEMMA FullChunk ==
  ASSUME Shape, Shape', FullInv, NextChunk
  PROVE  FullInv'
<1> USE MapAssumption
<1>1. /\ op = "full" /\ at = "runs" /\ Sections = {} /\ i' = 0
      /\ current' = current + PageCount /\ next' = next
      /\ IF current' < block.stop THEN at' = "pread" /\ UNCHANGED block ELSE Behind
      /\ UNCHANGED <<mem, changed, op, last, flags, entries, regions>>
  BY DEF NextChunk, target
<1>2. /\ current \in Nat /\ i \in Nat /\ PageCount \in Nat /\ PageCount \in 1 .. Chunk
      /\ block.stop \in Nat /\ current + PageCount <= block.stop /\ i <= PageCount
      /\ \A k \in 0 .. (PageCount - 1) :
           current + k \in Page /\ InLine(block, current + k) /\ k \in 0 .. (Chunk - 1)
  BY <1>1, ChunkInBlock
<1>3. \A k \in i .. (PageCount - 1) : ~entries[k]
  BY <1>1 DEF Sections
<1>4. Mapped' = Mapped
  BY <1>1 DEF Mapped
<1> HIDE DEF PageCount
<1>5. /\ LineTrue(block) /\ LineTrue(next) /\ GapTrue(block, next) /\ last = next.stop /\ ListRight
      /\ \A k \in 0 .. (PageCount - 1) :
           current + k \notin changed /\ current + k <= Top => entries[k] = mem[current + k].present
      /\ \A pg \in Page \ changed : pg < current + i => Handled(pg)
      /\ changed = {} => Ordered /\ EndBy(current + i)
  BY <1>1 DEF FullInv, ListRight, Ordered, EndBy, Frontier
<1>6. ASSUME NEW pg \in Page
      PROVE  /\ (Handled(pg)' <=> Handled(pg)) /\ Covering(pg)' = Covering(pg)
             /\ \A k : Right(regions[k], pg)' <=> Right(regions[k], pg)
  BY <1>1, <1>4, Unmoved DEF Handled, Covering, Right
<1>7. ASSUME NEW pg \in Page \ changed, pg < current + PageCount
      PROVE  Handled(pg)'
  <2>1. CASE pg < current + i
    BY <1>5, <1>6, <1>7, <2>1
  <2>2. CASE ~(pg < current + i)
    <3>1. pg - current \in i .. (PageCount - 1) /\ pg - current \in 0 .. (PageCount - 1)
          /\ current + (pg - current) = pg
      BY <1>2, <1>7, <2>2 DEF Page
    <3>2. ~(mem[pg].present /\ pg <= Top)
      BY <1>3, <1>5, <1>7, <3>1
    <3>3. "VQE_PAGEDONLY" \in flags
      BY <1>1 DEF Shape
    <3>4. Handled(pg)
      BY <3>2, <3>3 DEF Handled, Wanted
    <3> QED
      BY <1>6, <1>7, <3>4
  <2> QED
    BY <2>1, <2>2
<1>8. ListRight' /\ (changed = {} => Ordered')
  BY <1>1, <1>5, <1>6 DEF ListRight, Ordered
<1>9. ASSUME changed = {}, NEW k \in 1 .. Len(regions')
      PROVE  regions'[k].base + regions'[k].size <= current + PageCount
  <2>1. regions[k] \in Entry /\ regions' = regions
    BY <1>1, <1>9 DEF Shape
  <2>2. regions[k].base \in Nat /\ regions[k].size \in Nat
    BY <2>1 DEF Entry
  <2>3. regions[k].base + regions[k].size <= current + i
    BY <1>5, <1>9, <2>1 DEF EndBy
  <2> QED
    BY <1>2, <2>1, <2>2, <2>3
<1>10. CASE current' < block.stop
  <2>1. at' = "pread" /\ block' = block
    BY <1>1, <1>10
  <2>2. Frontier' = current + PageCount
    BY <1>1, <1>2, <2>1 DEF Frontier
  <2>3. LineTrue(block)' /\ LineTrue(next)' /\ GapTrue(block, next)'
    BY <1>1, <1>4, <1>5, <2>1, Unmoved DEF LineTrue, GapTrue
  <2> QED
    BY <1>1, <1>5, <1>7, <1>8, <1>9, <2>1, <2>2, <2>3 DEF FullInv, ListRight, Ordered
<1>11. CASE ~(current' < block.stop)
  <2>1. Behind /\ current + PageCount = block.stop
    BY <1>1, <1>2, <1>11
  <2>2. /\ MemType /\ GoodLine(block) /\ GoodLine(next') /\ regions' \in Seq(Entry)
        /\ LineTrue(next') /\ GapTrue(block, next') /\ last' = next'.stop
    BY <1>1, <1>5 DEF Shape, TypeOK, MemType
  <2>3. changed = {} => Ordered' /\ \A k \in 1 .. Len(regions') :
                          regions'[k].base + regions'[k].size <= block.stop
    BY <1>8, <1>9, <2>1
  <2>4. \A pg \in Page \ changed : pg < block.stop => Handled(pg)'
    BY <1>7, <2>1
  <2> QED
    BY <1>1, <1>2, <1>8, <2>1, <2>2, <2>3, <2>4, BehindExact DEF EndBy
<1> QED
  BY <1>10, <1>11

\* Every step keeps the list exact.
LEMMA FullStep ==
  ASSUME Shape, FullInv, [Next]_vars
  PROVE  FullInv'
<1>1. Shape'
  BY ShapeStep
<1>2. CASE UNCHANGED vars
  <2>1. UNCHANGED <<mem, changed, op, at, last, flags, block, next, current, entries, i, regions>>
    BY <1>2 DEF vars, target, full
  <2>2. Mapped' = Mapped /\ PageCount' = PageCount /\ Frontier' = Frontier
    BY <2>1 DEF Mapped, PageCount, Frontier
  <2>3. /\ LineTrue(block)' <=> LineTrue(block)
        /\ LineTrue(next)' <=> LineTrue(next)
        /\ GapTrue(block, next)' <=> GapTrue(block, next)
    BY <2>1, <2>2, Unmoved DEF LineTrue, GapTrue
  <2>4. ASSUME NEW pg \in Page
        PROVE  /\ (Handled(pg)' <=> Handled(pg)) /\ Covering(pg)' = Covering(pg)
               /\ \A k : Right(regions[k], pg)' <=> Right(regions[k], pg)
    BY <2>1, <2>2, Unmoved DEF Handled, Covering, Right
  <2> QED
    BY <2>1, <2>2, <2>3, <2>4 DEF FullInv
<1>3. CASE StartWalk \/ QueryLine
  <2>1. op' = "walk"
    BY <1>3 DEF StartWalk, QueryLine
  <2> QED
    BY <2>1 DEF FullInv
<1>4. ASSUME NEW f \in Flags, StartFull(f)
      PROVE  FullInv'
  <2>1. /\ at' = "line" /\ last' = 0 /\ changed' = {} /\ regions' = <<>>
        /\ block' = NoLine /\ next' = NoLine
    BY <1>4 DEF StartFull
  <2>2. NoLine.start = 0 /\ NoLine.stop = 0
    BY DEF NoLine
  <2>3. \A pg \in Page : ~InLine(NoLine, pg) /\ ~(pg < 0)
    BY <2>2 DEF InLine, Page
  <2>4. LineTrue(block)' /\ LineTrue(next)'
    BY <2>1, <2>3 DEF LineTrue
  <2>5. \A pg \in Page : Covering(pg)' = {} /\ ~(pg < Frontier')
    BY <2>1, <2>2, <2>3 DEF Covering, Frontier
  <2> QED
    BY <2>1, <2>2, <2>4, <2>5 DEF FullInv
<1> QED
  BY <1>1, <1>2, <1>3, <1>4, FullTarget, FullRead, FullPread, FullSection, FullChunk
     DEF Next, Reader, TargetStep

-----------------------------------------------------------------------------
(* The theorems.                                                            *)

\* The invariant holds when the server starts.
LEMMA InitIInv == Init => IInv
<1> USE MapAssumption
<1> SUFFICES ASSUME Init
             PROVE  IInv
  OBVIOUS
<1>1. GoodLine(NoLine) /\ NoLine \in Line
  BY DEF GoodLine, Line, NoLine
<1>2. TypeOK
  BY <1>1 DEF Init, TypeOK
<1> QED
  BY <1>1, <1>2 DEF Init, IInv, Shape, WalkInv, FullInv

\* The invariant is inductive.
LEMMA Invariant == Spec => []IInv
<1>1. IInv /\ [Next]_vars => IInv'
  BY ShapeStep, WalkStep, FullStep DEF IInv
<1> QED
  BY InitIInv, <1>1, PTL DEF Spec

\* The types: every region that is reported has pages, also in a map that changes
\* between two lines, and the list of VirtualQueryExFull, which doubles when it is
\* full, always has room for the entry that is written next.
THEOREM TypeCorrect == Spec => []TypeOK
<1>1. IInv => TypeOK
  BY DEF IInv, Shape
<1> QED
  BY <1>1, Invariant, PTL

\* A client that walks with VirtualQueryEx meets every page that does not change
\* exactly once, with its true protection, for any map, any number of queries and
\* any changes between two of their lines.
THEOREM WalkIsExact == Spec => []WalkExact
<1>1. IInv => WalkExact
  <2> SUFFICES ASSUME IInv, op = "walk", NEW pg \in Page \ changed
               PROVE  /\ pg < addr =>
                           /\ Cardinality(Covering(pg)) = 1
                           /\ \A k \in Covering(pg) :
                                regions[k].protection =
                                  IF pg \in Mapped
                                  THEN ProtectionStringToProtection(mem[pg].perms)
                                  ELSE "PAGE_NOACCESS"
                      /\ at = "done" /\ pg \in Mapped => pg < addr
    BY DEF WalkExact
  <2>1. pg < addr => \E k : Covering(pg) = {k}
    BY DEF IInv, WalkInv
  <2>2. pg < addr => Cardinality(Covering(pg)) = 1
    BY <2>1, FS_Singleton
  <2> QED
    BY <2>2 DEF IInv, WalkInv
<1> QED
  BY <1>1, Invariant, PTL

\* VirtualQueryExFull lists, of the pages that do not change, those that pass the
\* filters, VQE_DIRTYONLY for the mapping as a whole, and no others, with their true
\* type and protection, although the header, the dirty flag and the bits of pagemap
\* are read at different times and the block is looked at in chunks.  With
\* VQE_PAGEDONLY it says nothing of pages above the task size, whose bits the
\* kernel does not give.  Without changes the list is in order.
THEOREM ListIsExact == Spec => []FullExact
<1>1. IInv => FullExact
  BY DEF IInv, FullInv, FullExact, Right, Handled
<1> QED
  BY <1>1, Invariant, PTL
=============================================================================
