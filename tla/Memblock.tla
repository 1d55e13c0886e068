------------------------------ MODULE Memblock ------------------------------
(***************************************************************************)
(* The boot-time memory map (kernel/memblock.c): two arrays of regions,    *)
(* the memory there is and the memory that is taken, each kept sorted, and *)
(* an allocator that looks for the highest free range.                     *)
(*                                                                         *)
(* A call of memblock_add, memblock_reserve or memblock_alloc is a step,   *)
(* and so is every iteration of the loops behind it: memblock_add_range    *)
(* goes over the array twice and then merges, memblock_alloc goes down the *)
(* free ranges.  Nothing else runs meanwhile.                              *)
(***************************************************************************)
EXTENDS Integers, FiniteSets

CONSTANTS
    PHYS_ADDR_MAX,    \* the largest physical address
    MAX_REGIONS,      \* INIT_MEMBLOCK_REGIONS
    SMP_CACHE_BYTES   \* the alignment used when none is asked for

ASSUME MemblockAssumption ==
    /\ PHYS_ADDR_MAX \in Nat
    /\ MAX_REGIONS \in Nat \ {0}
    /\ SMP_CACHE_BYTES \in Nat \ {0}

VARIABLES
    memblock,   \* the two arrays, each with its cnt and total_size
    step,       \* where the code is: "idle" between calls, "pass" or "merge" in
                \* memblock_add_range, "find" in memblock_alloc; "full", "BUG" and
                \* "panic" are where the machine stops
    adding,     \* the locals of memblock_add_range and memblock_merge_regions
    finding,    \* the locals of memblock_alloc and of the functions it calls
    asked,      \* history: the ranges given to memblock_add and memblock_reserve
    counted     \* history: base and nr_new as the first pass met each index

mvars == <<memblock, step, adding, finding, asked, counted>>

Types == {"memory", "reserved"}

Slots == 0 .. MAX_REGIONS - 1

Region(base, size) == [base |-> base, size |-> size]

RegionEnd(rgn) == rgn.base + rgn.size

min(x, y) == IF x < y THEN x ELSE y

max(x, y) == IF x > y THEN x ELSE y

Seen(base, nr_new) == [base |-> base, nr_new |-> nr_new]

\* An array starts with one dummy entry of size 0 (cnt is 1).
MemblockInit ==
    /\ memblock = [t \in Types |-> [cnt |-> 1, total_size |-> 0,
                                    regions |-> [i \in Slots |-> Region(0, 0)]]]
    /\ step = "idle"
    /\ adding = [type |-> "memory", obase |-> 0, base |-> 0, end |-> 0, idx |-> 0,
                 nr_new |-> 0, insert |-> FALSE, i |-> 0]
    /\ finding = [size |-> 1, align |-> 1, idx_a |-> 0, idx_b |-> 0, found |-> 0]
    /\ asked = [t \in Types |-> {}]
    /\ counted = [at |-> [k \in 0 .. MAX_REGIONS |-> Seen(0, 0)], stop |-> 0, nr_new |-> 0]

-----------------------------------------------------------------------------
\* memblock_add_range.

memblock_cap_size(base, size) == min(size, PHYS_ADDR_MAX - base)

\* The entries from idx on move up by one.
memblock_insert_region(type, idx, base, size) ==
    [cnt        |-> type.cnt + 1,
     total_size |-> type.total_size + size,
     regions    |-> [k \in Slots |->
                       IF k = idx THEN Region(base, size)
                       ELSE IF k > idx /\ k <= type.cnt THEN type.regions[k - 1]
                       ELSE type.regions[k]]]

\* The call, up to the label repeat.
memblock_add_range(t, base, asked_size) ==
    LET type == memblock[t]
        size == memblock_cap_size(base, asked_size)
    IN  /\ asked' = [asked EXCEPT ![t] = @ \cup {Region(base, asked_size)}]
        /\ \/ /\ size = 0
              /\ step' = "idle"
              /\ UNCHANGED <<memblock, adding, counted>>
           \/ /\ size # 0
              /\ type.regions[0].size = 0
              /\ IF type.cnt # 1 \/ type.total_size # 0
                 THEN step' = "BUG" /\ UNCHANGED memblock
                 ELSE /\ memblock' = [memblock EXCEPT
                                       ![t].regions = [@ EXCEPT ![0] = Region(base, size)],
                                       ![t].total_size = size]
                      /\ step' = "idle"
              /\ UNCHANGED <<adding, counted>>
           \/ /\ size # 0
              /\ type.regions[0].size # 0
              /\ adding' = [type |-> t, obase |-> base, base |-> base, end |-> base + size,
                            idx |-> 0, nr_new |-> 0, insert |-> FALSE, i |-> 0]
              /\ counted' = [counted EXCEPT !.at = [@ EXCEPT ![0] = Seen(base, 0)]]
              /\ step' = "pass"
              /\ UNCHANGED memblock

memblock_add(base, size) ==
    /\ step = "idle"
    /\ memblock_add_range("memory", base, size)
    /\ UNCHANGED finding

memblock_reserve(base, size) ==
    /\ step = "idle"
    /\ memblock_add_range("reserved", base, size)
    /\ UNCHANGED finding

\* The array that is added to, the entry the loop looks at, and whether the
\* loop goes on with it.
Target == memblock[adding.type]

rgn == Target.regions[adding.idx]

InLoop == adding.idx < Target.cnt /\ rgn.base < adding.end

\* The loop goes on to the next entry; the first pass is recorded.
Advance(idx, base, nr_new) ==
    /\ adding' = [adding EXCEPT !.idx = idx, !.base = base, !.nr_new = nr_new]
    /\ counted' = IF adding.insert THEN counted
                  ELSE [counted EXCEPT !.at = [@ EXCEPT ![idx] = Seen(base, nr_new)]]

\* The entry ends below the new range.
PassBelow ==
    /\ step = "pass"
    /\ InLoop
    /\ RegionEnd(rgn) <= adding.base
    /\ Advance(adding.idx + 1, adding.base, adding.nr_new)
    /\ UNCHANGED <<memblock, step, finding, asked>>

\* The entry overlaps the new range and nothing of the range lies below it.
PassCovered ==
    /\ step = "pass"
    /\ InLoop
    /\ RegionEnd(rgn) > adding.base
    /\ rgn.base <= adding.base
    /\ Advance(adding.idx + 1, min(RegionEnd(rgn), adding.end), adding.nr_new)
    /\ UNCHANGED <<memblock, step, finding, asked>>

\* The entry cuts off a lower part of the new range.
PassPiece ==
    /\ step = "pass"
    /\ InLoop
    /\ RegionEnd(rgn) > adding.base
    /\ rgn.base > adding.base
    /\ IF adding.insert /\ Target.cnt >= MAX_REGIONS
       THEN step' = "BUG" /\ UNCHANGED <<memblock, adding, counted>>
       ELSE /\ memblock' = IF adding.insert
                           THEN [memblock EXCEPT ![adding.type] =
                                   memblock_insert_region(@, adding.idx, adding.base,
                                                          rgn.base - adding.base)]
                           ELSE memblock
            /\ Advance(IF adding.insert THEN adding.idx + 2 ELSE adding.idx + 1,
                       min(RegionEnd(rgn), adding.end), adding.nr_new + 1)
            /\ UNCHANGED step
    /\ UNCHANGED <<finding, asked>>

\* The end of the first pass: the pieces are counted, the array must hold them.
CountRest ==
    LET nr_new == IF adding.base < adding.end THEN adding.nr_new + 1 ELSE adding.nr_new
    IN  /\ step = "pass"
        /\ ~InLoop
        /\ ~adding.insert
        /\ step' = IF nr_new = 0 THEN "idle"
                   ELSE IF Target.cnt + nr_new > MAX_REGIONS THEN "full" ELSE "pass"
        /\ adding' = [adding EXCEPT !.base = adding.obase, !.idx = 0, !.nr_new = 0,
                                    !.insert = TRUE]
        /\ counted' = [counted EXCEPT !.stop = adding.idx, !.nr_new = nr_new]
        /\ UNCHANGED <<memblock, finding, asked>>

\* The end of the second pass: what is left of the range is the last piece.
InsertRest ==
    /\ step = "pass"
    /\ ~InLoop
    /\ adding.insert
    /\ adding' = [adding EXCEPT !.i = 0]
    /\ IF adding.base < adding.end
       THEN IF Target.cnt >= MAX_REGIONS
            THEN step' = "BUG" /\ UNCHANGED memblock
            ELSE /\ memblock' = [memblock EXCEPT ![adding.type] =
                                   memblock_insert_region(@, adding.idx, adding.base,
                                                          adding.end - adding.base)]
                 /\ step' = "merge"
       ELSE /\ step' = IF adding.nr_new = 0 THEN "idle" ELSE "merge"
            /\ UNCHANGED memblock
    /\ UNCHANGED <<finding, asked, counted>>

-----------------------------------------------------------------------------
\* memblock_merge_regions.

this == Target.regions[adding.i]

next == Target.regions[adding.i + 1]

\* Mutant of InMerge: the last two entries are never compared.
InMerge_short == adding.i < Target.cnt - 2

InMerge == adding.i < Target.cnt - 1

MergeApart ==
    /\ step = "merge"
    /\ InMerge
    /\ RegionEnd(this) # next.base
    /\ IF RegionEnd(this) > next.base
       THEN step' = "BUG" /\ UNCHANGED adding
       ELSE adding' = [adding EXCEPT !.i = @ + 1] /\ UNCHANGED step
    /\ UNCHANGED <<memblock, finding, asked, counted>>

\* The entries from i + 2 on move down by one.
merge_next(type, i) ==
    [cnt        |-> type.cnt - 1,
     total_size |-> type.total_size,
     regions    |-> [k \in Slots |->
                       IF k = i THEN Region(type.regions[i].base,
                                            type.regions[i].size + type.regions[i + 1].size)
                       ELSE IF k > i /\ k < type.cnt - 1 THEN type.regions[k + 1]
                       ELSE type.regions[k]]]

MergeNext ==
    /\ step = "merge"
    /\ InMerge
    /\ RegionEnd(this) = next.base
    /\ memblock' = [memblock EXCEPT ![adding.type] = merge_next(@, adding.i)]
    /\ UNCHANGED <<step, adding, finding, asked, counted>>

MergeDone ==
    /\ step = "merge"
    /\ ~InMerge
    /\ step' = "idle"
    /\ UNCHANGED <<memblock, adding, finding, asked, counted>>

-----------------------------------------------------------------------------
(***************************************************************************)
(* memblock_alloc, memblock_find_in_range_node and __next_mem_range_rev.   *)
(* The 64-bit loop variable is the pair of indexes idx_a (an entry of the  *)
(* memory, -1 past the first) and idx_b (the number of reserved entries    *)
(* below the gap looked at, -1 past the last gap).                         *)
(***************************************************************************)
rounddown(x, align) == x - (x % align)

memblock_alloc(size, align) ==
    /\ step = "idle"
    /\ finding' = [size |-> size, align |-> IF align = 0 THEN SMP_CACHE_BYTES ELSE align,
                   idx_a |-> memblock["memory"].cnt - 1, idx_b |-> memblock["reserved"].cnt,
                   found |-> 0]
    /\ step' = "find"
    /\ UNCHANGED <<memblock, adding, asked, counted>>

m_start == memblock["memory"].regions[finding.idx_a].base

m_end == RegionEnd(memblock["memory"].regions[finding.idx_a])

\* Mutant of r_start: from the base of the region below, not from its end.
r_start_at_base == IF finding.idx_b = 0 THEN 0
                   ELSE memblock["reserved"].regions[finding.idx_b - 1].base

\* The gap below entry idx_b of the reserved regions.
r_start == IF finding.idx_b = 0 THEN 0
           ELSE RegionEnd(memblock["reserved"].regions[finding.idx_b - 1])

r_end == IF finding.idx_b < memblock["reserved"].cnt
         THEN memblock["reserved"].regions[finding.idx_b].base ELSE PHYS_ADDR_MAX

\* idx_a and idx_b come to a free range.
AtRange == finding.idx_a >= 0 /\ finding.idx_b >= 0 /\ r_end > m_start /\ m_end > r_start

this_start == max(m_start, r_start)

this_end == min(m_end, r_end)

cand == rounddown(this_end - finding.size, finding.align)

Fits == this_end >= finding.size /\ cand >= this_start

\* The gaps left all lie below this entry of the memory.
NextMemory ==
    /\ step = "find"
    /\ finding.idx_a >= 0
    /\ finding.idx_b >= 0 => r_end <= m_start
    /\ finding' = [finding EXCEPT !.idx_a = @ - 1]
    /\ UNCHANGED <<memblock, step, adding, asked, counted>>

\* The gap lies above this entry of the memory.
NextGap ==
    /\ step = "find"
    /\ finding.idx_a >= 0 /\ finding.idx_b >= 0
    /\ r_end > m_start
    /\ m_end <= r_start
    /\ finding' = [finding EXCEPT !.idx_b = @ - 1]
    /\ UNCHANGED <<memblock, step, adding, asked, counted>>

\* The free range is too small.
NextRange ==
    /\ step = "find"
    /\ AtRange
    /\ ~Fits
    /\ finding' = IF m_start >= r_start THEN [finding EXCEPT !.idx_a = @ - 1]
                                        ELSE [finding EXCEPT !.idx_b = @ - 1]
    /\ UNCHANGED <<memblock, step, adding, asked, counted>>

\* memblock_alloc takes address 0 for failure; memblock_reserve returns 0.
FoundRange ==
    /\ step = "find"
    /\ AtRange
    /\ Fits
    /\ finding' = [finding EXCEPT !.found = cand]
    /\ IF cand = 0
       THEN step' = "panic" /\ UNCHANGED <<memblock, adding, asked, counted>>
       ELSE memblock_add_range("reserved", cand, finding.size)

NotFound ==
    /\ step = "find"
    /\ finding.idx_a < 0
    /\ step' = "panic"
    /\ UNCHANGED <<memblock, adding, finding, asked, counted>>

-----------------------------------------------------------------------------
\* One iteration of a loop.
MemblockStep ==
    \/ PassBelow
    \/ PassCovered
    \/ PassPiece
    \/ CountRest
    \/ InsertRest
    \/ MergeApart
    \/ MergeNext
    \/ MergeDone
    \/ NextMemory
    \/ NextGap
    \/ NextRange
    \/ FoundRange
    \/ NotFound

\* Any range may be added or reserved, any number of bytes asked for.
MemblockNext ==
    \/ \E base, size \in 0 .. PHYS_ADDR_MAX :
         memblock_add(base, size) \/ memblock_reserve(base, size)
    \/ \E size \in 1 .. PHYS_ADDR_MAX, align \in 0 .. PHYS_ADDR_MAX :
         memblock_alloc(size, align)
    \/ MemblockStep

MemblockSpec == MemblockInit /\ [][MemblockNext]_mvars

-----------------------------------------------------------------------------
\* Properties.

Span(start, size) == start .. start + size - 1

\* The addresses an array holds.
Addresses(t) ==
    UNION {Span(memblock[t].regions[i].base, memblock[t].regions[i].size) :
             i \in 0 .. memblock[t].cnt - 1}

\* The addresses that were added or reserved, as far as they exist.
Asked(t) ==
    (UNION {Span(r.base, r.size) : r \in asked[t]}) \cap (0 .. PHYS_ADDR_MAX - 1)

\* Every entry lies above the one before it, and does not touch it.
Minimal(t) ==
    \A i \in 0 .. memblock[t].cnt - 2 :
      RegionEnd(memblock[t].regions[i]) < memblock[t].regions[i + 1].base

(***************************************************************************)
(* The map (memblock_add_range, memblock_merge_regions): in whatever order *)
(* and with whatever overlaps the ranges come, each array holds exactly    *)
(* the addresses it was given, in disjoint sorted regions that are merged  *)
(* wherever they touch; total_size is their number; and of the BUG_ONs of  *)
(* memblock.c only the one that finds the array too small before anything  *)
(* is inserted can stop the machine.                                       *)
(***************************************************************************)
MemoryMap ==
    /\ step # "BUG"
    /\ step \in {"idle", "find", "panic"} =>
         \A t \in Types :
           /\ memblock[t].cnt \in 1 .. MAX_REGIONS
           /\ Minimal(t)
           /\ Addresses(t) = Asked(t)
           /\ memblock[t].total_size = Cardinality(Addresses(t))

\* size bytes at address a are aligned, in memory and not reserved.
Place(a) ==
    /\ a % finding.align = 0
    /\ Span(a, finding.size) \subseteq Addresses("memory") \ Addresses("reserved")

(***************************************************************************)
(* The allocator (memblock_alloc, memblock_find_in_range_node,             *)
(* __next_mem_range_rev): it ends with the highest aligned place that is   *)
(* in memory and not reserved, and it panics only when there is none, or   *)
(* none but address 0.                                                     *)
(***************************************************************************)
AllocHighest ==
    [][step = "find" /\ step' # "find" =>
         IF step' = "panic"
         THEN \A a \in 1 .. PHYS_ADDR_MAX : ~Place(a)
         ELSE /\ Place(finding'.found)
              /\ \A a \in finding'.found + 1 .. PHYS_ADDR_MAX : ~Place(a)]_mvars
=============================================================================
