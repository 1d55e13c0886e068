--------------------------- MODULE MemblockProofs ---------------------------
(***************************************************************************)
(* Theorems about the boot-time memory map, for an address space of any    *)
(* size, arrays of any length and any sequence of calls.                   *)
(***************************************************************************)
EXTENDS MemblockStepProofs, FiniteSetTheorems

(* Zenon, which needs no translation of the context, goes first.           *)
USE ZenonT(1), SMTT(30), ZenonT(20)

-----------------------------------------------------------------------------
(* The integers from b up to e add e - b elements to a set without them.   *)
LEMMA CardinalityFacts == Sizes
  <1> USE MemblockAssumption
  <1> DEFINE All == 0 .. PHYS_ADDR_MAX - 1
  <1>1. IsFiniteSet(All)
    BY FS_Interval
  <1> HIDE DEF All
  <1>2. \A S \in SUBSET All : IsFiniteSet(S) /\ Cardinality(S) \in Nat
    BY <1>1, FS_Subset, FS_CardinalityType
  <1>3. Cardinality({}) = 0
    BY FS_EmptySet
  <1>4. ASSUME NEW S \in SUBSET All, NEW b \in 0 .. PHYS_ADDR_MAX, NEW e \in 0 .. PHYS_ADDR_MAX,
               b < e, S \cap (b .. e - 1) = {}
        PROVE  Cardinality(S \cup (b .. e - 1)) = Cardinality(S) + (e - b)
    <2> DEFINE I == b .. e - 1
    <2>1. e - 1 \in Int /\ b \in Int /\ b <= e - 1 /\ (e - 1) - b + 1 = e - b
      BY <1>4
    <2>2. IsFiniteSet(I) /\ Cardinality(I) = e - b
      BY <2>1, FS_Interval
    <2>3. S \cap I = {}
      BY <1>4
    <2> HIDE DEF I
    <2>4. Cardinality(S \cup I) = Cardinality(S) + Cardinality(I) - Cardinality(S \cap I)
      BY <1>2, <2>2, FS_Union
    <2>5. Cardinality(S \cap I) = 0 /\ Cardinality(S) \in Nat /\ e - b \in Int
      BY <1>2, <1>3, <2>1, <2>3
    <2> QED BY <2>2, <2>4, <2>5 DEF I
  <1> QED BY <1>2, <1>3, <1>4 DEF Sizes, All

(***************************************************************************)
(* The invariant holds in every reachable state.                           *)
(***************************************************************************)
LEMMA InitInv ==
  ASSUME Sizes, MemblockInit
  PROVE  MInv
  <1> USE MemblockAssumption
  <1> DEFINE E == [cnt |-> 1, total_size |-> 0, regions |-> [i \in Slots |-> Region(0, 0)]]
  <1>1. /\ memblock = [t \in Types |-> E] /\ step = "idle"
        /\ asked = [t \in Types |-> {}]
    BY DEF MemblockInit
  <1>2. E \in Array
    <2>1. Region(0, 0) \in Entry
      BY DEF Region, Entry, Address
    <2>2. [i \in Slots |-> Region(0, 0)] \in [Slots -> Entry]
      BY <2>1
    <2>3. 1 \in 1 .. MAX_REGIONS /\ 0 \in Nat
      OBVIOUS
    <2> QED BY <2>2, <2>3 DEF Array
  <1>3. E.cnt = 1 /\ E.total_size = 0 /\ E.regions[0].base = 0 /\ E.regions[0].size = 0
    BY DEF Slots, Region
  <1> HIDE DEF E
  <1>4. Used(E) = {0} /\ start(E, 0) = 0 /\ stop(E, 0) = 0
    BY <1>3 DEF Used, start, stop
  <1>5. \A x \in 0 .. PHYS_ADDR_MAX - 1 : ~In(E, x)
    BY <1>4 DEF In
  <1>6. Sound(E) /\ Dummy(E) /\ Merged(E, E.cnt)
    <2>1. Held(E) = {}
      BY <1>5 DEF Held
    <2>2. Total(E)
      BY <1>3, <2>1 DEF Total, Sizes
    <2>3. Apart(E) /\ Bounded(E) /\ Merged(E, E.cnt)
      BY <1>4 DEF Apart, Bounded, Merged
    <2> QED BY <1>2, <1>3, <2>2, <2>3 DEF Sound, Dummy
  <1>7. TypeInv
    <2>1. memblock \in [Types -> Array] /\ asked \in [Types -> SUBSET Entry]
      BY <1>1, <1>2
    <2>2. adding \in Adding
      <3>1. 0 \in Address /\ 0 \in Nat /\ "memory" \in Types
        BY DEF Address, Types
      <3> QED BY <3>1 DEF MemblockInit, Adding
    <2>3. finding \in Finding
      BY DEF MemblockInit, Finding
    <2>4. counted \in Counts
      <3>1. Seen(0, 0) \in [base : Address, nr_new : Nat]
        BY DEF Seen, Address
      <3>2. [k \in 0 .. MAX_REGIONS |-> Seen(0, 0)]
              \in [0 .. MAX_REGIONS -> [base : Address, nr_new : Nat]]
        BY <3>1
      <3>3. 0 \in Nat
        OBVIOUS
      <3> QED BY <3>2, <3>3, Zenon DEF MemblockInit, Counts
    <2> QED BY <1>1, <2>1, <2>2, <2>3, <2>4 DEF TypeInv
  <1>8. \A t \in Types : memblock[t] = E
    BY <1>1
  <1>9. \A t \in Types : SoundArray(memblock[t]) /\ Exact(memblock[t], asked[t])
    BY <1>1, <1>5, <1>6, <1>8 DEF SoundArray, Exact, Holds, Covered
  <1> QED BY <1>1, <1>7, <1>9 DEF MInv

(***************************************************************************)
(* At every step of every sequence of calls the arrays are sound, hold     *)
(* what was asked for when no call is adding to them, and the second pass  *)
(* of memblock_add_range repeats the first.                                *)
(***************************************************************************)
THEOREM MapInvariant == MemblockSpec => []MInv
  BY CardinalityFacts, InitInv, NextInv, PTL DEF MemblockSpec

(* The addresses of the entries, and the ones asked for, as sets.          *)
LEMMA AddressSets ==
  ASSUME MInv, NEW t \in Types
  PROVE  /\ Addresses(t) = Held(memblock[t])
         /\ Asked(t) = {x \in 0 .. PHYS_ADDR_MAX - 1 : Covered(asked[t], x)}
  <1> USE MemblockAssumption
  <1> DEFINE A == memblock[t]
  <1>1. A \in Array /\ Bounded(A)
    BY DEF MInv, SoundArray, Sound
  <1>2. ASSUME NEW i \in Used(A)
        PROVE  A.regions[i].base \in Nat /\ A.regions[i].size \in Nat
               /\ stop(A, i) <= PHYS_ADDR_MAX
    BY <1>1, Entries DEF Bounded
  <1>3. Addresses(t) = UNION {Span(A.regions[i].base, A.regions[i].size) : i \in Used(A)}
    BY DEF Addresses, Used
  <1> HIDE DEF A
  <1>4. ASSUME NEW i \in Used(A), NEW x
        PROVE  x \in Span(A.regions[i].base, A.regions[i].size) <=>
                 x \in 0 .. PHYS_ADDR_MAX - 1 /\ start(A, i) <= x /\ x < stop(A, i)
    BY <1>2 DEF Span, start, stop
  <1>5. Addresses(t) = Held(A)
    BY <1>3, <1>4 DEF Held, In
  <1>6. asked[t] \in SUBSET Entry
    BY DEF MInv, TypeInv
  <1>7. ASSUME NEW r \in asked[t], NEW x \in 0 .. PHYS_ADDR_MAX - 1
        PROVE  x \in Span(r.base, r.size) <=> r.base <= x /\ x < r.base + r.size
    <2>1. r.base \in Nat /\ r.size \in Nat
      BY <1>6 DEF Entry, Address
    <2> QED BY <2>1 DEF Span
  <1>8. Asked(t) = {x \in 0 .. PHYS_ADDR_MAX - 1 : Covered(asked[t], x)}
    <2>1. \A x \in 0 .. PHYS_ADDR_MAX - 1 :
            (\E r \in asked[t] : x \in Span(r.base, r.size)) <=> Covered(asked[t], x)
      BY <1>7 DEF Covered
    <2>2. \A x : x \in Asked(t) <=> /\ \E r \in asked[t] : x \in Span(r.base, r.size)
                                   /\ x \in 0 .. PHYS_ADDR_MAX - 1
      BY DEF Asked
    <2> QED BY <2>1, <2>2
  <1> QED BY <1>5, <1>8 DEF A

(***************************************************************************)
(* memblock_add_range and memblock_merge_regions keep the map: whatever    *)
(* ranges come in whatever order, each array holds exactly the addresses   *)
(* it was given in disjoint, sorted and merged regions, total_size counts  *)
(* them, and no BUG_ON but the one on a full array is reached.             *)
(***************************************************************************)
THEOREM MapExact == MemblockSpec => []MemoryMap
  <1>1. ASSUME MInv PROVE MemoryMap
    <2> SUFFICES ASSUME step \in {"idle", "find", "panic"}, NEW t \in Types
                 PROVE  /\ memblock[t].cnt \in 1 .. MAX_REGIONS
                        /\ Minimal(t)
                        /\ Addresses(t) = Asked(t)
                        /\ memblock[t].total_size = Cardinality(Addresses(t))
      BY <1>1 DEF MInv, MemoryMap
    <2> DEFINE A == memblock[t]
    <2>1. A \in Array /\ Total(A) /\ Exact(A, asked[t])
      BY <1>1 DEF MInv, SoundArray, Sound, Quiet
    <2>2. A.cnt \in 1 .. MAX_REGIONS
      BY <2>1, Entries
    <2>3. Addresses(t) = Held(A) /\ Asked(t) = {x \in 0 .. PHYS_ADDR_MAX - 1 : Covered(asked[t], x)}
      BY <1>1, AddressSets
    <2>4. Held(A) = {x \in 0 .. PHYS_ADDR_MAX - 1 : Covered(asked[t], x)}
      BY <2>1 DEF Held, Exact, Holds
    <2>5. Minimal(t)
      <3> SUFFICES ASSUME NEW i \in 0 .. A.cnt - 2 PROVE stop(A, i) < start(A, i + 1)
        BY DEF Minimal, RegionEnd, start, stop
      <3>1. i \in Used(A) /\ i + 1 \in Used(A) /\ i < i + 1 /\ i < A.cnt
        BY <2>2, MemblockAssumption DEF Used
      <3> QED BY <2>1, <3>1 DEF Exact, Merged
    <2> QED BY <2>1, <2>2, <2>3, <2>4, <2>5 DEF Total
  <1> QED BY <1>1, MapInvariant, PTL

(* Place and Feasible say the same.                                        *)
LEMMA PlaceFeasible ==
  ASSUME MInv, NEW a \in Address
  PROVE  Place(a) <=> Feasible(a)
  <1> USE MemblockAssumption
  <1> DEFINE M == memblock["memory"]
             R == memblock["reserved"]
  <1>1. Addresses("memory") = Held(M) /\ Addresses("reserved") = Held(R)
    BY AddressSets DEF Types
  <1>2. M \in Array /\ Bounded(M)
    BY DEF MInv, SoundArray, Sound, Types
  <1>3. ASSUME NEW x \in Nat, In(M, x) PROVE x \in 0 .. PHYS_ADDR_MAX - 1
    <2>1. PICK i \in Used(M) : start(M, i) <= x /\ x < stop(M, i)
      BY <1>3 DEF In
    <2>2. stop(M, i) <= PHYS_ADDR_MAX /\ stop(M, i) \in Nat
      BY <1>2, Entries DEF Bounded
    <2> QED BY <2>1, <2>2
  <1>4. \A x \in Nat : x \in Held(M) \ Held(R) <=> In(M, x) /\ ~In(R, x)
    BY <1>3 DEF Held
  <1>5. finding.size \in Nat
    BY DEF MInv, TypeInv, Finding
  <1>6. \A x \in a .. a + finding.size - 1 : x \in Nat
    BY <1>5 DEF Address
  <1> QED BY <1>1, <1>4, <1>6 DEF Place, Feasible, Span

(***************************************************************************)
(* memblock_alloc returns the highest aligned place that is in memory and  *)
(* not reserved, and panics only when there is none but address 0.         *)
(***************************************************************************)
THEOREM AllocatesHighest == MemblockSpec => AllocHighest
  <1> USE MemblockAssumption
  <1>1. ASSUME MInv, [MemblockNext]_mvars, step = "find", step' # "find"
        PROVE  IF step' = "panic"
               THEN \A a \in 1 .. PHYS_ADDR_MAX : ~Place(a)
               ELSE /\ Place(finding'.found)
                    /\ \A a \in finding'.found + 1 .. PHYS_ADDR_MAX : ~Place(a)
    <2>1. FoundRange \/ NotFound
      BY <1>1 DEF MemblockNext, MemblockStep, mvars, memblock_add, memblock_reserve,
            memblock_alloc, PassBelow, PassCovered, PassPiece, CountRest, InsertRest, MergeApart,
            MergeNext, MergeDone, NextMemory, NextGap, NextRange
    <2>2. \A a \in Address : Place(a) => Feasible(a)
      BY <1>1, PlaceFeasible
    <2>3. CASE FoundRange
      <3>1. AtRange /\ Fits /\ finding' = [finding EXCEPT !.found = cand]
        BY <2>3 DEF FoundRange
      <3>2. cand \in Address /\ Feasible(cand)
        BY <1>1, <3>1, CandFeasible
      <3>3. finding'.found = cand
        BY <1>1, <3>1 DEF MInv, TypeInv, Finding
      <3>4. \A a \in Address : Place(a) => a <= cand
        BY <1>1, <2>2, BelowCand
      <3>5. Place(cand)
        BY <1>1, <3>2, PlaceFeasible
      <3>6. \A a \in cand + 1 .. PHYS_ADDR_MAX : a \in Address /\ ~(a <= cand)
        BY <3>2 DEF Address
      <3>7. CASE cand = 0
        <4>1. \A a \in 1 .. PHYS_ADDR_MAX : a \in cand + 1 .. PHYS_ADDR_MAX
          BY <3>7
        <4> QED BY <3>3, <3>4, <3>5, <3>6, <4>1
      <3>8. CASE cand # 0
        <4>1. step' # "panic"
          BY <2>3, <3>8 DEF FoundRange, memblock_add_range
        <4> QED BY <3>3, <3>4, <3>5, <3>6, <4>1
      <3> QED BY <3>7, <3>8
    <2>4. CASE NotFound
      <3>1. finding.idx_a < 0 /\ step' = "panic"
        BY <2>4 DEF NotFound
      <3>2. \A a \in Address : ~Feasible(a)
        BY <1>1, <3>1 DEF MInv, FindInv, Address, TypeInv, Finding
      <3>3. \A a \in 1 .. PHYS_ADDR_MAX : a \in Address
        BY DEF Address
      <3> QED BY <2>2, <3>1, <3>2, <3>3
    <2> QED BY <2>1, <2>3, <2>4
  <1>2. ASSUME MInv, [MemblockNext]_mvars
        PROVE  [step = "find" /\ step' # "find" =>
                  IF step' = "panic"
                  THEN \A a \in 1 .. PHYS_ADDR_MAX : ~Place(a)
                  ELSE /\ Place(finding'.found)
                       /\ \A a \in finding'.found + 1 .. PHYS_ADDR_MAX : ~Place(a)]_mvars
    BY <1>1, <1>2
  <1> QED BY <1>2, MapInvariant, PTL DEF MemblockSpec, AllocHighest
=============================================================================
