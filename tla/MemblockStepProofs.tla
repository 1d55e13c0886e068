------------------------ MODULE MemblockStepProofs --------------------------
(***************************************************************************)
(* The inductive invariant of the boot-time memory map, and that every     *)
(* step keeps it, for an address space of any size, arrays of any length   *)
(* and any sequence of calls.                                              *)
(***************************************************************************)
EXTENDS Memblock, TLAPS

(* Zenon, which needs no translation of the context, goes first.           *)
USE ZenonT(1), SMTT(30), ZenonT(20)

(***************************************************************************)
(* What the proofs use of Cardinality.  It is a hypothesis of the lemmas   *)
(* about total_size, and MemblockProofs proves it.                         *)
(***************************************************************************)
Sizes ==
  /\ Cardinality({}) = 0
  /\ \A S \in SUBSET (0 .. PHYS_ADDR_MAX - 1) : Cardinality(S) \in Nat
  /\ \A S \in SUBSET (0 .. PHYS_ADDR_MAX - 1), b, e \in 0 .. PHYS_ADDR_MAX :
       b < e /\ S \cap (b .. e - 1) = {} =>
         Cardinality(S \cup (b .. e - 1)) = Cardinality(S) + (e - b)

(***************************************************************************)
(* Arrays.                                                                 *)
(***************************************************************************)
Address == 0 .. PHYS_ADDR_MAX

Entry == [base : Address, size : Address]

Array == [cnt : 1 .. MAX_REGIONS, total_size : Nat, regions : [Slots -> Entry]]

start(A, i) == A.regions[i].base

stop(A, i) == A.regions[i].base + A.regions[i].size

Used(A) == 0 .. A.cnt - 1

\* Address x lies in an entry.
In(A, x) == \E i \in Used(A) : start(A, i) <= x /\ x < stop(A, i)

Held(A) == {x \in 0 .. PHYS_ADDR_MAX - 1 : In(A, x)}

\* The entries are sorted and do not overlap.
Apart(A) == \A i, j \in Used(A) : i < j => stop(A, i) <= start(A, j)

\* The first n entries touch none above them.
Merged(A, n) == \A i, j \in Used(A) : i < j /\ i < n => stop(A, i) < start(A, j)

Bounded(A) == \A i \in Used(A) : stop(A, i) <= PHYS_ADDR_MAX

Filled(A) == \A i \in Used(A) : A.regions[i].size > 0

Dummy(A) == A.cnt = 1 /\ A.regions[0].base = 0 /\ A.regions[0].size = 0

Total(A) == A.total_size = Cardinality(Held(A))

Sound(A) == A \in Array /\ Apart(A) /\ Bounded(A) /\ Total(A)

LEMMA Entries ==
  ASSUME NEW A, A \in Array
  PROVE  /\ A.cnt \in 1 .. MAX_REGIONS /\ A.total_size \in Nat
         /\ A.regions \in [Slots -> Entry]
         /\ \A i \in Used(A) : /\ i \in Slots
                               /\ A.regions[i] \in Entry
                               /\ A.regions[i].base \in Nat /\ A.regions[i].size \in Nat
                               /\ start(A, i) \in Nat /\ stop(A, i) \in Nat
  <1>1. /\ A.cnt \in 1 .. MAX_REGIONS /\ A.total_size \in Nat
        /\ A.regions \in [Slots -> Entry]
    BY DEF Array
  <1> SUFFICES ASSUME NEW i \in Used(A)
               PROVE  /\ i \in Slots
                      /\ A.regions[i] \in Entry
                      /\ A.regions[i].base \in Nat /\ A.regions[i].size \in Nat
                      /\ start(A, i) \in Nat /\ stop(A, i) \in Nat
    BY <1>1
  <1>2. i \in Slots
    BY <1>1, MemblockAssumption DEF Used, Slots
  <1>3. A.regions[i] \in Entry
    BY <1>1, <1>2
  <1> QED BY <1>2, <1>3 DEF start, stop, Entry, Address

(* Two arrays that hold the same addresses hold equally many.              *)
LEMMA SameHeld ==
  ASSUME NEW A, NEW B, \A x \in 0 .. PHYS_ADDR_MAX - 1 : In(A, x) <=> In(B, x)
  PROVE  Held(A) = Held(B)
  BY DEF Held

(* Adding the addresses from b up to e, which A does not hold, adds e - b. *)
LEMMA HeldGrows ==
  ASSUME Sizes, NEW A, NEW B, NEW b \in Address, NEW e \in Address, b < e,
         \A x \in 0 .. PHYS_ADDR_MAX - 1 : In(B, x) <=> In(A, x) \/ (b <= x /\ x < e),
         \A x \in 0 .. PHYS_ADDR_MAX - 1 : b <= x /\ x < e => ~In(A, x)
  PROVE  /\ Cardinality(Held(A)) \in Nat
         /\ Cardinality(Held(B)) = Cardinality(Held(A)) + (e - b)
  <1>1. Held(B) = Held(A) \cup (b .. e - 1) /\ Held(A) \cap (b .. e - 1) = {}
    BY MemblockAssumption DEF Held, Address
  <1>2. Held(A) \in SUBSET (0 .. PHYS_ADDR_MAX - 1)
    BY DEF Held
  <1>3. b \in 0 .. PHYS_ADDR_MAX /\ e \in 0 .. PHYS_ADDR_MAX
    BY DEF Address
  <1> QED BY <1>1, <1>2, <1>3 DEF Sizes

(***************************************************************************)
(* memblock_insert_region puts a region between the entries below it and   *)
(* the entries above it.                                                   *)
(***************************************************************************)
LEMMA Inserted ==
  ASSUME Sizes, NEW A, Sound(A), Filled(A), A.cnt < MAX_REGIONS,
         NEW idx \in 0 .. A.cnt, NEW b \in Address, NEW e \in Address, b < e,
         \A i \in Used(A) : i < idx => stop(A, i) <= b,
         \A i \in Used(A) : i >= idx => e <= start(A, i),
         NEW B, B = memblock_insert_region(A, idx, b, e - b)
  PROVE  /\ Sound(B) /\ Filled(B)
         /\ B.cnt = A.cnt + 1
         /\ \A x \in Nat : In(B, x) <=> In(A, x) \/ (b <= x /\ x < e)
         /\ \A i \in Used(A) : B.regions[IF i < idx THEN i ELSE i + 1] = A.regions[i]
         /\ B.regions[idx] = Region(b, e - b)
  <1> USE MemblockAssumption
  <1> DEFINE up(i) == IF i < idx THEN i ELSE i + 1
  <1>1. /\ A.cnt \in 1 .. MAX_REGIONS /\ A.total_size \in Nat
        /\ A.regions \in [Slots -> Entry]
    BY DEF Sound, Array
  <1>2. /\ B.cnt = A.cnt + 1
        /\ B.total_size = A.total_size + (e - b)
        /\ B.regions = [k \in Slots |->
                          IF k = idx THEN Region(b, e - b)
                          ELSE IF k > idx /\ k <= A.cnt THEN A.regions[k - 1]
                          ELSE A.regions[k]]
    BY DEF memblock_insert_region
  <1>3. Region(b, e - b) \in Entry
    BY DEF Region, Entry, Address
  <1>4. B \in Array
    <2>1. B.regions \in [Slots -> Entry]
      <3> SUFFICES ASSUME NEW k \in Slots PROVE B.regions[k] \in Entry
        BY <1>2
      <3>1. k > idx /\ k <= A.cnt => k - 1 \in Slots
        BY <1>1 DEF Slots
      <3> QED BY <1>1, <1>2, <1>3, <3>1
    <2>2. B.cnt \in 1 .. MAX_REGIONS /\ B.total_size \in Nat
      BY <1>1, <1>2 DEF Address
    <2>3. B = [cnt |-> B.cnt, total_size |-> B.total_size, regions |-> B.regions]
      BY DEF memblock_insert_region
    <2> QED BY <2>1, <2>2, <2>3 DEF Array
  <1>5. /\ B.regions[idx] = Region(b, e - b)
        /\ start(B, idx) = b /\ stop(B, idx) = e
        /\ B.regions[idx].size = e - b
    <2>1. idx \in Slots
      BY <1>1 DEF Slots
    <2>2. B.regions[idx] = Region(b, e - b)
      BY <1>2, <2>1
    <2> QED BY <2>2 DEF Region, start, stop, Address
  <1>6. \A i \in Used(A) : /\ up(i) \in Used(B) /\ up(i) # idx
                           /\ B.regions[up(i)] = A.regions[i]
    <2> SUFFICES ASSUME NEW i \in Used(A)
                 PROVE  /\ up(i) \in Used(B) /\ up(i) # idx
                        /\ B.regions[up(i)] = A.regions[i]
      OBVIOUS
    <2>1. /\ up(i) \in Used(B) /\ up(i) # idx /\ up(i) \in Slots
          /\ i < idx => up(i) = i /\ up(i) < idx
          /\ i >= idx => up(i) > idx /\ up(i) <= A.cnt /\ up(i) - 1 = i
          /\ i < idx \/ i >= idx
      BY <1>1, <1>2 DEF Slots, Used
    <2> HIDE DEF up
    <2>2. CASE i < idx
      BY <1>1, <1>2, <2>1, <2>2 DEF Slots
    <2>3. CASE i >= idx
      BY <1>2, <2>1, <2>3 DEF Slots
    <2> QED BY <2>1, <2>2, <2>3
  <1>7. \A k \in Used(B) : k = idx \/ \E i \in Used(A) : k = up(i)
    <2> SUFFICES ASSUME NEW k \in Used(B), k # idx PROVE \E i \in Used(A) : k = up(i)
      OBVIOUS
    <2>1. CASE k < idx
      BY <1>1, <1>2, <2>1 DEF Used
    <2>2. CASE k > idx
      <3>1. k - 1 \in Used(A) /\ k = up(k - 1)
        BY <1>1, <1>2, <2>2 DEF Used
      <3> QED BY <3>1
    <2> QED BY <2>1, <2>2, <1>1, <1>2 DEF Used
  <1>8. idx \in Used(B)
    BY <1>1, <1>2 DEF Used
  <1>9. \A i \in Used(A) : /\ start(A, i) \in Nat /\ stop(A, i) \in Nat
                           /\ start(B, up(i)) = start(A, i) /\ stop(B, up(i)) = stop(A, i)
    <2>1. \A i \in Used(A) : start(A, i) \in Nat /\ stop(A, i) \in Nat
      BY Entries DEF Sound
    <2> QED BY <1>6, <2>1 DEF start, stop
  <1>10. \A i, j \in Used(A) : up(i) < up(j) => i < j
    BY <1>1 DEF Used
  <1>11. \A i \in Used(A) : (up(i) < idx => i < idx) /\ (idx < up(i) => i >= idx)
    BY <1>1 DEF Used
  <1> HIDE DEF up
  <1>12. Apart(B)
    <2> SUFFICES ASSUME NEW k \in Used(B), NEW l \in Used(B), k < l
                 PROVE  stop(B, k) <= start(B, l)
      BY DEF Apart
    <2>1. CASE k = idx
      <3>1. PICK j \in Used(A) : l = up(j)
        BY <1>7, <2>1 DEF Used
      <3> QED BY <2>1, <3>1, <1>5, <1>9, <1>11
    <2>2. CASE l = idx
      <3>1. PICK i \in Used(A) : k = up(i)
        BY <1>7, <2>2 DEF Used
      <3> QED BY <2>2, <3>1, <1>5, <1>9, <1>11
    <2>3. CASE k # idx /\ l # idx
      <3>1. PICK i \in Used(A) : k = up(i)
        BY <1>7, <2>3
      <3>2. PICK j \in Used(A) : l = up(j)
        BY <1>7, <2>3
      <3> QED BY <3>1, <3>2, <1>9, <1>10 DEF Sound, Apart
    <2> QED BY <2>1, <2>2, <2>3
  <1>13. Bounded(B) /\ Filled(B)
    BY <1>5, <1>6, <1>7, <1>9 DEF Sound, Bounded, Filled, Address
  <1>14. ASSUME NEW x \in Nat
         PROVE  In(B, x) <=> In(A, x) \/ (b <= x /\ x < e)
    <2>1. In(B, x) => In(A, x) \/ (b <= x /\ x < e)
      BY <1>5, <1>7, <1>9 DEF In
    <2>2. In(A, x) => In(B, x)
      BY <1>6, <1>9 DEF In
    <2>3. b <= x /\ x < e => In(B, x)
      BY <1>5, <1>8 DEF In
    <2> QED BY <2>1, <2>2, <2>3
  <1>15. Total(B)
    <2>1. \A x \in 0 .. PHYS_ADDR_MAX - 1 : In(B, x) <=> In(A, x) \/ (b <= x /\ x < e)
      BY <1>14
    <2>2. \A x \in 0 .. PHYS_ADDR_MAX - 1 : b <= x /\ x < e => ~In(A, x)
      BY <1>9 DEF In, Used, Address
    <2>3. Cardinality(Held(B)) = Cardinality(Held(A)) + (e - b)
      BY <2>1, <2>2, HeldGrows
    <2> QED BY <2>3, <1>2 DEF Sound, Total
  <1> QED BY <1>2, <1>4, <1>5, <1>6, <1>12, <1>13, <1>14, <1>15 DEF Sound, up

(***************************************************************************)
(* memblock_merge_regions joins entry i and the next one, which it         *)
(* touches.                                                                *)
(***************************************************************************)
LEMMA MergedNext ==
  ASSUME NEW A, Sound(A), Filled(A), NEW i \in Used(A), i + 1 \in Used(A),
         stop(A, i) = start(A, i + 1),
         NEW B, B = merge_next(A, i)
  PROVE  /\ Sound(B) /\ Filled(B)
         /\ B.cnt = A.cnt - 1
         /\ \A x \in Nat : In(B, x) <=> In(A, x)
         /\ Merged(A, i) => Merged(B, i)
  <1> USE MemblockAssumption
  <1> DEFINE lo(k) == IF k <= i THEN k ELSE k + 1
             hi(k) == IF k < i THEN k ELSE k + 1
  <1>1. /\ A.cnt \in 1 .. MAX_REGIONS /\ A.total_size \in Nat
        /\ A.regions \in [Slots -> Entry]
        /\ \A j \in Used(A) : /\ j \in Slots
                              /\ A.regions[j] \in Entry
                              /\ A.regions[j].base \in Nat /\ A.regions[j].size \in Nat
                              /\ start(A, j) \in Nat /\ stop(A, j) \in Nat
    BY Entries DEF Sound
  <1> DEFINE whole == Region(A.regions[i].base, A.regions[i].size + A.regions[i + 1].size)
  <1>2. /\ B.cnt = A.cnt - 1
        /\ B.total_size = A.total_size
        /\ B.regions = [k \in Slots |->
                          IF k = i THEN whole
                          ELSE IF k > i /\ k < A.cnt - 1 THEN A.regions[k + 1]
                          ELSE A.regions[k]]
    BY DEF merge_next
  <1>3. /\ whole.base = start(A, i)
        /\ whole.base + whole.size = stop(A, i + 1)
        /\ whole.size > 0
        /\ whole \in Entry
    <2>1. /\ A.regions[i].size > 0 /\ stop(A, i + 1) <= PHYS_ADDR_MAX
      BY DEF Sound, Filled, Bounded
    <2> QED BY <1>1, <2>1 DEF Region, Entry, Address, start, stop
  <1> HIDE DEF whole
  <1>4. B \in Array
    <2>1. B.regions \in [Slots -> Entry]
      <3> SUFFICES ASSUME NEW k \in Slots PROVE B.regions[k] \in Entry
        BY <1>2
      <3>1. k > i /\ k < A.cnt - 1 => k + 1 \in Slots
        BY <1>1 DEF Slots, Used
      <3> QED BY <1>1, <1>2, <1>3, <3>1
    <2>2. B.cnt \in 1 .. MAX_REGIONS /\ B.total_size \in Nat
      BY <1>1, <1>2 DEF Used
    <2>3. B = [cnt |-> B.cnt, total_size |-> B.total_size, regions |-> B.regions]
      BY DEF merge_next
    <2> QED BY <2>1, <2>2, <2>3 DEF Array
  <1>5. \A k \in Used(B) : /\ k \in Slots /\ k \in Used(A) /\ k < A.cnt - 1 /\ k + 1 \in Used(A)
                           /\ lo(k) \in Used(A) /\ hi(k) \in Used(A)
                           /\ k # i => lo(k) = hi(k)
    <2>1. A.cnt \in 1 .. MAX_REGIONS /\ B.cnt = A.cnt - 1
      BY <1>1, <1>2
    <2> QED BY <2>1 DEF Used, Slots
  <1>6. ASSUME NEW k \in Used(B)
        PROVE  /\ start(B, k) = start(A, lo(k)) /\ stop(B, k) = stop(A, hi(k))
               /\ B.regions[k].size > 0
    <2>1. CASE k < i
      <3>1. B.regions[k] = A.regions[k]
        BY <1>2, <1>5, <2>1 DEF Used
      <3> QED BY <2>1, <3>1, <1>5 DEF start, stop, Filled, Used
    <2>2. CASE k = i
      <3>1. B.regions[k] = whole
        BY <1>2, <1>5, <2>2
      <3>2. lo(k) = i /\ hi(k) = i + 1
        BY <2>2 DEF Used
      <3> QED BY <1>3, <3>1, <3>2 DEF start, stop
    <2>3. CASE k > i
      <3>1. B.regions[k] = A.regions[k + 1]
        BY <1>2, <1>5, <2>3 DEF Used
      <3> QED BY <2>3, <3>1, <1>5 DEF start, stop, Filled, Used
    <2> QED BY <2>1, <2>2, <2>3, <1>2 DEF Used
  <1>7. \A k, l \in Used(B) : k < l => hi(k) < lo(l)
    BY <1>1, <1>2 DEF Used
  <1>8. \A k \in Used(B) : k < i => hi(k) < i
    BY <1>1, <1>2 DEF Used
  <1>9. lo(i) = i /\ hi(i) = i + 1 /\ i \in Used(B)
    BY <1>1, <1>2 DEF Used
  <1>10. \A j \in Used(A) : \E k \in Used(B) : lo(k) = j \/ hi(k) = j
    <2> SUFFICES ASSUME NEW j \in Used(A) PROVE \E k \in Used(B) : lo(k) = j \/ hi(k) = j
      OBVIOUS
    <2>1. CASE j <= i
      <3>1. j \in Used(B) /\ lo(j) = j
        BY <1>1, <1>2, <2>1 DEF Used
      <3> QED BY <3>1
    <2>2. CASE j > i
      <3>1. j - 1 \in Used(B) /\ hi(j - 1) = j
        BY <1>1, <1>2, <2>2 DEF Used
      <3> QED BY <3>1
    <2> QED BY <2>1, <2>2, <1>1 DEF Used
  <1> HIDE DEF lo, hi
  <1>11. Apart(B)
    BY <1>5, <1>6, <1>7 DEF Apart, Sound
  <1>12. Bounded(B) /\ Filled(B)
    BY <1>5, <1>6 DEF Bounded, Filled, Sound
  <1>13. Merged(A, i) => Merged(B, i)
    BY <1>5, <1>6, <1>7, <1>8 DEF Merged
  <1>14. ASSUME NEW x \in Nat
         PROVE  In(B, x) <=> In(A, x)
    <2>1. ASSUME In(B, x) PROVE In(A, x)
      <3>1. PICK k \in Used(B) : start(A, lo(k)) <= x /\ x < stop(A, hi(k))
        BY <1>6, <2>1 DEF In
      <3>2. CASE k # i
        BY <1>5, <3>1, <3>2 DEF In
      <3>3. CASE k = i
        <4>1. start(A, i) <= x /\ x < stop(A, i + 1)
          BY <3>1, <3>3, <1>9
        <4>2. x < stop(A, i) \/ start(A, i + 1) <= x
          BY <1>1
        <4> QED BY <4>1, <4>2 DEF In
      <3> QED BY <3>2, <3>3
    <2>2. ASSUME In(A, x) PROVE In(B, x)
      <3>1. PICK j \in Used(A) : start(A, j) <= x /\ x < stop(A, j)
        BY <2>2 DEF In
      <3>2. PICK k \in Used(B) : lo(k) = j \/ hi(k) = j
        BY <1>10
      <3>3. CASE k # i
        <4>1. start(B, k) <= x /\ x < stop(B, k)
          BY <1>5, <1>6, <3>1, <3>2, <3>3
        <4> QED BY <4>1 DEF In
      <3>4. CASE k = i
        <4>1. start(A, i) <= stop(A, i) /\ start(A, i + 1) <= stop(A, i + 1)
          BY <1>1 DEF start, stop
        <4>2. start(B, k) <= x /\ x < stop(B, k)
          BY <1>1, <1>6, <1>9, <3>1, <3>2, <3>4, <4>1
        <4> QED BY <4>2 DEF In
      <3> QED BY <3>3, <3>4
    <2> QED BY <2>1, <2>2
  <1>15. Total(B)
    BY <1>2, <1>14, SameHeld DEF Total, Sound
  <1> QED BY <1>2, <1>4, <1>11, <1>12, <1>13, <1>14, <1>15 DEF Sound

-----------------------------------------------------------------------------
(***************************************************************************)
(* The inductive invariant.                                                *)
(***************************************************************************)
Adding == [type : Types, obase : Address, base : Address, end : Address, idx : Nat,
           nr_new : Nat, insert : BOOLEAN, i : Nat]

Finding == [size : Nat \ {0}, align : Nat \ {0}, idx_a : Int, idx_b : Int, found : Nat]

Counts == [at : [0 .. MAX_REGIONS -> [base : Address, nr_new : Nat]], stop : Nat, nr_new : Nat]

TypeInv ==
  /\ memblock \in [Types -> Array]
  /\ step \in {"idle", "pass", "merge", "find", "full", "BUG", "panic"}
  /\ adding \in Adding
  /\ finding \in Finding
  /\ asked \in [Types -> SUBSET Entry]
  /\ counted \in Counts

\* An array is sound at any time, and holds more than the dummy once it
\* holds anything.
SoundArray(A) == Sound(A) /\ (Dummy(A) \/ Filled(A))

\* Address x is in a range of R.
Covered(R, x) == \E r \in R : r.base <= x /\ x < r.base + r.size

Holds(A, R) == \A x \in 0 .. PHYS_ADDR_MAX - 1 : In(A, x) <=> Covered(R, x)

\* The array is merged and holds the ranges R.
Exact(A, R) == Merged(A, A.cnt) /\ Holds(A, R)

\* Nothing is being added to the array.
Quiet(t) == step \in {"idle", "find", "panic"} \/ t # adding.type

\* The entries that the loop has passed lie below what is left of the range
\* that is added; a are the locals of memblock_add_range.
PassRange(A, a) ==
  /\ a.obase <= a.base /\ a.base <= a.end /\ a.obase < a.end
  /\ a.idx <= A.cnt
  /\ \A k \in Used(A) : k < a.idx => stop(A, k) <= a.base \/ a.base = a.end
  /\ Filled(A)
  /\ ~a.insert \/ a.nr_new = 0 => Merged(A, A.cnt)

\* What the array does not hold yet is in what is left of the range, once
\* pieces are inserted, and before a piece was met.
Missing(A, R, a) ==
  \A x \in 0 .. PHYS_ADDR_MAX - 1 :
    /\ In(A, x) => Covered(R, x)
    /\ a.obase <= x /\ x < a.end => Covered(R, x)
    /\ Covered(R, x) /\ ~In(A, x) =>
         /\ a.obase <= x /\ x < a.end
         /\ a.insert \/ a.nr_new = 0 => a.base <= x

\* What an iteration over the entry r does to base and nr_new.
After(s, r, end) ==
  IF RegionEnd(r) <= s.base THEN s
  ELSE Seen(min(RegionEnd(r), end), IF r.base > s.base THEN s.nr_new + 1 ELSE s.nr_new)

\* The iterations of the first pass, as the history h records them.
FirstPass(A, a, h) ==
  /\ h.at[0] = Seen(a.obase, 0)
  /\ h.at[a.idx] = Seen(a.base, a.nr_new)
  /\ \A k \in 0 .. a.idx - 1 :
       start(A, k) < a.end /\ h.at[k + 1] = After(h.at[k], A.regions[k], a.end)
  /\ \A k \in 0 .. a.idx : h.at[k].nr_new <= a.nr_new

\* An array that had cnt entries when the first pass ended has room for all
\* the pieces that it counted.
Planned(h, end, cnt) ==
  LET last == h.at[h.stop]
  IN  /\ h.stop <= cnt /\ cnt + h.nr_new <= MAX_REGIONS
      /\ \A k \in 0 .. h.stop : h.at[k].nr_new <= last.nr_new
      /\ h.nr_new = IF last.base < end THEN last.nr_new + 1 ELSE last.nr_new

\* From entry k on the array is what the first pass saw, nr entries further
\* up.
Ahead(A, end, nr, k0, h) ==
  /\ \A k \in k0 .. h.stop - 1 :
       start(A, k + nr) < end /\ h.at[k + 1] = After(h.at[k], A.regions[k + nr], end)
  /\ h.stop + nr < A.cnt => end <= start(A, h.stop + nr)

\* The second pass goes as the first went: nr_new entries were inserted so
\* far, all below idx.
SecondPass(A, a, h) ==
  LET k0 == a.idx - a.nr_new
  IN  /\ 0 <= k0 /\ k0 <= h.stop
      /\ h.at[k0] = Seen(a.base, a.nr_new)
      /\ Planned(h, a.end, A.cnt - a.nr_new)
      /\ Ahead(A, a.end, a.nr_new, k0, h)

PassInv(A, R, a, h) ==
  /\ PassRange(A, a)
  /\ Missing(A, R, a)
  /\ IF a.insert THEN SecondPass(A, a, h) ELSE FirstPass(A, a, h)

MergeInv(A, R, a) ==
  /\ Filled(A)
  /\ a.i < A.cnt
  /\ Merged(A, a.i)
  /\ Holds(A, R)

\* size bytes at address a are aligned, in memory and not reserved.
Feasible(a) ==
  /\ a % finding.align = 0
  /\ \A x \in a .. a + finding.size - 1 :
       In(memblock["memory"], x) /\ ~In(memblock["reserved"], x)

\* All such places lie below the ranges that were looked at.
FindInv ==
  /\ finding.idx_a \in -1 .. memblock["memory"].cnt - 1
  /\ finding.idx_b \in -1 .. memblock["reserved"].cnt
  /\ \A a \in 0 .. PHYS_ADDR_MAX : Feasible(a) =>
       /\ finding.idx_a >= 0 /\ a + finding.size <= m_end
       /\ finding.idx_b >= 0 /\ a + finding.size <= r_end

MInv ==
  /\ TypeInv
  /\ step # "BUG"
  /\ \A t \in Types : SoundArray(memblock[t])
  /\ \A t \in Types : Quiet(t) => Exact(memblock[t], asked[t])
  /\ step = "pass" => PassInv(Target, asked[adding.type], adding, counted)
  /\ step = "merge" => MergeInv(Target, asked[adding.type], adding)
  /\ step = "find" => FindInv

(* A step that concerns one array: what is left to show of it.             *)
LEMMA OneArray ==
  ASSUME MInv, NEW t0 \in Types, \A t \in Types : t # t0 => Quiet(t),
         memblock' \in [Types -> Array], adding' \in Adding, finding' \in Finding,
         asked' \in [Types -> SUBSET Entry], counted' \in Counts,
         step' \in {"idle", "pass", "merge", "full"},
         \A t \in Types : t # t0 => memblock'[t] = memblock[t] /\ asked'[t] = asked[t],
         SoundArray(memblock'[t0]),
         step' # "idle" => adding'.type = t0,
         step' = "idle" => Exact(memblock'[t0], asked'[t0]),
         step' = "pass" => PassInv(memblock'[t0], asked'[t0], adding', counted'),
         step' = "merge" => MergeInv(memblock'[t0], asked'[t0], adding')
  PROVE  MInv'
  <1>1. TypeInv'
    BY Zenon DEF TypeInv
  <1>2. \A t \in Types : SoundArray(memblock'[t])
    BY DEF MInv
  <1>3. \A t \in Types : Quiet(t)' => Exact(memblock'[t], asked'[t])
    BY DEF MInv, Quiet
  <1>4. step' = "pass" => PassInv(Target', asked'[adding'.type], adding', counted')
    BY DEF Target
  <1>5. step' = "merge" => MergeInv(Target', asked'[adding'.type], adding')
    BY DEF Target
  <1> QED BY <1>1, <1>2, <1>3, <1>4, <1>5 DEF MInv

-----------------------------------------------------------------------------
(***************************************************************************)
(* memblock_alloc.                                                         *)
(***************************************************************************)
(* Multiples of a cannot lie within less than a of each other.             *)
LEMMA Multiples ==
  ASSUME NEW a \in Nat \ {0}, NEW p \in Int, NEW q \in Int, NEW r \in 0 .. a - 1,
         a * p <= a * q + r
  PROVE  a * p <= a * q
  <1>1. CASE p <= q
    <2>1. PICK d \in Nat : q = p + d
      BY <1>1
    <2>2. a * q = a * p + a * d /\ a * d \in Nat /\ a * p \in Int
      BY <2>1
    <2> QED BY <2>2
  <1>2. CASE p > q
    <2>1. PICK d \in Nat : p = q + 1 + d
      <3>1. p - q - 1 \in Nat /\ p = q + 1 + (p - q - 1)
        BY <1>2
      <3> QED BY <3>1
    <2>2. a * p = a * q + a + a * d /\ a * d \in Nat /\ a * q \in Int
      BY <2>1
    <2> QED BY <2>2
  <1> QED BY <1>1, <1>2

(* rounddown gives the largest multiple that is not larger.                *)
LEMMA Rounded ==
  ASSUME NEW x \in Nat, NEW a \in Nat \ {0}
  PROVE  /\ rounddown(x, a) \in Int /\ rounddown(x, a) <= x
         /\ rounddown(x, a) % a = 0
         /\ \A c \in Nat : c % a = 0 /\ c <= x => c <= rounddown(x, a)
  <1> DEFINE r == x % a
  <1>1. r \in 0 .. a - 1
    OBVIOUS
  <1>2. \E q \in Int : x - r = a * q
    OBVIOUS
  <1>3. \A c \in Nat : c % a = 0 => \E p \in Int : c = a * p
    OBVIOUS
  <1>4. \A q \in Int : (a * q) % a = 0
    OBVIOUS
  <1>5. rounddown(x, a) = x - r
    BY DEF rounddown
  <1> HIDE DEF r
  <1>6. ASSUME NEW c \in Nat, c % a = 0, c <= x
        PROVE  c <= x - r
    <2>1. PICK p \in Int : c = a * p
      BY <1>3, <1>6
    <2>2. PICK q \in Int : x - r = a * q
      BY <1>2
    <2>3. a * q \in Int /\ a * p \in Int
      OBVIOUS
    <2>4. a * p <= a * q + r
      BY <1>1, <1>6, <2>1, <2>2, <2>3
    <2>5. a * p <= a * q
      BY <1>1, <2>4, Multiples
    <2> QED BY <2>1, <2>2, <2>5
  <1>7. x - r \in Int /\ x - r <= x
    BY <1>1
  <1> QED BY <1>2, <1>4, <1>5, <1>6, <1>7

(* A range that a merged array holds lies in one entry of it.              *)
LEMMA OneEntry ==
  ASSUME NEW A, Sound(A), Merged(A, A.cnt), NEW a \in Nat, NEW size \in Nat \ {0},
         \A x \in a .. a + size - 1 : In(A, x)
  PROVE  \E i \in Used(A) : start(A, i) <= a /\ a + size <= stop(A, i)
  <1>1. /\ A.cnt \in Nat
        /\ \A i \in Used(A) : /\ start(A, i) \in Nat /\ stop(A, i) \in Nat
                               /\ start(A, i) <= stop(A, i)
    BY Entries, MemblockAssumption DEF Sound, start, stop
  <1>2. a \in a .. a + size - 1
    OBVIOUS
  <1>3. PICK i \in Used(A) : start(A, i) <= a /\ a < stop(A, i)
    BY <1>2 DEF In
  <1>4. ASSUME stop(A, i) < a + size PROVE FALSE
    <2>1. stop(A, i) \in a .. a + size - 1
      BY <1>1, <1>3, <1>4
    <2>2. PICK j \in Used(A) : start(A, j) <= stop(A, i) /\ stop(A, i) < stop(A, j)
      BY <2>1 DEF In
    <2>3. CASE j < i
      <3>1. stop(A, j) <= start(A, i)
        BY <2>3 DEF Sound, Apart
      <3> QED BY <1>1, <2>2, <3>1
    <2>4. CASE j > i
      <3>1. i < j /\ i < A.cnt
        BY <1>1, <2>4 DEF Used
      <3>2. stop(A, i) < start(A, j)
        BY <3>1 DEF Merged
      <3> QED BY <1>1, <2>2, <3>2
    <2>5. CASE j = i
      BY <1>1, <2>2, <2>5
    <2> QED BY <2>3, <2>4, <2>5, <1>1 DEF Used
  <1> QED BY <1>1, <1>3, <1>4

(* A range that holds no address of an entry lies below or above it.       *)
LEMMA BelowOrAbove ==
  ASSUME NEW A, Sound(A), Dummy(A) \/ Filled(A), NEW a \in Nat, NEW size \in Nat \ {0},
         \A x \in a .. a + size - 1 : ~In(A, x), NEW k \in Used(A)
  PROVE  a + size <= start(A, k) \/ stop(A, k) <= a
  <1>1. /\ A.regions[k].base \in Nat /\ A.regions[k].size \in Nat
        /\ start(A, k) \in Nat /\ stop(A, k) \in Nat
    BY Entries DEF Sound
  <1>2. CASE A.regions[k].size > 0
    <2>1. start(A, k) < stop(A, k)
      BY <1>1, <1>2 DEF start, stop
    <2>2. start(A, k) \in a .. a + size - 1 => FALSE
      <3>1. In(A, start(A, k))
        BY <1>1, <2>1 DEF In
      <3> QED BY <3>1
    <2>3. start(A, k) <= a /\ a < stop(A, k) => FALSE
      <3>1. a \in a .. a + size - 1
        OBVIOUS
      <3> QED BY <3>1 DEF In
    <2> QED BY <1>1, <2>1, <2>2, <2>3
  <1>3. CASE A.regions[k].size = 0
    <2>1. Dummy(A)
      BY <1>3 DEF Filled
    <2>2. k = 0
      BY <2>1 DEF Dummy, Used
    <2> QED BY <2>1, <2>2 DEF Dummy, stop
  <1> QED BY <1>1, <1>2, <1>3

(* The state of memblock_alloc, as plain facts.                            *)
LEMMA FindFacts ==
  ASSUME MInv, step \in {"idle", "find"},
         NEW M, M = memblock["memory"], NEW R, R = memblock["reserved"]
  PROVE  /\ Sound(M) /\ Sound(R) /\ (Dummy(R) \/ Filled(R))
         /\ Merged(M, M.cnt)
         /\ M.cnt \in 1 .. MAX_REGIONS /\ R.cnt \in 1 .. MAX_REGIONS
         /\ \A i \in Used(M) : /\ start(M, i) \in Nat /\ stop(M, i) \in Nat
                                /\ start(M, i) <= stop(M, i) /\ stop(M, i) <= PHYS_ADDR_MAX
         /\ \A i \in Used(R) : /\ start(R, i) \in Nat /\ stop(R, i) \in Nat
                                /\ start(R, i) <= stop(R, i) /\ stop(R, i) <= PHYS_ADDR_MAX
         /\ finding.size \in Nat \ {0} /\ finding.align \in Nat \ {0}
  <1>1. Sound(M) /\ Sound(R) /\ (Dummy(R) \/ Filled(R))
    BY DEF MInv, SoundArray, Types
  <1>2. Merged(M, M.cnt)
    BY DEF MInv, Quiet, Exact, Types
  <1>3. finding.size \in Nat \ {0} /\ finding.align \in Nat \ {0}
    BY DEF MInv, TypeInv, Finding
  <1>4. ASSUME NEW A, Sound(A)
        PROVE  /\ A.cnt \in 1 .. MAX_REGIONS
               /\ \A i \in Used(A) : /\ start(A, i) \in Nat /\ stop(A, i) \in Nat
                                      /\ start(A, i) <= stop(A, i) /\ stop(A, i) <= PHYS_ADDR_MAX
    <2>1. A \in Array /\ Bounded(A)
      BY <1>4 DEF Sound
    <2>2. A.cnt \in 1 .. MAX_REGIONS
      BY <2>1, Entries
    <2>3. ASSUME NEW i \in Used(A)
          PROVE  A.regions[i].base \in Nat /\ A.regions[i].size \in Nat
      BY <2>1, Entries
    <2> QED BY <2>1, <2>2, <2>3 DEF start, stop, Bounded
  <1> QED BY <1>1, <1>2, <1>3, <1>4

(***************************************************************************)
(* Where a place can be, with idx_a and idx_b as they stand: in this       *)
(* memory region or in one below it, in this gap or in one below it.       *)
(***************************************************************************)
LEMMA FeasibleFacts ==
  ASSUME MInv, step = "find", NEW a \in Address, Feasible(a),
         NEW M, M = memblock["memory"], NEW R, R = memblock["reserved"]
  PROVE  /\ finding.idx_a \in Used(M) /\ m_start = start(M, finding.idx_a)
         /\ a + finding.size <= m_end /\ m_start \in Nat /\ m_end \in Nat
         /\ \/ m_start <= a
            \/ /\ finding.idx_a - 1 \in Used(M)
               /\ a + finding.size <= stop(M, finding.idx_a - 1)
         /\ finding.idx_b \in 0 .. R.cnt
         /\ a + finding.size <= r_end /\ r_start \in Nat /\ r_end \in Nat
         /\ \/ r_start <= a
            \/ /\ finding.idx_b - 1 \in Used(R)
               /\ a + finding.size <= start(R, finding.idx_b - 1)
  <1> USE MemblockAssumption
  <1> DEFINE size == finding.size
             p == finding.idx_a
             q == finding.idx_b
  <1>1. /\ Sound(M) /\ Sound(R) /\ (Dummy(R) \/ Filled(R))
        /\ Merged(M, M.cnt)
        /\ M.cnt \in 1 .. MAX_REGIONS /\ R.cnt \in 1 .. MAX_REGIONS
        /\ \A i \in Used(M) : /\ start(M, i) \in Nat /\ stop(M, i) \in Nat
                               /\ start(M, i) <= stop(M, i) /\ stop(M, i) <= PHYS_ADDR_MAX
        /\ \A i \in Used(R) : /\ start(R, i) \in Nat /\ stop(R, i) \in Nat
                               /\ start(R, i) <= stop(R, i) /\ stop(R, i) <= PHYS_ADDR_MAX
        /\ size \in Nat \ {0}
    BY FindFacts
  <1>2. /\ p \in -1 .. M.cnt - 1 /\ q \in -1 .. R.cnt
        /\ p >= 0 /\ a + size <= m_end
        /\ q >= 0 /\ a + size <= r_end
    BY DEF MInv, FindInv, Address
  <1>3. p \in Used(M) /\ q \in 0 .. R.cnt
    BY <1>1, <1>2 DEF Used
  <1>4. m_start = start(M, p) /\ m_end = stop(M, p) /\ m_start \in Nat /\ m_end \in Nat
    <2>1. m_start = start(M, p) /\ m_end = stop(M, p)
      BY DEF m_start, m_end, start, stop, RegionEnd
    <2> QED BY <1>1, <1>3, <2>1
  <1>5. r_start = (IF q = 0 THEN 0 ELSE stop(R, q - 1))
        /\ r_end = (IF q < R.cnt THEN start(R, q) ELSE PHYS_ADDR_MAX)
    BY DEF r_start, r_end, start, stop, RegionEnd
  <1>6. r_start \in Nat /\ r_end \in Nat
    <2>1. (q # 0 => q - 1 \in Used(R)) /\ (q < R.cnt => q \in Used(R))
      BY <1>1, <1>3 DEF Used
    <2> QED BY <1>1, <1>5, <2>1
  <1>7. a \in Nat
    BY DEF Address
  <1>8. \A x \in a .. a + size - 1 : In(M, x) /\ ~In(R, x)
    BY DEF Feasible
  <1> HIDE DEF size, p, q
  <1>9. PICK i \in Used(M) : start(M, i) <= a /\ a + size <= stop(M, i)
    BY <1>1, <1>7, <1>8, OneEntry, Zenon
  <1>10. m_start <= a \/ (p - 1 \in Used(M) /\ a + size <= stop(M, p - 1))
    <2>1. CASE i = p
      BY <1>4, <1>9, <2>1
    <2>2. CASE i > p
      <3>1. stop(M, p) <= start(M, i)
        BY <1>1, <1>3, <2>2 DEF Sound, Apart
      <3>2. start(M, i) \in Nat
        BY <1>1
      <3> QED BY <1>1, <1>2, <1>4, <1>7, <1>9, <3>1, <3>2
    <2>3. CASE i < p
      <3>1. p - 1 \in Used(M) /\ (i = p - 1 \/ i < p - 1)
        BY <1>1, <1>3, <2>3 DEF Used
      <3>2. stop(M, i) \in Nat /\ start(M, p - 1) \in Nat /\ stop(M, p - 1) \in Nat
            /\ start(M, p - 1) <= stop(M, p - 1)
        BY <1>1, <3>1
      <3>3. i < p - 1 => stop(M, i) <= start(M, p - 1)
        BY <1>1, <3>1 DEF Sound, Apart
      <3> QED BY <1>1, <1>7, <1>9, <3>1, <3>2, <3>3
    <2> QED BY <1>1, <1>3, <2>1, <2>2, <2>3 DEF Used
  <1>11. r_start <= a \/ (q - 1 \in Used(R) /\ a + size <= start(R, q - 1))
    <2>1. CASE q = 0
      BY <1>5, <1>7, <2>1
    <2>2. CASE q # 0
      <3>1. q - 1 \in Used(R)
        BY <1>1, <1>3, <2>2 DEF Used
      <3>2. a + size <= start(R, q - 1) \/ stop(R, q - 1) <= a
        BY <1>1, <1>7, <1>8, <3>1, BelowOrAbove
      <3> QED BY <1>5, <2>2, <3>1, <3>2
    <2> QED BY <2>1, <2>2
  <1> QED BY <1>2, <1>3, <1>4, <1>6, <1>10, <1>11 DEF size, p, q

(* No place lies above the candidate, and one in this range makes it fit.  *)
LEMMA BelowCand ==
  ASSUME MInv, step = "find", NEW a \in Address, Feasible(a)
  PROVE  a <= cand /\ (this_start <= a => Fits)
  <1> DEFINE size == finding.size
             x == this_end - size
  <1>1. /\ a + size <= m_end /\ m_end \in Nat /\ m_start \in Nat
        /\ a + size <= r_end /\ r_end \in Nat /\ r_start \in Nat
    BY FeasibleFacts
  <1>2. size \in Nat \ {0} /\ finding.align \in Nat \ {0}
    BY FindFacts
  <1>3. a \in Nat /\ a % finding.align = 0
    BY MemblockAssumption DEF Address, Feasible
  <1>4. this_end \in Nat /\ a + size <= this_end /\ this_start \in Nat
    BY <1>1, <1>2, <1>3 DEF this_end, this_start, min, max
  <1>5. x \in Nat /\ a <= x /\ this_end >= size
    BY <1>2, <1>3, <1>4
  <1>6. cand = rounddown(x, finding.align)
    BY DEF cand
  <1> HIDE DEF x
  <1>7. cand \in Int /\ a <= cand
    BY <1>2, <1>3, <1>5, <1>6, Rounded
  <1> QED BY <1>3, <1>4, <1>5, <1>7 DEF Fits

(* A candidate that fits is a place.                                       *)
LEMMA CandFeasible ==
  ASSUME MInv, step = "find", AtRange, Fits
  PROVE  cand \in Address /\ finding.size \in Address /\ Feasible(cand)
  <1> USE MemblockAssumption
  <1> DEFINE M == memblock["memory"]
             R == memblock["reserved"]
             size == finding.size
             p == finding.idx_a
             q == finding.idx_b
             x == this_end - size
  <1>1. /\ Sound(R)
        /\ M.cnt \in 1 .. MAX_REGIONS /\ R.cnt \in 1 .. MAX_REGIONS
        /\ \A i \in Used(M) : /\ start(M, i) \in Nat /\ stop(M, i) \in Nat
                               /\ start(M, i) <= stop(M, i) /\ stop(M, i) <= PHYS_ADDR_MAX
        /\ \A i \in Used(R) : /\ start(R, i) \in Nat /\ stop(R, i) \in Nat
                               /\ start(R, i) <= stop(R, i) /\ stop(R, i) <= PHYS_ADDR_MAX
        /\ size \in Nat \ {0} /\ finding.align \in Nat \ {0}
    BY FindFacts
  <1>2. p \in Used(M) /\ q \in 0 .. R.cnt
    <2>1. p \in -1 .. M.cnt - 1 /\ q \in -1 .. R.cnt /\ p >= 0 /\ q >= 0
      BY DEF MInv, FindInv, AtRange
    <2> QED BY <1>1, <2>1 DEF Used
  <1>3. m_start = start(M, p) /\ m_end = stop(M, p)
    BY DEF m_start, m_end, start, stop, RegionEnd
  <1>4. r_start = (IF q = 0 THEN 0 ELSE stop(R, q - 1))
        /\ r_end = (IF q < R.cnt THEN start(R, q) ELSE PHYS_ADDR_MAX)
    BY DEF r_start, r_end, start, stop, RegionEnd
  <1>5. (q # 0 => q - 1 \in Used(R)) /\ (q < R.cnt => q \in Used(R))
    BY <1>1, <1>2 DEF Used
  <1>6. /\ m_start \in Nat /\ m_end \in Nat /\ m_end <= PHYS_ADDR_MAX
        /\ r_start \in Nat /\ r_end \in Nat
    BY <1>1, <1>2, <1>3, <1>4, <1>5
  <1>7. /\ this_start \in Nat /\ m_start <= this_start /\ r_start <= this_start
        /\ this_end \in Nat /\ this_end <= m_end /\ this_end <= r_end
    BY <1>6 DEF this_start, this_end, min, max
  <1>8. this_end >= size /\ cand >= this_start
    BY DEF Fits
  <1>9. x \in Nat /\ x + size = this_end /\ cand = rounddown(x, finding.align)
    BY <1>1, <1>7, <1>8 DEF cand
  <1> HIDE DEF M, R, size, p, q, x
  <1>10. cand \in Int /\ cand <= x /\ cand % finding.align = 0
    BY <1>1, <1>9, Rounded, Zenon
  <1>11. /\ cand \in Nat /\ cand + size <= this_end
         /\ cand \in Address /\ size \in Address
    BY <1>1, <1>6, <1>7, <1>8, <1>9, <1>10 DEF Address
  <1>12. ASSUME NEW y \in cand .. cand + size - 1
         PROVE  In(M, y) /\ ~In(R, y)
    <2>1. y \in Nat /\ cand <= y /\ y < cand + size
      BY <1>1, <1>11
    <2>2. m_start <= y /\ y < m_end /\ r_start <= y /\ y < r_end
      BY <1>1, <1>6, <1>7, <1>8, <1>11, <2>1
    <2>3. In(M, y)
      BY <1>2, <1>3, <2>2 DEF In
    <2>4. ASSUME NEW k \in Used(R), start(R, k) <= y, y < stop(R, k) PROVE FALSE
      <3>1. start(R, k) \in Nat /\ stop(R, k) \in Nat
        BY <1>1
      <3>2. CASE k < q
        <4>1. q # 0 /\ q - 1 \in Used(R) /\ (k = q - 1 \/ k < q - 1)
          BY <1>1, <1>2, <1>5, <3>2 DEF Used
        <4>2. start(R, q - 1) \in Nat /\ stop(R, q - 1) \in Nat
              /\ start(R, q - 1) <= stop(R, q - 1)
          BY <1>1, <4>1
        <4>3. k < q - 1 => stop(R, k) <= start(R, q - 1)
          BY <1>1, <4>1 DEF Sound, Apart
        <4>4. r_start = stop(R, q - 1)
          BY <1>4, <4>1
        <4> QED BY <2>1, <2>2, <2>4, <3>1, <4>1, <4>2, <4>3, <4>4
      <3>3. CASE k >= q
        <4>1. q < R.cnt /\ q \in Used(R) /\ (k = q \/ q < k)
          BY <1>1, <1>2, <3>3 DEF Used
        <4>2. start(R, q) \in Nat /\ stop(R, q) \in Nat /\ start(R, q) <= stop(R, q)
          BY <1>1, <4>1
        <4>3. q < k => stop(R, q) <= start(R, k)
          BY <1>1, <4>1 DEF Sound, Apart
        <4>4. r_end = start(R, q)
          BY <1>4, <4>1
        <4> QED BY <2>1, <2>2, <2>4, <3>1, <4>1, <4>2, <4>3, <4>4
      <3> QED BY <1>1, <1>2, <3>2, <3>3 DEF Used
    <2> QED BY <2>3, <2>4 DEF In
  <1> QED BY <1>10, <1>11, <1>12 DEF Feasible, M, R, size

(* What is left to show of a step of the search.                           *)
LEMMA SearchStep ==
  ASSUME MInv, step \in {"idle", "find"}, UNCHANGED <<memblock, adding, asked, counted>>,
         step' \in {"find", "panic"}, finding' \in Finding, step' = "find" => FindInv'
  PROVE  MInv'
  <1>1. /\ memblock' = memblock /\ adding' = adding /\ asked' = asked /\ counted' = counted
        /\ step' # "BUG" /\ step' # "pass" /\ step' # "merge"
    OBVIOUS
  <1>2. TypeInv'
    BY <1>1 DEF MInv, TypeInv
  <1>3. \A t \in Types : SoundArray(memblock'[t]) /\ Exact(memblock'[t], asked'[t])
    BY <1>1 DEF MInv, Quiet
  <1> QED BY <1>1, <1>2, <1>3 DEF MInv

(* The search begins above every place.                                    *)
LEMMA SearchBegins ==
  ASSUME MInv, NEW size \in 1 .. PHYS_ADDR_MAX, NEW align \in 0 .. PHYS_ADDR_MAX,
         memblock_alloc(size, align)
  PROVE  MInv'
  <1> USE MemblockAssumption
  <1> DEFINE M == memblock["memory"]
             R == memblock["reserved"]
             al == IF align = 0 THEN SMP_CACHE_BYTES ELSE align
  <1>1. /\ step = "idle" /\ step' = "find" /\ UNCHANGED <<memblock, adding, asked, counted>>
        /\ finding' = [size |-> size, align |-> al, idx_a |-> M.cnt - 1, idx_b |-> R.cnt,
                       found |-> 0]
    BY DEF memblock_alloc
  <1>2. /\ Sound(M) /\ Merged(M, M.cnt)
        /\ M.cnt \in 1 .. MAX_REGIONS /\ R.cnt \in 1 .. MAX_REGIONS
        /\ \A i \in Used(M) : /\ start(M, i) \in Nat /\ stop(M, i) \in Nat
                               /\ start(M, i) <= stop(M, i) /\ stop(M, i) <= PHYS_ADDR_MAX
    BY <1>1, FindFacts
  <1>3. al \in Nat \ {0} /\ size \in Nat \ {0} /\ M.cnt - 1 \in Int /\ R.cnt \in Int
    BY <1>2
  <1> HIDE DEF al
  <1>4. /\ finding'.size = size /\ finding'.idx_a = M.cnt - 1 /\ finding'.idx_b = R.cnt
        /\ finding' \in Finding
    BY <1>1, <1>3 DEF Finding
  <1>5. m_end' = stop(M, M.cnt - 1) /\ r_end' = PHYS_ADDR_MAX
    <2>1. ~(R.cnt < R.cnt)
      BY <1>2
    <2> QED BY <1>1, <1>4, <2>1 DEF m_end, r_end, stop, RegionEnd
  <1>6. ASSUME NEW a \in 0 .. PHYS_ADDR_MAX, Feasible(a)'
        PROVE  a + size <= stop(M, M.cnt - 1) /\ a + size <= PHYS_ADDR_MAX
    <2>1. \A x \in a .. a + size - 1 : In(M, x)
      BY <1>1, <1>4, <1>6 DEF Feasible, In, Used, start, stop
    <2> HIDE DEF M
    <2>2. PICK i \in Used(M) : start(M, i) <= a /\ a + size <= stop(M, i)
      <3>1. a \in Nat
        OBVIOUS
      <3> QED BY <1>2, <1>3, <2>1, <3>1, OneEntry, Zenon
    <2>3. M.cnt - 1 \in Used(M) /\ (i = M.cnt - 1 \/ i < M.cnt - 1)
      BY <1>2 DEF Used
    <2>4. i < M.cnt - 1 => stop(M, i) <= start(M, M.cnt - 1)
      BY <1>2, <2>3 DEF Sound, Apart
    <2>5. /\ stop(M, i) \in Nat /\ start(M, M.cnt - 1) \in Nat /\ stop(M, M.cnt - 1) \in Nat
          /\ start(M, M.cnt - 1) <= stop(M, M.cnt - 1) /\ stop(M, i) <= PHYS_ADDR_MAX
      BY <1>2, <2>3
    <2> QED BY <1>3, <2>2, <2>3, <2>4, <2>5
  <1>7. FindInv'
    <2>1. M.cnt - 1 \in -1 .. M.cnt - 1 /\ R.cnt \in -1 .. R.cnt /\ M.cnt - 1 >= 0 /\ R.cnt >= 0
      BY <1>2
    <2> QED BY <1>1, <1>4, <1>5, <1>6, <2>1 DEF FindInv
  <1> QED BY <1>1, <1>4, <1>7, SearchStep

(* A step of the search leaves no place behind.                            *)
LEMMA SearchGoesOn ==
  ASSUME MInv, NextMemory \/ NextGap \/ NextRange
  PROVE  MInv'
  <1> USE MemblockAssumption
  <1> DEFINE M == memblock["memory"]
             R == memblock["reserved"]
             size == finding.size
             p == finding.idx_a
             q == finding.idx_b
  <1>1. step = "find" /\ UNCHANGED <<memblock, step, adding, asked, counted>>
    BY DEF NextMemory, NextGap, NextRange
  <1>2. /\ M.cnt \in 1 .. MAX_REGIONS /\ R.cnt \in 1 .. MAX_REGIONS
        /\ size \in Nat \ {0}
    BY <1>1, FindFacts
  <1>3. /\ finding \in Finding
        /\ p \in -1 .. M.cnt - 1 /\ q \in -1 .. R.cnt
    BY <1>1 DEF MInv, TypeInv, FindInv
  <1>4. ASSUME NEW a \in Address, Feasible(a)
        PROVE  /\ p \in Used(M) /\ a + size <= m_end /\ m_start \in Nat /\ m_end \in Nat
               /\ m_start <= a \/ (p - 1 \in Used(M) /\ a + size <= stop(M, p - 1))
               /\ q \in 0 .. R.cnt
               /\ a + size <= r_end /\ r_start \in Nat /\ r_end \in Nat
               /\ r_start <= a \/ (q - 1 \in Used(R) /\ a + size <= start(R, q - 1))
    BY <1>1, <1>4, FeasibleFacts
  <1>5. ASSUME finding' = [finding EXCEPT !.idx_a = p - 1], p >= 0,
               \A a \in Address : Feasible(a) => ~(m_start <= a)
        PROVE  MInv'
    <2>1. p - 1 \in Int /\ p - 1 \in -1 .. M.cnt - 1
      BY <1>2, <1>3, <1>5
    <2>2. /\ finding'.size = size /\ finding'.align = finding.align
          /\ finding'.idx_a = p - 1 /\ finding'.idx_b = q
          /\ finding' \in Finding
      BY <1>3, <1>5, <2>1, Zenon DEF Finding
    <2>3. m_end' = stop(M, p - 1) /\ r_end' = r_end
      BY <1>1, <2>2 DEF m_end, r_end, stop, RegionEnd
    <2>4. ASSUME NEW a \in 0 .. PHYS_ADDR_MAX, Feasible(a)'
          PROVE  p - 1 >= 0 /\ a + size <= stop(M, p - 1) /\ q >= 0 /\ a + size <= r_end
      <3>1. Feasible(a)
        BY <1>1, <2>2, <2>4 DEF Feasible, In, Used, start, stop
      <3>2. a \in Address
        BY DEF Address
      <3>3. p - 1 \in Used(M) /\ a + size <= stop(M, p - 1) /\ q \in 0 .. R.cnt /\ a + size <= r_end
        BY <1>4, <1>5, <3>1, <3>2
      <3> QED BY <1>2, <3>3 DEF Used
    <2>5. FindInv'
      BY <1>1, <1>3, <2>1, <2>2, <2>3, <2>4 DEF FindInv
    <2> QED BY <1>1, <2>2, <2>5, SearchStep
  <1>6. ASSUME finding' = [finding EXCEPT !.idx_b = q - 1], q >= 0,
               \A a \in Address : Feasible(a) => ~(r_start <= a)
        PROVE  MInv'
    <2>1. q - 1 \in Int /\ q - 1 \in -1 .. R.cnt
      BY <1>2, <1>3, <1>6
    <2>2. /\ finding'.size = size /\ finding'.align = finding.align
          /\ finding'.idx_a = p /\ finding'.idx_b = q - 1
          /\ finding' \in Finding
      BY <1>3, <1>6, <2>1, Zenon DEF Finding
    <2>3. m_end' = m_end /\ r_end' = IF q - 1 < R.cnt THEN start(R, q - 1) ELSE PHYS_ADDR_MAX
      BY <1>1, <2>2 DEF m_end, r_end, start, RegionEnd
    <2>4. ASSUME NEW a \in 0 .. PHYS_ADDR_MAX, Feasible(a)'
          PROVE  p >= 0 /\ a + size <= m_end /\ q - 1 >= 0 /\ a + size <= r_end'
      <3>1. Feasible(a)
        BY <1>1, <2>2, <2>4 DEF Feasible, In, Used, start, stop
      <3>2. a \in Address
        BY DEF Address
      <3>3. p \in Used(M) /\ a + size <= m_end /\ q - 1 \in Used(R) /\ a + size <= start(R, q - 1)
        BY <1>4, <1>6, <3>1, <3>2
      <3>4. q - 1 < R.cnt /\ q - 1 >= 0 /\ p >= 0
        BY <1>2, <3>3 DEF Used
      <3> QED BY <2>3, <3>3, <3>4
    <2>5. FindInv'
      BY <1>1, <1>3, <2>1, <2>2, <2>3, <2>4 DEF FindInv
    <2> QED BY <1>1, <2>2, <2>5, SearchStep
  <1>7. CASE NextMemory
    <2>1. finding' = [finding EXCEPT !.idx_a = p - 1] /\ p >= 0 /\ (q >= 0 => r_end <= m_start)
      BY <1>7 DEF NextMemory
    <2>2. ASSUME NEW a \in Address, Feasible(a) PROVE ~(m_start <= a)
      BY <1>2, <1>4, <2>1, <2>2 DEF Address
    <2> QED BY <1>5, <2>1, <2>2
  <1>8. CASE NextGap
    <2>1. finding' = [finding EXCEPT !.idx_b = q - 1] /\ q >= 0 /\ m_end <= r_start
      BY <1>8 DEF NextGap
    <2>2. ASSUME NEW a \in Address, Feasible(a) PROVE ~(r_start <= a)
      BY <1>2, <1>4, <2>1, <2>2 DEF Address
    <2> QED BY <1>6, <2>1, <2>2
  <1>9. CASE NextRange
    <2>1. /\ p >= 0 /\ q >= 0 /\ ~Fits
          /\ finding' = IF m_start >= r_start THEN [finding EXCEPT !.idx_a = p - 1]
                                              ELSE [finding EXCEPT !.idx_b = q - 1]
      BY <1>9 DEF NextRange, AtRange
    <2>2. \A a \in Address : Feasible(a) => ~(this_start <= a)
      BY <1>1, <2>1, BelowCand
    <2>3. CASE m_start >= r_start
      <3>1. ASSUME NEW a \in Address, Feasible(a) PROVE ~(m_start <= a)
        <4>1. this_start = m_start
          BY <1>4, <2>3, <3>1 DEF this_start, max
        <4> QED BY <2>2, <3>1, <4>1
      <3> QED BY <1>5, <2>1, <2>3, <3>1
    <2>4. CASE ~(m_start >= r_start)
      <3>1. ASSUME NEW a \in Address, Feasible(a) PROVE ~(r_start <= a)
        <4>1. this_start = r_start
          BY <1>4, <2>4, <3>1 DEF this_start, max
        <4> QED BY <2>2, <3>1, <4>1
      <3> QED BY <1>6, <2>1, <2>4, <3>1
    <2> QED BY <2>3, <2>4
  <1> QED BY <1>7, <1>8, <1>9

-----------------------------------------------------------------------------
(***************************************************************************)
(* An iteration of the loop.  These are facts about the array A, the       *)
(* locals a before and c after the iteration, and the history h.           *)
(***************************************************************************)
(* The entry that the loop looks at.                                       *)
LEMMA EntryFacts ==
  ASSUME NEW A, Sound(A), Filled(A), NEW i \in Used(A)
  PROVE  /\ A.regions[i].base = start(A, i) /\ RegionEnd(A.regions[i]) = stop(A, i)
         /\ start(A, i) \in Nat /\ stop(A, i) \in Nat
         /\ start(A, i) < stop(A, i) /\ stop(A, i) <= PHYS_ADDR_MAX
  <1>1. A.regions[i].base \in Nat /\ A.regions[i].size \in Nat
    BY Entries DEF Sound
  <1>2. A.regions[i].size > 0 /\ stop(A, i) <= PHYS_ADDR_MAX
    BY DEF Filled, Sound, Bounded
  <1> QED BY <1>1, <1>2 DEF start, stop, RegionEnd

(* The locals, as plain facts.                                             *)
LEMMA LocalFacts ==
  ASSUME NEW A, Sound(A), NEW a \in Adding, PassRange(A, a)
  PROVE  /\ A.cnt \in 1 .. MAX_REGIONS
         /\ a.obase \in Nat /\ a.base \in Nat /\ a.end \in Nat /\ a.end <= PHYS_ADDR_MAX
         /\ a.idx \in 0 .. A.cnt /\ a.nr_new \in Nat
         /\ a.obase <= a.base /\ a.base <= a.end /\ a.obase < a.end
  <1>1. A.cnt \in 1 .. MAX_REGIONS
    BY Entries DEF Sound
  <1> QED BY <1>1, MemblockAssumption DEF PassRange, Adding, Address

(* What After says.                                                        *)
LEMMA AfterCases ==
  ASSUME NEW r, NEW base, NEW nr, NEW end, NEW b, NEW n,
         RegionEnd(r) \in Nat, base \in Nat, Seen(b, n) = After(Seen(base, nr), r, end)
  PROVE  \/ RegionEnd(r) <= base /\ b = base /\ n = nr
         \/ /\ RegionEnd(r) > base /\ b = min(RegionEnd(r), end)
            /\ n = IF r.base > base THEN nr + 1 ELSE nr
  <1>1. \A x, y : Seen(x, y).base = x /\ Seen(x, y).nr_new = y
    BY DEF Seen
  <1>2. b = After(Seen(base, nr), r, end).base /\ n = After(Seen(base, nr), r, end).nr_new
    BY <1>1
  <1> QED BY <1>1, <1>2 DEF After

(* What an iteration does to base and nr_new.                              *)
LEMMA Iterated ==
  ASSUME NEW A, Sound(A), NEW a \in Adding, PassRange(A, a), a.idx \in Used(A),
         start(A, a.idx) < a.end, NEW b, NEW n,
         Seen(b, n) = After(Seen(a.base, a.nr_new), A.regions[a.idx], a.end)
  PROVE  /\ b \in Address /\ n \in Nat /\ a.base <= b /\ b <= a.end
         /\ n = a.nr_new \/ n = a.nr_new + 1
         /\ stop(A, a.idx) <= b \/ b = a.end
         /\ n = a.nr_new => b = a.base \/ (start(A, a.idx) <= a.base /\ b <= stop(A, a.idx))
         /\ n # a.nr_new => start(A, a.idx) <= b /\ b <= stop(A, a.idx)
  <1> DEFINE r == A.regions[a.idx]
  <1>1. Filled(A)
    BY DEF PassRange
  <1>2. /\ r.base = start(A, a.idx) /\ RegionEnd(r) = stop(A, a.idx)
        /\ r.base \in Nat /\ RegionEnd(r) \in Nat
        /\ r.base < RegionEnd(r) /\ RegionEnd(r) <= PHYS_ADDR_MAX
    BY <1>1, EntryFacts
  <1>3. a.base \in Nat /\ a.end \in Nat /\ a.end <= PHYS_ADDR_MAX /\ a.nr_new \in Nat
        /\ a.base <= a.end
    BY LocalFacts
  <1> HIDE DEF r
  <1>4. \/ RegionEnd(r) <= a.base /\ b = a.base /\ n = a.nr_new
        \/ /\ RegionEnd(r) > a.base /\ b = min(RegionEnd(r), a.end)
           /\ n = IF r.base > a.base THEN a.nr_new + 1 ELSE a.nr_new
    BY <1>2, <1>3, AfterCases DEF r
  <1> QED BY <1>2, <1>3, <1>4, MemblockAssumption DEF min, Address

LEMMA RangePassed ==
  ASSUME NEW A, Sound(A), NEW a \in Adding, PassRange(A, a), a.idx \in Used(A),
         NEW c \in Adding, c.obase = a.obase, c.end = a.end, c.insert = a.insert,
         c.idx = a.idx + 1, a.base <= c.base, c.base <= a.end,
         stop(A, a.idx) <= c.base \/ c.base = a.end,
         c.nr_new = a.nr_new \/ c.nr_new = a.nr_new + 1
  PROVE  PassRange(A, c)
  <1>1. /\ A.cnt \in 1 .. MAX_REGIONS
        /\ a.obase \in Nat /\ a.base \in Nat /\ a.end \in Nat /\ c.base \in Nat
        /\ a.idx \in Nat /\ a.nr_new \in Nat
        /\ a.obase <= a.base /\ a.obase < a.end
    BY LocalFacts DEF Adding, Address
  <1>2. c.obase <= c.base /\ c.idx <= A.cnt
    BY <1>1, MemblockAssumption DEF Used
  <1>3. ASSUME NEW k \in Used(A), k < c.idx
        PROVE  stop(A, k) <= c.base \/ c.base = c.end
    <2>1. CASE k = a.idx
      BY <2>1
    <2>2. CASE k < a.idx
      <3>1. stop(A, k) \in Nat
        BY Entries DEF Sound
      <3>2. stop(A, k) <= a.base \/ a.base = a.end
        BY <2>2 DEF PassRange
      <3> QED BY <1>1, <3>1, <3>2
    <2> QED BY <1>1, <1>3, <2>1, <2>2 DEF Used
  <1>4. ~c.insert \/ c.nr_new = 0 => Merged(A, A.cnt)
    BY <1>1 DEF PassRange
  <1>5. Filled(A)
    BY DEF PassRange
  <1> QED BY <1>1, <1>2, <1>3, <1>4, <1>5 DEF PassRange

LEMMA MissingPassed ==
  ASSUME NEW A, Sound(A), NEW a \in Adding, PassRange(A, a), a.idx \in Used(A),
         NEW R, Missing(A, R, a),
         NEW c \in Adding, c.obase = a.obase, c.end = a.end, c.insert = a.insert,
         c.nr_new = a.nr_new \/ c.nr_new = a.nr_new + 1,
         a.insert => c.nr_new = a.nr_new,
         c.nr_new = a.nr_new =>
           c.base = a.base \/ (start(A, a.idx) <= a.base /\ c.base <= stop(A, a.idx))
  PROVE  Missing(A, R, c)
  <1>1. a.base \in Nat /\ c.base \in Nat /\ a.nr_new \in Nat
    BY DEF Adding, Address
  <1>2. start(A, a.idx) \in Nat /\ stop(A, a.idx) \in Nat
    BY Entries DEF Sound
  <1>3. c.insert \/ c.nr_new = 0 => c.nr_new = a.nr_new
    BY <1>1
  <1>4. ASSUME NEW x \in 0 .. PHYS_ADDR_MAX - 1, ~In(A, x), a.base <= x, c.nr_new = a.nr_new
        PROVE  c.base <= x
    <2>1. ~(start(A, a.idx) <= x /\ x < stop(A, a.idx))
      BY <1>4 DEF In
    <2> QED BY <1>1, <1>2, <1>4, <2>1, MemblockAssumption
  <1> QED BY <1>3, <1>4 DEF Missing

LEMMA FirstPassed ==
  ASSUME NEW A, NEW a \in Adding, NEW h \in Counts, FirstPass(A, a, h),
         a.idx + 1 \in 0 .. MAX_REGIONS, start(A, a.idx) < a.end,
         NEW c \in Adding, c.obase = a.obase, c.end = a.end, c.idx = a.idx + 1,
         c.nr_new = a.nr_new \/ c.nr_new = a.nr_new + 1,
         Seen(c.base, c.nr_new) = After(Seen(a.base, a.nr_new), A.regions[a.idx], a.end),
         NEW g, g = [h EXCEPT !.at = [@ EXCEPT ![a.idx + 1] = Seen(c.base, c.nr_new)]]
  PROVE  g \in Counts /\ FirstPass(A, c, g)
  <1>1. a.idx \in Nat /\ a.nr_new \in Nat /\ c.nr_new \in Nat /\ c.base \in Address
    BY DEF Adding
  <1>2. Seen(c.base, c.nr_new) \in [base : Address, nr_new : Nat]
    BY <1>1 DEF Seen
  <1>3. h.at \in [0 .. MAX_REGIONS -> [base : Address, nr_new : Nat]]
    BY DEF Counts
  <1>4. g.at = [h.at EXCEPT ![a.idx + 1] = Seen(c.base, c.nr_new)] /\ g \in Counts
    BY Zenon, <1>2, <1>3 DEF Counts
  <1>5. g.at[a.idx + 1] = Seen(c.base, c.nr_new) /\ \A k \in 0 .. a.idx : g.at[k] = h.at[k]
    BY <1>1, <1>3, <1>4, MemblockAssumption
  <1>6. g.at[0] = Seen(c.obase, 0)
    BY <1>1, <1>5 DEF FirstPass
  <1>7. ASSUME NEW k \in 0 .. c.idx - 1
        PROVE  start(A, k) < c.end /\ g.at[k + 1] = After(g.at[k], A.regions[k], c.end)
    <2>1. CASE k = a.idx
      <3>1. h.at[a.idx] = Seen(a.base, a.nr_new)
        BY DEF FirstPass
      <3> QED BY <1>1, <1>5, <2>1, <3>1
    <2>2. CASE k # a.idx
      <3>1. k \in 0 .. a.idx - 1 /\ k \in 0 .. a.idx /\ k + 1 \in 0 .. a.idx
        BY <1>1, <2>2
      <3> QED BY <1>5, <3>1 DEF FirstPass
    <2> QED BY <2>1, <2>2
  <1>8. ASSUME NEW k \in 0 .. c.idx
        PROVE  g.at[k].nr_new <= c.nr_new
    <2>1. CASE k = a.idx + 1
      BY <1>1, <1>5, <2>1 DEF Seen
    <2>2. CASE k # a.idx + 1
      <3>1. k \in 0 .. a.idx /\ k \in 0 .. MAX_REGIONS
        BY <1>1, <2>2, MemblockAssumption
      <3>2. h.at[k].nr_new <= a.nr_new /\ h.at[k].nr_new \in Nat
        BY Zenon, <1>3, <3>1 DEF FirstPass
      <3> QED BY <1>1, <1>5, <3>1, <3>2
    <2> QED BY <2>1, <2>2
  <1> QED BY <1>4, <1>5, <1>6, <1>7, <1>8 DEF FirstPass

(* The second pass has the first one to go by: it is over when the first   *)
(* was.                                                                    *)
LEMMA SecondFacts ==
  ASSUME NEW A, Sound(A), NEW a \in Adding, PassRange(A, a), NEW h \in Counts,
         SecondPass(A, a, h), NEW k0, k0 = a.idx - a.nr_new
  PROVE  /\ h.stop \in Nat /\ h.nr_new \in Nat /\ k0 \in 0 .. h.stop
         /\ h.stop <= A.cnt - a.nr_new /\ h.stop \in 0 .. MAX_REGIONS
         /\ (a.idx < A.cnt /\ start(A, a.idx) < a.end) <=> k0 < h.stop
  <1> USE MemblockAssumption
  <1>1. /\ A.cnt \in 1 .. MAX_REGIONS /\ a.idx \in 0 .. A.cnt /\ a.nr_new \in Nat
        /\ a.end \in Nat
    BY LocalFacts
  <1>2. h.stop \in Nat /\ h.nr_new \in Nat
    BY DEF Counts
  <1>3. 0 <= k0 /\ k0 <= h.stop /\ h.stop <= A.cnt - a.nr_new
    BY DEF SecondPass, Planned
  <1>4. k0 + a.nr_new = a.idx
    BY <1>1
  <1>5. CASE k0 < h.stop
    <2>1. k0 \in k0 .. h.stop - 1
      BY <1>1, <1>2, <1>5
    <2>2. start(A, k0 + a.nr_new) < a.end
      BY <2>1 DEF SecondPass, Ahead
    <2> QED BY <1>1, <1>2, <1>3, <1>4, <1>5, <2>2
  <1>6. CASE k0 = h.stop
    <2>1. a.idx < A.cnt => a.end <= start(A, a.idx)
      BY <1>4, <1>6 DEF SecondPass, Ahead
    <2>2. a.idx < A.cnt => start(A, a.idx) \in Nat
      <3>1. a.idx < A.cnt => a.idx \in Used(A)
        BY <1>1 DEF Used
      <3> QED BY <3>1, Entries DEF Sound
    <2> QED BY <1>1, <1>2, <1>3, <1>6, <2>1, <2>2
  <1> QED BY <1>1, <1>2, <1>3, <1>5, <1>6

LEMMA SecondPassed ==
  ASSUME NEW A, Sound(A), NEW a \in Adding, PassRange(A, a), NEW h \in Counts,
         SecondPass(A, a, h), a.idx \in Used(A), start(A, a.idx) < a.end,
         NEW c \in Adding, c.end = a.end, c.idx = a.idx + 1, c.nr_new = a.nr_new,
         Seen(c.base, c.nr_new) = After(Seen(a.base, a.nr_new), A.regions[a.idx], a.end)
  PROVE  SecondPass(A, c, h)
  <1> DEFINE k0 == a.idx - a.nr_new
  <1>1. A.cnt \in Nat /\ a.idx \in Nat /\ a.nr_new \in Nat /\ a.idx < A.cnt
    BY LocalFacts, MemblockAssumption DEF Used
  <1>2. h.stop \in Nat /\ 0 <= k0 /\ k0 < h.stop
    BY <1>1, SecondFacts
  <1>3. /\ h.at[k0] = Seen(a.base, a.nr_new)
        /\ Planned(h, a.end, A.cnt - a.nr_new)
        /\ Ahead(A, a.end, a.nr_new, k0, h)
    BY DEF SecondPass
  <1>4. k0 \in k0 .. h.stop - 1 /\ k0 + a.nr_new = a.idx
    BY <1>1, <1>2
  <1>5. c.idx - c.nr_new = k0 + 1 /\ 0 <= k0 + 1 /\ k0 + 1 <= h.stop
    BY <1>1, <1>2
  <1>6. \A k \in k0 + 1 .. h.stop - 1 : k \in k0 .. h.stop - 1
    BY <1>1, <1>2
  <1> HIDE DEF k0
  <1>7. h.at[k0 + 1] = Seen(c.base, c.nr_new)
    BY <1>3, <1>4 DEF Ahead
  <1>8. Ahead(A, c.end, c.nr_new, k0 + 1, h)
    BY <1>3, <1>6 DEF Ahead
  <1> QED BY <1>3, <1>5, <1>7, <1>8 DEF SecondPass

(* When the second pass meets a piece there is room for it: the first pass *)
(* counted it.                                                             *)
LEMMA RoomForPiece ==
  ASSUME NEW A, Sound(A), NEW a \in Adding, PassRange(A, a), NEW h \in Counts,
         SecondPass(A, a, h), a.idx \in Used(A), start(A, a.idx) < a.end,
         NEW b, Seen(b, a.nr_new + 1) = After(Seen(a.base, a.nr_new), A.regions[a.idx], a.end)
  PROVE  /\ A.cnt < MAX_REGIONS
         /\ h.at[a.idx - a.nr_new + 1] = Seen(b, a.nr_new + 1)
  <1> USE MemblockAssumption
  <1> DEFINE k0 == a.idx - a.nr_new
             last == h.at[h.stop]
  <1>1. A.cnt \in Nat /\ a.idx \in Nat /\ a.nr_new \in Nat /\ a.idx < A.cnt
    BY LocalFacts DEF Used
  <1>2. /\ h.stop \in 0 .. MAX_REGIONS /\ h.nr_new \in Nat /\ 0 <= k0 /\ k0 < h.stop
        /\ h.stop \in Nat
    BY <1>1, SecondFacts
  <1>3. /\ h.at[k0] = Seen(a.base, a.nr_new)
        /\ Planned(h, a.end, A.cnt - a.nr_new)
        /\ Ahead(A, a.end, a.nr_new, k0, h)
    BY DEF SecondPass
  <1>4. k0 \in k0 .. h.stop - 1 /\ k0 + a.nr_new = a.idx /\ k0 + 1 \in 0 .. h.stop
    BY <1>1, <1>2
  <1>5. last.nr_new \in Nat
    BY <1>2 DEF Counts
  <1> HIDE DEF k0
  <1>6. h.at[k0 + 1] = Seen(b, a.nr_new + 1)
    BY <1>3, <1>4 DEF Ahead
  <1>7. h.at[k0 + 1].nr_new = a.nr_new + 1
    BY <1>6 DEF Seen
  <1>8. a.nr_new + 1 <= last.nr_new
    BY <1>3, <1>4, <1>7 DEF Planned
  <1> HIDE DEF last
  <1>9. last.nr_new <= h.nr_new /\ A.cnt - a.nr_new + h.nr_new <= MAX_REGIONS
    BY <1>3, <1>5 DEF Planned, last
  <1>10. A.cnt < MAX_REGIONS
    BY <1>1, <1>2, <1>5, <1>8, <1>9
  <1> QED BY <1>6, <1>10 DEF k0

(* When something is left of the range after the loop there is room for    *)
(* it.                                                                     *)
LEMMA RoomForRest ==
  ASSUME NEW A, Sound(A), NEW a \in Adding, PassRange(A, a), NEW h \in Counts,
         SecondPass(A, a, h), ~(a.idx < A.cnt /\ start(A, a.idx) < a.end), a.base < a.end
  PROVE  A.cnt < MAX_REGIONS
  <1> USE MemblockAssumption
  <1> DEFINE last == h.at[h.stop]
  <1>1. A.cnt \in Nat /\ a.nr_new \in Nat
    BY LocalFacts
  <1>2. h.stop \in Nat /\ h.nr_new \in Nat /\ a.idx - a.nr_new = h.stop
    <2>1. LET k0 == a.idx - a.nr_new IN k0 \in 0 .. h.stop /\ ~(k0 < h.stop) /\ h.stop \in Nat
      BY SecondFacts
    <2>2. h.nr_new \in Nat
      BY DEF Counts
    <2> QED BY <2>1, <2>2
  <1>3. last = Seen(a.base, a.nr_new) /\ Planned(h, a.end, A.cnt - a.nr_new)
    BY <1>2 DEF SecondPass
  <1>4. last.base = a.base /\ last.nr_new = a.nr_new
    BY <1>3 DEF Seen
  <1>5. h.nr_new = a.nr_new + 1 /\ A.cnt - a.nr_new + h.nr_new <= MAX_REGIONS
    BY <1>3, <1>4 DEF Planned
  <1> QED BY <1>1, <1>5

-----------------------------------------------------------------------------
(***************************************************************************)
(* An iteration that makes B of A by inserting the piece of the range      *)
(* below entry a.idx.                                                      *)
(***************************************************************************)
PieceInserted(A, B, a) ==
  /\ Filled(B)
  /\ B.cnt = A.cnt + 1
  /\ \A x \in Nat : In(B, x) <=> In(A, x) \/ (a.base <= x /\ x < start(A, a.idx))
  /\ \A i \in Used(A) : i < a.idx => B.regions[i] = A.regions[i]
  /\ \A i \in Used(A) : i >= a.idx => B.regions[i + 1] = A.regions[i]
  /\ B.regions[a.idx] = Region(a.base, start(A, a.idx) - a.base)

LEMMA PieceFits ==
  ASSUME Sizes, NEW A, Sound(A), NEW a \in Adding, PassRange(A, a), a.idx \in Used(A),
         A.cnt < MAX_REGIONS, a.base < start(A, a.idx), start(A, a.idx) < a.end,
         NEW B, B = memblock_insert_region(A, a.idx, a.base, start(A, a.idx) - a.base)
  PROVE  Sound(B) /\ PieceInserted(A, B, a)
  <1> DEFINE e == start(A, a.idx)
  <1>1. /\ A.cnt \in 1 .. MAX_REGIONS /\ a.idx \in 0 .. A.cnt /\ a.base \in Nat /\ a.end \in Nat
        /\ a.end <= PHYS_ADDR_MAX
    BY LocalFacts
  <1>2. Filled(A)
    BY DEF PassRange
  <1>3. \A i \in Used(A) : start(A, i) \in Nat /\ stop(A, i) \in Nat /\ start(A, i) < stop(A, i)
    BY <1>2, EntryFacts
  <1>4. e \in Address /\ a.base \in Address
    BY <1>1, <1>3, MemblockAssumption DEF Address
  <1>5. \A i \in Used(A) : i < a.idx => stop(A, i) <= a.base
    BY <1>1, <1>3 DEF PassRange
  <1>6. ASSUME NEW i \in Used(A), i >= a.idx PROVE e <= start(A, i)
    <2>1. CASE i = a.idx
      BY <1>3, <2>1
    <2>2. CASE i > a.idx
      <3>1. stop(A, a.idx) <= start(A, i)
        BY <2>2 DEF Sound, Apart
      <3> QED BY <1>3, <3>1
    <2> QED BY <1>1, <1>6, <2>1, <2>2 DEF Used
  <1> HIDE DEF e
  <1>7. /\ Sound(B) /\ Filled(B)
        /\ B.cnt = A.cnt + 1
        /\ \A x \in Nat : In(B, x) <=> In(A, x) \/ (a.base <= x /\ x < e)
        /\ \A i \in Used(A) : B.regions[IF i < a.idx THEN i ELSE i + 1] = A.regions[i]
        /\ B.regions[a.idx] = Region(a.base, e - a.base)
    BY <1>1, <1>2, <1>4, <1>5, <1>6, Inserted DEF e
  <1>8. ASSUME NEW i \in Used(A)
        PROVE  /\ i < a.idx => B.regions[i] = A.regions[i]
               /\ i >= a.idx => B.regions[i + 1] = A.regions[i]
    <2>1. i >= a.idx => ~(i < a.idx)
      BY <1>1 DEF Used
    <2> QED BY <1>7, <2>1
  <1> QED BY <1>7, <1>8 DEF PieceInserted, e

LEMMA RangeInserted ==
  ASSUME NEW A, Sound(A), NEW B, NEW a \in Adding, PassRange(A, a), a.idx \in Used(A),
         a.base < start(A, a.idx), PieceInserted(A, B, a),
         NEW c \in Adding, c.obase = a.obase, c.end = a.end, c.insert, c.idx = a.idx + 2,
         c.nr_new = a.nr_new + 1, start(A, a.idx) <= c.base, c.base <= a.end,
         stop(A, a.idx) <= c.base \/ c.base = a.end
  PROVE  PassRange(B, c)
  <1>1. /\ A.cnt \in Nat /\ a.idx \in Nat /\ a.idx < A.cnt
        /\ a.obase \in Nat /\ a.base \in Nat /\ a.end \in Nat
        /\ a.obase <= a.base /\ a.obase < a.end /\ a.nr_new \in Nat
    BY LocalFacts, MemblockAssumption DEF Used
  <1>2. c.base \in Nat
    BY DEF Adding, Address
  <1>3. \A i \in Used(A) : start(A, i) \in Nat /\ stop(A, i) \in Nat
    BY Entries DEF Sound
  <1>4. B.cnt = A.cnt + 1 /\ Filled(B)
    BY DEF PieceInserted
  <1>5. ASSUME NEW k \in Used(B), k < c.idx
        PROVE  stop(B, k) <= c.base \/ c.base = c.end
    <2>1. CASE k < a.idx
      <3>1. k \in Used(A)
        BY <1>1, <1>4, <2>1 DEF Used
      <3>2. stop(B, k) = stop(A, k)
        BY <2>1, <3>1 DEF PieceInserted, stop
      <3>3. stop(A, k) <= a.base \/ a.base = a.end
        BY <2>1, <3>1 DEF PassRange
      <3> QED BY <1>1, <1>2, <1>3, <3>1, <3>2, <3>3
    <2>2. CASE k = a.idx
      <3>1. stop(B, k) = a.base + (start(A, a.idx) - a.base)
        BY <2>2 DEF PieceInserted, stop, Region
      <3> QED BY <1>1, <1>3, <3>1
    <2>3. CASE k = a.idx + 1
      <3>1. stop(B, k) = stop(A, a.idx)
        <4>1. a.idx >= a.idx
          BY <1>1
        <4>2. B.regions[a.idx + 1] = A.regions[a.idx]
          BY <4>1 DEF PieceInserted
        <4> QED BY <2>3, <4>2 DEF stop
      <3> QED BY <3>1
    <2> QED BY <1>1, <1>4, <1>5, <2>1, <2>2, <2>3 DEF Used
  <1>6. c.obase <= c.base /\ c.idx <= B.cnt /\ c.nr_new # 0
    BY <1>1, <1>2, <1>3, <1>4
  <1> QED BY <1>1, <1>4, <1>5, <1>6 DEF PassRange

LEMMA MissingInserted ==
  ASSUME NEW A, Sound(A), NEW B, NEW a \in Adding, PassRange(A, a), a.idx \in Used(A),
         a.base < start(A, a.idx), start(A, a.idx) < a.end, PieceInserted(A, B, a),
         NEW R, Missing(A, R, a), a.insert,
         NEW c \in Adding, c.obase = a.obase, c.end = a.end, c.base <= stop(A, a.idx)
  PROVE  Missing(B, R, c)
  <1>1. /\ a.obase \in Nat /\ a.base \in Nat /\ a.end \in Nat /\ c.base \in Nat
        /\ a.obase <= a.base
    BY LocalFacts DEF Adding, Address
  <1>2. start(A, a.idx) \in Nat /\ stop(A, a.idx) \in Nat
    BY Entries DEF Sound
  <1> SUFFICES ASSUME NEW x \in 0 .. PHYS_ADDR_MAX - 1
               PROVE  /\ In(B, x) => Covered(R, x)
                      /\ c.obase <= x /\ x < c.end => Covered(R, x)
                      /\ Covered(R, x) /\ ~In(B, x) =>
                           c.obase <= x /\ x < c.end /\ c.base <= x
    BY DEF Missing
  <1>3. x \in Nat
    BY MemblockAssumption
  <1>4. /\ In(A, x) => Covered(R, x)
        /\ a.obase <= x /\ x < a.end => Covered(R, x)
        /\ Covered(R, x) /\ ~In(A, x) => a.obase <= x /\ x < a.end /\ a.base <= x
    BY DEF Missing
  <1>5. In(B, x) <=> In(A, x) \/ (a.base <= x /\ x < start(A, a.idx))
    BY <1>3 DEF PieceInserted
  <1>6. ~In(A, x) => ~(start(A, a.idx) <= x /\ x < stop(A, a.idx))
    BY DEF In
  <1>7. a.base <= x /\ x < start(A, a.idx) => a.obase <= x /\ x < a.end
    BY <1>1, <1>2, <1>3
  <1>8. ~In(B, x) /\ a.base <= x => c.base <= x
    BY <1>1, <1>2, <1>3, <1>5, <1>6
  <1> QED BY <1>4, <1>5, <1>7, <1>8

LEMMA SecondInserted ==
  ASSUME NEW A, Sound(A), NEW B, NEW a \in Adding, PassRange(A, a), a.idx \in Used(A),
         start(A, a.idx) < a.end, PieceInserted(A, B, a),
         NEW h \in Counts, SecondPass(A, a, h),
         NEW c \in Adding, c.end = a.end, c.idx = a.idx + 2, c.nr_new = a.nr_new + 1,
         h.at[a.idx - a.nr_new + 1] = Seen(c.base, c.nr_new)
  PROVE  SecondPass(B, c, h)
  <1> DEFINE k0 == a.idx - a.nr_new
             nr == a.nr_new
  <1>1. /\ A.cnt \in Nat /\ a.idx \in Nat /\ nr \in Nat /\ a.idx < A.cnt
        /\ B.cnt = A.cnt + 1
    BY LocalFacts, MemblockAssumption DEF Used, PieceInserted
  <1>2. h.stop \in Nat /\ 0 <= k0 /\ k0 < h.stop /\ h.stop <= A.cnt - nr
    BY <1>1, SecondFacts
  <1>3. Planned(h, a.end, A.cnt - nr) /\ Ahead(A, a.end, nr, k0, h)
    BY DEF SecondPass
  <1>4. /\ c.idx - c.nr_new = k0 + 1 /\ B.cnt - c.nr_new = A.cnt - nr
        /\ 0 <= k0 + 1 /\ k0 + 1 <= h.stop
    BY <1>1, <1>2
  <1>5. ASSUME NEW k \in k0 + 1 .. h.stop, k + nr < A.cnt
        PROVE  B.regions[k + c.nr_new] = A.regions[k + nr]
    <2>1. k + nr \in Used(A) /\ k + nr >= a.idx /\ k + nr + 1 = k + c.nr_new
      BY <1>1, <1>2, <1>5 DEF Used
    <2>2. B.regions[k + nr + 1] = A.regions[k + nr]
      BY <2>1 DEF PieceInserted
    <2> QED BY <2>1, <2>2
  <1>6. ASSUME NEW k \in k0 + 1 .. h.stop - 1
        PROVE  /\ start(B, k + c.nr_new) < a.end
               /\ h.at[k + 1] = After(h.at[k], B.regions[k + c.nr_new], a.end)
    <2>1. k \in k0 .. h.stop - 1 /\ k \in k0 + 1 .. h.stop /\ k + nr < A.cnt
      BY <1>1, <1>2
    <2>2. start(A, k + nr) < a.end /\ h.at[k + 1] = After(h.at[k], A.regions[k + nr], a.end)
      BY <1>3, <2>1 DEF Ahead
    <2>3. B.regions[k + c.nr_new] = A.regions[k + nr]
      BY <1>5, <2>1
    <2> QED BY <2>2, <2>3 DEF start
  <1>7. h.stop + c.nr_new < B.cnt => a.end <= start(B, h.stop + c.nr_new)
    <2> SUFFICES ASSUME h.stop + c.nr_new < B.cnt
                 PROVE  a.end <= start(B, h.stop + c.nr_new)
      OBVIOUS
    <2>1. h.stop \in k0 + 1 .. h.stop /\ h.stop + nr < A.cnt
      BY <1>1, <1>2
    <2>2. a.end <= start(A, h.stop + nr)
      BY <1>3, <2>1 DEF Ahead
    <2>3. B.regions[h.stop + c.nr_new] = A.regions[h.stop + nr]
      BY <1>5, <2>1
    <2> QED BY <2>2, <2>3 DEF start
  <1> HIDE DEF k0, nr
  <1>8. Ahead(B, c.end, c.nr_new, k0 + 1, h)
    BY <1>6, <1>7 DEF Ahead
  <1>9. h.at[k0 + 1] = Seen(c.base, c.nr_new)
    BY DEF k0
  <1> QED BY <1>3, <1>4, <1>8, <1>9 DEF SecondPass

-----------------------------------------------------------------------------
(***************************************************************************)
(* The steps of memblock_add_range.                                        *)
(***************************************************************************)
(* Where a pass is.                                                        *)
LEMMA PassFacts ==
  ASSUME MInv, step = "pass"
  PROVE  /\ adding \in Adding /\ adding.type \in Types /\ counted \in Counts
         /\ Target = memblock[adding.type] /\ Sound(Target) /\ SoundArray(Target)
         /\ PassRange(Target, adding)
         /\ Missing(Target, asked[adding.type], adding)
         /\ adding.insert => SecondPass(Target, adding, counted)
         /\ ~adding.insert => FirstPass(Target, adding, counted)
         /\ \A t \in Types : t # adding.type => Quiet(t)
  <1>1. adding \in Adding /\ counted \in Counts
    BY DEF MInv, TypeInv
  <1>2. adding.type \in Types
    BY <1>1 DEF Adding
  <1>3. SoundArray(memblock[adding.type])
    BY <1>2 DEF MInv
  <1>4. PassInv(Target, asked[adding.type], adding, counted)
    BY DEF MInv
  <1> QED BY <1>1, <1>2, <1>3, <1>4 DEF PassInv, SoundArray, Quiet, Target

(* An iteration that inserts nothing.                                      *)
LEMMA Passes ==
  ASSUME MInv, step = "pass", InLoop, UNCHANGED <<memblock, step, finding, asked>>,
         NEW b, NEW n, Seen(b, n) = After(Seen(adding.base, adding.nr_new), rgn, adding.end),
         adding.insert => n = adding.nr_new,
         Advance(adding.idx + 1, b, n)
  PROVE  MInv'
  <1> DEFINE A == Target
             a == adding
             c == adding'
             R == asked[adding.type]
  <1>1. /\ a \in Adding /\ a.type \in Types /\ counted \in Counts
        /\ A = memblock[a.type] /\ Sound(A) /\ SoundArray(A)
        /\ PassRange(A, a) /\ Missing(A, R, a)
        /\ a.insert => SecondPass(A, a, counted)
        /\ ~a.insert => FirstPass(A, a, counted)
        /\ \A t \in Types : t # a.type => Quiet(t)
    BY PassFacts
  <1>2. A.cnt \in 1 .. MAX_REGIONS /\ a.idx \in 0 .. A.cnt
    BY <1>1, LocalFacts
  <1>3. a.idx \in Used(A) /\ a.idx + 1 \in 0 .. MAX_REGIONS /\ a.idx + 1 \in Nat
    BY <1>2, MemblockAssumption DEF InLoop, Used
  <1>4. start(A, a.idx) < a.end /\ rgn = A.regions[a.idx]
    BY DEF InLoop, rgn, start
  <1>5. /\ b \in Address /\ n \in Nat /\ a.base <= b /\ b <= a.end
        /\ n = a.nr_new \/ n = a.nr_new + 1
        /\ stop(A, a.idx) <= b \/ b = a.end
        /\ n = a.nr_new => b = a.base \/ (start(A, a.idx) <= a.base /\ b <= stop(A, a.idx))
    <2> HIDE DEF A, a
    <2> QED BY <1>1, <1>3, <1>4, Iterated DEF a
  <1>6. /\ c \in Adding
        /\ c.type = a.type /\ c.obase = a.obase /\ c.base = b /\ c.end = a.end
        /\ c.idx = a.idx + 1 /\ c.nr_new = n /\ c.insert = a.insert
    <2>1. c = [a EXCEPT !.idx = a.idx + 1, !.base = b, !.nr_new = n]
      BY DEF Advance
    <2>2. a \in Adding /\ b \in Address /\ n \in Nat
      BY <1>1, <1>5
    <2> HIDE DEF A, a, c
    <2> QED BY Zenon, <1>3, <2>1, <2>2 DEF Adding
  <1>7. counted' = IF a.insert THEN counted
                   ELSE [counted EXCEPT !.at = [@ EXCEPT ![a.idx + 1] = Seen(c.base, c.nr_new)]]
    BY <1>6 DEF Advance
  <1>8. Seen(c.base, c.nr_new) = After(Seen(a.base, a.nr_new), A.regions[a.idx], a.end)
    BY <1>4, <1>6
  <1>9. /\ memblock'[a.type] = A /\ asked'[a.type] = R /\ finding' \in Finding
        /\ memblock' \in [Types -> Array] /\ asked' \in [Types -> SUBSET Entry]
    BY <1>1 DEF MInv, TypeInv
  <1> HIDE DEF A, a, c, R
  <1>10. PassRange(A, c)
    BY <1>1, <1>3, <1>5, <1>6, RangePassed
  <1>11. Missing(A, R, c)
    BY <1>1, <1>3, <1>5, <1>6, MissingPassed DEF a
  <1>12. /\ counted' \in Counts
         /\ IF c.insert THEN SecondPass(A, c, counted') ELSE FirstPass(A, c, counted')
    <2>1. CASE a.insert
      <3>1. SecondPass(A, c, counted)
        BY <1>1, <1>3, <1>4, <1>6, <1>8, <2>1, SecondPassed DEF a
      <3> QED BY <1>1, <1>6, <1>7, <2>1, <3>1
    <2>2. CASE ~a.insert
      <3>1. counted' \in Counts /\ FirstPass(A, c, counted')
        BY <1>1, <1>3, <1>4, <1>5, <1>6, <1>7, <1>8, <2>2, FirstPassed
      <3> QED BY <1>6, <2>2, <3>1
    <2> QED BY <2>1, <2>2
  <1>13. PassInv(A, R, c, counted')
    BY <1>10, <1>11, <1>12 DEF PassInv
  <1> QED BY <1>1, <1>6, <1>9, <1>12, <1>13, OneArray DEF c

(* An iteration of the second pass that inserts a piece: there is room.    *)
LEMMA Inserts ==
  ASSUME Sizes, MInv, PassPiece, adding.insert
  PROVE  MInv'
  <1> DEFINE A == Target
             a == adding
             c == adding'
             R == asked[adding.type]
             b == min(RegionEnd(rgn), adding.end)
             B == memblock_insert_region(A, a.idx, a.base, start(A, a.idx) - a.base)
  <1>1. /\ step = "pass" /\ InLoop /\ RegionEnd(rgn) > a.base /\ rgn.base > a.base
        /\ UNCHANGED <<finding, asked>>
    BY DEF PassPiece
  <1>2. /\ a \in Adding /\ a.type \in Types /\ counted \in Counts
        /\ A = memblock[a.type] /\ Sound(A)
        /\ PassRange(A, a) /\ Missing(A, R, a)
        /\ SecondPass(A, a, counted)
        /\ \A t \in Types : t # a.type => Quiet(t)
    BY <1>1, PassFacts
  <1>3. A.cnt \in 1 .. MAX_REGIONS /\ a.idx \in 0 .. A.cnt /\ a.base \in Nat /\ a.nr_new \in Nat
    BY <1>2, LocalFacts
  <1>4. a.idx \in Used(A) /\ a.idx + 2 \in Nat /\ a.nr_new + 1 \in Nat /\ a.nr_new + 1 # a.nr_new
    BY <1>1, <1>3, MemblockAssumption DEF InLoop, Used
  <1>5. /\ start(A, a.idx) < a.end /\ rgn = A.regions[a.idx] /\ rgn.base = start(A, a.idx)
        /\ RegionEnd(rgn) \in Nat
    <2>1. Filled(A)
      BY <1>2 DEF PassRange
    <2>2. RegionEnd(A.regions[a.idx]) \in Nat
      BY <1>2, <1>4, <2>1, EntryFacts
    <2> QED BY <1>1, <2>2 DEF InLoop, rgn, start
  <1>6. Seen(b, a.nr_new + 1) = After(Seen(a.base, a.nr_new), A.regions[a.idx], a.end)
    <2>1. ~(RegionEnd(rgn) <= a.base)
      BY <1>1, <1>3, <1>5
    <2> QED BY <1>1, <1>5, <2>1 DEF After, Seen
  <1> HIDE DEF b
  <1>7. /\ b \in Address /\ b <= a.end
        /\ stop(A, a.idx) <= b \/ b = a.end
        /\ start(A, a.idx) <= b /\ b <= stop(A, a.idx)
    <2>1. Sound(A) /\ a \in Adding /\ PassRange(A, a) /\ a.idx \in Used(A)
      BY <1>2, <1>4
    <2>2. start(A, a.idx) < a.end
      BY <1>5
    <2> HIDE DEF A, a
    <2>3. /\ b \in Address /\ b <= a.end
          /\ stop(A, a.idx) <= b \/ b = a.end
          /\ a.nr_new + 1 # a.nr_new => start(A, a.idx) <= b /\ b <= stop(A, a.idx)
      BY SMT, <1>6, <2>1, <2>2, Iterated
    <2> QED BY Zenon, <1>4, <2>3
  <1>8. /\ A.cnt < MAX_REGIONS
        /\ counted.at[a.idx - a.nr_new + 1] = Seen(b, a.nr_new + 1)
    <2> HIDE DEF A, a
    <2> QED BY <1>2, <1>4, <1>5, <1>6, RoomForPiece
  <1>9. /\ memblock' = [memblock EXCEPT ![a.type] = B]
        /\ adding' = [adding EXCEPT !.idx = a.idx + 2, !.base = b, !.nr_new = a.nr_new + 1]
        /\ UNCHANGED <<step, counted>>
    <2>1. ~(A.cnt >= MAX_REGIONS)
      BY <1>3, <1>8, MemblockAssumption
    <2> QED BY <1>2, <1>5, <2>1 DEF PassPiece, Advance, b
  <1>10. /\ c \in Adding
         /\ c.type = a.type /\ c.obase = a.obase /\ c.base = b /\ c.end = a.end
         /\ c.idx = a.idx + 2 /\ c.nr_new = a.nr_new + 1 /\ c.insert
    <2>1. c = [a EXCEPT !.idx = a.idx + 2, !.base = b, !.nr_new = a.nr_new + 1]
      BY <1>9
    <2>2. a \in Adding /\ b \in Address /\ a.insert
      BY <1>2, <1>7
    <2> HIDE DEF A, a, c
    <2> QED BY Zenon, <1>4, <2>1, <2>2 DEF Adding
  <1>11. Sound(B) /\ PieceInserted(A, B, a)
    <2>1. a.base < start(A, a.idx)
      BY <1>1, <1>3, <1>5
    <2> HIDE DEF A, a
    <2> QED BY <1>2, <1>4, <1>5, <1>8, <2>1, PieceFits
  <1> HIDE DEF B
  <1>12. /\ memblock' \in [Types -> Array] /\ memblock'[a.type] = B
         /\ \A t \in Types : t # a.type => memblock'[t] = memblock[t]
         /\ asked' = asked /\ asked \in [Types -> SUBSET Entry] /\ finding' \in Finding
    <2>1. memblock \in [Types -> Array] /\ B \in Array
      BY <1>11 DEF MInv, TypeInv, Sound
    <2>2. asked \in [Types -> SUBSET Entry] /\ finding \in Finding
      BY DEF MInv, TypeInv
    <2> QED BY <1>1, <1>2, <1>9, <2>1, <2>2
  <1>13. a.base < start(A, a.idx)
    BY <1>1, <1>3, <1>5
  <1> HIDE DEF A, a, c, R
  <1>14. PassRange(B, c)
    BY <1>2, <1>4, <1>7, <1>10, <1>11, <1>13, RangeInserted
  <1>15. Missing(B, R, c)
    BY <1>2, <1>4, <1>5, <1>7, <1>10, <1>11, <1>13, MissingInserted DEF a
  <1>16. SecondPass(B, c, counted)
    BY <1>2, <1>4, <1>5, <1>8, <1>10, <1>11, SecondInserted
  <1>17. PassInv(B, R, c, counted) /\ SoundArray(B)
    BY <1>10, <1>11, <1>14, <1>15, <1>16 DEF PassInv, SoundArray, PieceInserted
  <1> QED BY <1>1, <1>2, <1>9, <1>10, <1>12, <1>17, OneArray DEF c, R, a

(* What is left of the range is empty: then nothing is missing.            *)
LEMMA NothingMissing ==
  ASSUME NEW A, NEW R, NEW a \in Adding, Missing(A, R, a), a.insert \/ a.nr_new = 0,
         ~(a.base < a.end)
  PROVE  Holds(A, R)
  <1>1. a.base \in Nat /\ a.end \in Nat
    BY DEF Adding, Address
  <1> QED BY <1>1, MemblockAssumption DEF Missing, Holds

(* The second pass starts with what the first has recorded.                *)
LEMMA SecondBegins ==
  ASSUME NEW A, Sound(A), NEW a \in Adding, PassRange(A, a), NEW h \in Counts,
         FirstPass(A, a, h), ~(a.idx < A.cnt /\ start(A, a.idx) < a.end),
         NEW n, n = IF a.base < a.end THEN a.nr_new + 1 ELSE a.nr_new,
         A.cnt + n <= MAX_REGIONS,
         NEW c, c.idx = 0, c.nr_new = 0, c.base = a.obase, c.end = a.end,
         NEW g, g.at = h.at, g.stop = a.idx, g.nr_new = n
  PROVE  SecondPass(A, c, g)
  <1>1. A.cnt \in Nat /\ a.idx \in 0 .. A.cnt /\ a.end \in Nat /\ a.nr_new \in Nat /\ n \in Nat
    BY LocalFacts
  <1>2. h.at[a.idx].base = a.base /\ h.at[a.idx].nr_new = a.nr_new
    BY DEF FirstPass, Seen
  <1>3. \A k \in 0 .. g.stop : g.at[k].nr_new <= g.at[g.stop].nr_new
    BY <1>2 DEF FirstPass
  <1>4. Planned(g, c.end, A.cnt - c.nr_new)
    BY <1>1, <1>2, <1>3 DEF Planned
  <1>5. \A k \in 0 .. g.stop - 1 :
          start(A, k) < c.end /\ g.at[k + 1] = After(g.at[k], A.regions[k], c.end)
    BY DEF FirstPass
  <1>6. a.idx < A.cnt => c.end <= start(A, a.idx)
    <2>1. a.idx < A.cnt => a.idx \in Used(A)
      BY <1>1 DEF Used
    <2>2. a.idx < A.cnt => start(A, a.idx) \in Nat
      BY <2>1, Entries DEF Sound
    <2> QED BY <1>1, <2>2
  <1>7. Ahead(A, c.end, c.nr_new, 0, g)
    <2>1. \A k \in 0 .. g.stop - 1 : k + c.nr_new = k
      OBVIOUS
    <2>2. g.stop + c.nr_new = a.idx
      BY <1>1
    <2> QED BY <1>5, <1>6, <2>1, <2>2 DEF Ahead
  <1>8. g.at[0] = Seen(c.base, c.nr_new)
    BY DEF FirstPass
  <1>9. c.idx - c.nr_new = 0 /\ 0 <= 0 /\ 0 <= g.stop
    BY <1>1
  <1> QED BY <1>4, <1>7, <1>8, <1>9 DEF SecondPass

(* The end of the first pass.                                              *)
LEMMA Counted ==
  ASSUME MInv, CountRest
  PROVE  MInv'
  <1> USE MemblockAssumption
  <1> DEFINE A == Target
             a == adding
             c == adding'
             R == asked[adding.type]
             n == IF adding.base < adding.end THEN adding.nr_new + 1 ELSE adding.nr_new
  <1>1. /\ step = "pass" /\ ~InLoop /\ ~a.insert
        /\ step' = IF n = 0 THEN "idle"
                   ELSE IF A.cnt + n > MAX_REGIONS THEN "full" ELSE "pass"
        /\ adding' = [adding EXCEPT !.base = a.obase, !.idx = 0, !.nr_new = 0, !.insert = TRUE]
        /\ counted' = [counted EXCEPT !.stop = a.idx, !.nr_new = n]
        /\ UNCHANGED <<memblock, finding, asked>>
    BY DEF CountRest
  <1>2. /\ a \in Adding /\ a.type \in Types /\ counted \in Counts
        /\ A = memblock[a.type] /\ Sound(A) /\ SoundArray(A)
        /\ PassRange(A, a) /\ Missing(A, R, a) /\ FirstPass(A, a, counted)
        /\ \A t \in Types : t # a.type => Quiet(t)
    BY <1>1, PassFacts
  <1>3. /\ A.cnt \in 1 .. MAX_REGIONS /\ a.idx \in Nat /\ a.nr_new \in Nat
        /\ a.obase \in Nat /\ a.end \in Nat /\ a.obase < a.end /\ n \in Nat
    BY <1>2, LocalFacts
  <1>4. ~(a.idx < A.cnt /\ start(A, a.idx) < a.end)
    BY <1>1 DEF InLoop, rgn, start
  <1> HIDE DEF n
  <1>5. /\ c \in Adding
        /\ c.type = a.type /\ c.obase = a.obase /\ c.base = a.obase /\ c.end = a.end
        /\ c.idx = 0 /\ c.nr_new = 0 /\ c.insert
    <2>1. c = [a EXCEPT !.base = a.obase, !.idx = 0, !.nr_new = 0, !.insert = TRUE]
      BY <1>1
    <2>2. a \in Adding /\ 0 \in Nat
      BY <1>2
    <2> HIDE DEF A, a, c
    <2> QED BY Zenon, <2>1, <2>2 DEF Adding
  <1>6. /\ counted' \in Counts
        /\ counted'.at = counted.at /\ counted'.stop = a.idx /\ counted'.nr_new = n
    <2>1. counted' = [counted EXCEPT !.stop = a.idx, !.nr_new = n] /\ counted \in Counts
      BY <1>1, <1>2
    <2> QED BY Zenon, <1>3, <2>1 DEF Counts
  <1>7. /\ memblock'[a.type] = A /\ asked'[a.type] = R /\ finding' \in Finding
        /\ memblock' \in [Types -> Array] /\ asked' \in [Types -> SUBSET Entry]
    BY <1>1, <1>2 DEF MInv, TypeInv
  <1>8. Filled(A) /\ Merged(A, A.cnt)
    BY <1>1, <1>2 DEF PassRange
  <1>9. UNCHANGED <<memblock, asked>>
    BY <1>1
  <1> HIDE DEF A, a, c, R
  <1>10. CASE n = 0
    <2>1. a.nr_new = 0 /\ ~(a.base < a.end)
      BY <1>3, <1>10 DEF n, a
    <2>2. Exact(A, R)
      BY <1>2, <1>8, <2>1, NothingMissing DEF Exact
    <2>3. step' = "idle"
      BY <1>1, <1>10
    <2> QED BY <1>2, <1>5, <1>6, <1>7, <1>9, <2>2, <2>3, OneArray DEF c
  <1>11. CASE n # 0 /\ A.cnt + n > MAX_REGIONS
    <2>1. step' = "full"
      BY <1>1, <1>11 DEF A
    <2> QED BY <1>2, <1>5, <1>6, <1>7, <1>9, <2>1, OneArray DEF c
  <1>12. CASE n # 0 /\ ~(A.cnt + n > MAX_REGIONS)
    <2>1. step' = "pass"
      BY <1>1, <1>12 DEF A
    <2>2. PassRange(A, c)
      <3>1. \A k \in Used(A) : ~(k < c.idx)
        BY <1>5 DEF Used
      <3>2. c.obase <= c.base /\ c.base <= c.end /\ c.obase < c.end /\ c.idx <= A.cnt
        BY <1>3, <1>5
      <3> QED BY <1>8, <3>1, <3>2 DEF PassRange
    <2>3. Missing(A, R, c)
      BY <1>2, <1>5 DEF Missing
    <2>4. SecondPass(A, c, counted')
      <3>1. A.cnt + n <= MAX_REGIONS
        BY <1>3, <1>12
      <3> QED BY <1>2, <1>4, <1>5, <1>6, <3>1, SecondBegins DEF n, a
    <2>5. PassInv(A, R, c, counted')
      BY <1>5, <2>2, <2>3, <2>4 DEF PassInv
    <2> QED BY <1>2, <1>5, <1>6, <1>7, <1>9, <2>1, <2>5, OneArray DEF c
  <1> QED BY <1>10, <1>11, <1>12

(* The range that is left at the end of the second pass lies above the     *)
(* entries below idx and below the others.                                 *)
LEMMA RestFits ==
  ASSUME Sizes, NEW A, Sound(A), NEW a \in Adding, PassRange(A, a), A.cnt < MAX_REGIONS,
         ~(a.idx < A.cnt /\ start(A, a.idx) < a.end), a.base < a.end,
         NEW B, B = memblock_insert_region(A, a.idx, a.base, a.end - a.base)
  PROVE  /\ Sound(B) /\ Filled(B) /\ B.cnt = A.cnt + 1
         /\ \A x \in Nat : In(B, x) <=> In(A, x) \/ (a.base <= x /\ x < a.end)
  <1>1. /\ A.cnt \in Nat /\ a.idx \in 0 .. A.cnt /\ a.base \in Nat /\ a.end \in Nat
    BY LocalFacts
  <1>2. Filled(A) /\ a.base \in Address /\ a.end \in Address
    BY DEF PassRange, Adding
  <1>3. \A i \in Used(A) : start(A, i) \in Nat /\ stop(A, i) \in Nat /\ start(A, i) < stop(A, i)
    BY <1>2, EntryFacts
  <1>4. \A i \in Used(A) : i < a.idx => stop(A, i) <= a.base
    BY <1>1, <1>3 DEF PassRange
  <1>5. ASSUME NEW i \in Used(A), i >= a.idx PROVE a.end <= start(A, i)
    <2>1. a.idx \in Used(A) /\ a.idx < A.cnt
      BY <1>1, <1>5 DEF Used
    <2>2. a.end <= start(A, a.idx)
      BY <1>1, <1>3, <2>1
    <2>3. CASE i = a.idx
      BY <2>2, <2>3
    <2>4. CASE i > a.idx
      <3>1. stop(A, a.idx) <= start(A, i)
        BY <2>1, <2>4 DEF Sound, Apart
      <3> QED BY <1>1, <1>3, <2>1, <2>2, <3>1
    <2> QED BY <1>1, <1>5, <2>3, <2>4 DEF Used
  <1> QED BY <1>1, <1>2, <1>4, <1>5, Inserted

(* The end of the second pass: the rest of the range fits, and then the    *)
(* array holds what was asked for.                                         *)
LEMMA RestInserted ==
  ASSUME Sizes, MInv, InsertRest
  PROVE  MInv'
  <1> USE MemblockAssumption
  <1> DEFINE A == Target
             a == adding
             c == adding'
             R == asked[adding.type]
             B == memblock_insert_region(A, a.idx, a.base, a.end - a.base)
  <1>1. /\ step = "pass" /\ ~InLoop /\ a.insert /\ adding' = [adding EXCEPT !.i = 0]
        /\ UNCHANGED <<finding, asked, counted>>
    BY DEF InsertRest
  <1>2. /\ a \in Adding /\ a.type \in Types /\ counted \in Counts
        /\ A = memblock[a.type] /\ Sound(A) /\ SoundArray(A)
        /\ PassRange(A, a) /\ Missing(A, R, a) /\ SecondPass(A, a, counted)
        /\ \A t \in Types : t # a.type => Quiet(t)
    BY <1>1, PassFacts
  <1>3. A.cnt \in 1 .. MAX_REGIONS
    BY <1>2, LocalFacts
  <1>4. ~(a.idx < A.cnt /\ start(A, a.idx) < a.end)
    BY <1>1 DEF InLoop, rgn, start
  <1>5. c \in Adding /\ c.type = a.type /\ c.i = 0
    <2>1. c = [a EXCEPT !.i = 0]
      BY <1>1
    <2>2. a \in Adding /\ 0 \in Nat
      BY <1>2
    <2> HIDE DEF A, a, c
    <2> QED BY Zenon, <2>1, <2>2 DEF Adding
  <1>6. /\ asked' = asked /\ asked \in [Types -> SUBSET Entry] /\ finding' \in Finding
        /\ counted' = counted /\ memblock \in [Types -> Array]
    BY <1>1 DEF MInv, TypeInv
  <1>7. CASE a.base < a.end
    <2>1. A.cnt < MAX_REGIONS
      <3> HIDE DEF A, a
      <3> QED BY <1>2, <1>4, <1>7, RoomForRest
    <2>2. memblock' = [memblock EXCEPT ![a.type] = B] /\ step' = "merge"
      <3>1. ~(A.cnt >= MAX_REGIONS)
        BY <1>3, <2>1
      <3> QED BY <1>2, <1>7, <3>1 DEF InsertRest
    <2>3. /\ Sound(B) /\ Filled(B) /\ B.cnt = A.cnt + 1
          /\ \A x \in Nat : In(B, x) <=> In(A, x) \/ (a.base <= x /\ x < a.end)
      <3> HIDE DEF A, a
      <3> QED BY <1>2, <1>4, <1>7, <2>1, RestFits
    <2> HIDE DEF B
    <2>4. /\ memblock' \in [Types -> Array] /\ memblock'[a.type] = B
          /\ \A t \in Types : t # a.type => memblock'[t] = memblock[t]
      <3>1. B \in Array
        BY <2>3 DEF Sound
      <3> QED BY <1>2, <1>6, <2>2, <3>1
    <2> HIDE DEF A, a, c, R
    <2>5. Holds(B, R)
      <3>1. a.obase \in Nat /\ a.base \in Nat /\ a.end \in Nat /\ a.obase <= a.base
        BY <1>2, LocalFacts
      <3> SUFFICES ASSUME NEW x \in 0 .. PHYS_ADDR_MAX - 1
                   PROVE  In(B, x) <=> Covered(R, x)
        BY DEF Holds
      <3>2. /\ In(A, x) => Covered(R, x)
            /\ a.obase <= x /\ x < a.end => Covered(R, x)
            /\ Covered(R, x) /\ ~In(A, x) => x < a.end /\ a.base <= x
        BY <1>1, <1>2 DEF Missing
      <3>3. In(B, x) <=> In(A, x) \/ (a.base <= x /\ x < a.end)
        BY <2>3
      <3>4. a.base <= x => a.obase <= x
        BY <3>1
      <3> QED BY <3>2, <3>3, <3>4
    <2>6. MergeInv(B, R, c) /\ SoundArray(B)
      <3>1. 0 < B.cnt /\ \A i \in Used(B) : ~(i < 0)
        BY <1>3, <2>3 DEF Used
      <3> QED BY <1>5, <2>3, <2>5, <3>1 DEF MergeInv, Merged, SoundArray
    <2> QED BY <1>2, <1>5, <1>6, <2>2, <2>4, <2>6, OneArray DEF c, R, a
  <1>8. CASE ~(a.base < a.end)
    <2>1. memblock' = memblock /\ step' = IF a.nr_new = 0 THEN "idle" ELSE "merge"
      BY <1>8 DEF InsertRest
    <2> HIDE DEF A, a, c, R
    <2>2. Holds(A, R)
      BY <1>1, <1>2, <1>8, NothingMissing
    <2>3. CASE a.nr_new = 0
      <3>1. Exact(A, R)
        BY <1>2, <2>2, <2>3 DEF Exact, PassRange
      <3>2. step' = "idle"
        BY <2>1, <2>3
      <3> QED BY <1>2, <1>5, <1>6, <2>1, <3>1, <3>2, OneArray DEF c, R, a
    <2>4. CASE a.nr_new # 0
      <3>1. step' = "merge"
        BY <2>1, <2>4
      <3>2. MergeInv(A, R, c)
        <4>1. 0 < A.cnt /\ (\A i \in Used(A) : ~(i < 0)) /\ Filled(A)
          BY <1>2, <1>3 DEF Used, PassRange
        <4> QED BY <1>5, <2>2, <4>1 DEF MergeInv, Merged
      <3> QED BY <1>2, <1>5, <1>6, <2>1, <3>1, <3>2, OneArray DEF c, R, a
    <2> QED BY <2>3, <2>4
  <1> QED BY <1>7, <1>8

-----------------------------------------------------------------------------
(***************************************************************************)
(* The steps of memblock_merge_regions.                                    *)
(***************************************************************************)
(* Entry i and the next, which ends no lower, do not touch.                *)
LEMMA MergedFurther ==
  ASSUME NEW A, Sound(A), Filled(A), NEW i \in Used(A), i + 1 \in Used(A), Merged(A, i),
         stop(A, i) < start(A, i + 1)
  PROVE  Merged(A, i + 1)
  <1> USE MemblockAssumption
  <1>1. A.cnt \in Nat /\ \A k \in Used(A) : k \in Nat
    BY Entries DEF Sound, Used
  <1>2. \A k \in Used(A) : start(A, k) \in Nat /\ stop(A, k) \in Nat /\ start(A, k) < stop(A, k)
    BY EntryFacts
  <1> SUFFICES ASSUME NEW j \in Used(A), NEW k \in Used(A), j < k, j < i + 1
               PROVE  stop(A, j) < start(A, k)
    BY DEF Merged
  <1>3. CASE j < i
    BY <1>3 DEF Merged
  <1>4. CASE j = i /\ k = i + 1
    BY <1>4
  <1>5. CASE j = i /\ k > i + 1
    <2>1. stop(A, i + 1) <= start(A, k)
      BY <1>5 DEF Sound, Apart
    <2> QED BY <1>2, <1>5, <2>1
  <1> QED BY <1>1, <1>3, <1>4, <1>5

(* A step of memblock_merge_regions: its BUG_ON finds no overlap.          *)
LEMMA Merges ==
  ASSUME MInv, MergeApart \/ MergeNext \/ MergeDone
  PROVE  MInv'
  <1> USE MemblockAssumption
  <1> DEFINE A == Target
             a == adding
             c == adding'
             i == adding.i
             R == asked[adding.type]
  <1>1. step = "merge" /\ UNCHANGED <<finding, asked, counted>>
    BY DEF MergeApart, MergeNext, MergeDone
  <1>2. adding \in Adding /\ counted \in Counts
    BY DEF MInv, TypeInv
  <1>3. a.type \in Types /\ i \in Nat
    BY <1>2 DEF Adding
  <1>4. A = memblock[a.type] /\ Sound(A) /\ SoundArray(A)
    BY <1>3 DEF MInv, SoundArray, Target
  <1>5. Filled(A) /\ i < A.cnt /\ Merged(A, i) /\ Holds(A, R)
    BY <1>1 DEF MInv, MergeInv
  <1>6. A.cnt \in 1 .. MAX_REGIONS
    BY <1>4, Entries DEF Sound
  <1>7. i \in Used(A)
    BY <1>3, <1>5, <1>6 DEF Used
  <1>8. \A t \in Types : t # a.type => Quiet(t)
    BY DEF Quiet
  <1>9. /\ asked' = asked /\ asked \in [Types -> SUBSET Entry] /\ finding' \in Finding
        /\ counted' = counted /\ memblock \in [Types -> Array]
    BY <1>1 DEF MInv, TypeInv
  <1>10. ASSUME InMerge
         PROVE  /\ i + 1 \in Used(A) /\ i + 1 < A.cnt
                /\ RegionEnd(this) = stop(A, i) /\ next.base = start(A, i + 1)
                /\ stop(A, i) \in Nat /\ start(A, i + 1) \in Nat
                /\ stop(A, i) <= start(A, i + 1)
    <2>1. i + 1 \in Used(A) /\ i < i + 1 /\ i + 1 < A.cnt
      BY <1>3, <1>6, <1>10 DEF InMerge, Used
    <2>2. start(A, i + 1) \in Nat /\ stop(A, i) \in Nat
      BY <1>4, <1>7, <2>1, Entries DEF Sound
    <2>3. stop(A, i) <= start(A, i + 1)
      BY <1>4, <1>7, <2>1 DEF Sound, Apart
    <2> QED BY <2>1, <2>2, <2>3 DEF this, next, RegionEnd, start, stop
  <1>11. CASE MergeApart
    <2>1. InMerge /\ RegionEnd(this) # next.base
      BY <1>11 DEF MergeApart
    <2>2. stop(A, i) < start(A, i + 1) /\ ~(RegionEnd(this) > next.base)
      BY <1>10, <2>1
    <2>3. c = [a EXCEPT !.i = i + 1] /\ step' = "merge" /\ memblock' = memblock
      BY <1>1, <1>11, <2>2 DEF MergeApart
    <2>4. c \in Adding /\ c.type = a.type /\ c.i = i + 1
      <3>1. a \in Adding /\ i + 1 \in Nat
        BY <1>2, <1>3
      <3> HIDE DEF A, a, c, i
      <3> QED BY Zenon, <2>3, <3>1 DEF Adding
    <2> HIDE DEF A, a, c, i, R
    <2>5. Merged(A, i + 1)
      BY <1>4, <1>5, <1>7, <1>10, <2>1, <2>2, MergedFurther
    <2>6. MergeInv(A, R, c)
      BY <1>5, <1>10, <2>1, <2>4, <2>5 DEF MergeInv
    <2> QED BY <1>2, <1>3, <1>4, <1>8, <1>9, <2>3, <2>4, <2>6, OneArray DEF c, R, a
  <1>12. CASE MergeNext
    <2> DEFINE B == merge_next(A, i)
    <2>1. /\ InMerge /\ RegionEnd(this) = next.base
          /\ memblock' = [memblock EXCEPT ![a.type] = B]
          /\ c = a /\ step' = "merge"
      BY <1>1, <1>4, <1>12 DEF MergeNext
    <2>2. stop(A, i) = start(A, i + 1)
      BY <1>10, <2>1
    <2>3. /\ Sound(B) /\ Filled(B) /\ B.cnt = A.cnt - 1
          /\ \A x \in Nat : In(B, x) <=> In(A, x)
          /\ Merged(B, i)
      <3> HIDE DEF A, i
      <3> QED BY <1>4, <1>5, <1>7, <1>10, <2>1, <2>2, MergedNext
    <2> HIDE DEF B
    <2>4. /\ memblock' \in [Types -> Array] /\ memblock'[a.type] = B
          /\ \A t \in Types : t # a.type => memblock'[t] = memblock[t]
      <3>1. B \in Array
        BY <2>3 DEF Sound
      <3> QED BY <1>3, <1>9, <2>1, <3>1
    <2> HIDE DEF A, a, c, R
    <2>5. MergeInv(B, R, c) /\ SoundArray(B)
      <3>1. i < B.cnt /\ c.i = i
        BY <1>3, <1>6, <1>10, <2>1, <2>3 DEF a
      <3>2. Holds(B, R)
        BY <1>5, <2>3 DEF Holds
      <3> QED BY <2>3, <3>1, <3>2 DEF MergeInv, SoundArray
    <2> QED BY <1>2, <1>3, <1>8, <1>9, <2>1, <2>4, <2>5, OneArray DEF c, R, a
  <1>13. CASE MergeDone
    <2>1. ~InMerge /\ step' = "idle" /\ UNCHANGED <<memblock, adding>>
      BY <1>13 DEF MergeDone
    <2>2. Exact(A, R)
      <3>1. \A j, k \in Used(A) : j < k => j < i
        BY <1>3, <1>6, <2>1 DEF InMerge, Used
      <3> QED BY <1>5, <3>1 DEF Merged, Exact
    <2> HIDE DEF A, a, R
    <2> QED BY <1>2, <1>3, <1>4, <1>8, <1>9, <2>1, <2>2, OneArray DEF R, a
  <1> QED BY <1>11, <1>12, <1>13

-----------------------------------------------------------------------------
(***************************************************************************)
(* The call of memblock_add_range, between two other calls or at the end   *)
(* of memblock_alloc.  A range that is empty or begins past the last       *)
(* address changes nothing; the first range takes the place of the dummy   *)
(* entry, and the BUG_ON finds that the array held nothing.                *)
(***************************************************************************)
(* Nothing of the range lies past the last address once it is capped.      *)
LEMMA Capped ==
  ASSUME NEW base \in Address, NEW size \in Address,
         NEW sz, sz = memblock_cap_size(base, size), NEW R, NEW Q, Q = R \cup {Region(base, size)}
  PROVE  /\ sz \in Address /\ base + sz \in Address
         /\ \A x \in 0 .. PHYS_ADDR_MAX - 1 :
              Covered(Q, x) <=> Covered(R, x) \/ (base <= x /\ x < base + sz)
  <1> USE MemblockAssumption
  <1>1. sz \in Address /\ base + sz \in Address
    BY DEF memblock_cap_size, min, Address
  <1>2. \A x \in 0 .. PHYS_ADDR_MAX - 1 : base <= x /\ x < base + size <=> base <= x /\ x < base + sz
    BY DEF memblock_cap_size, min, Address
  <1>3. \A x : Covered(Q, x) <=> Covered(R, x) \/ (base <= x /\ x < base + size)
    <2>1. Region(base, size).base = base /\ Region(base, size).size = size
      BY DEF Region
    <2> QED BY <2>1 DEF Covered
  <1> QED BY <1>1, <1>2, <1>3

(* The first range takes the place of the dummy entry.                     *)
LEMMA FirstRange ==
  ASSUME Sizes, NEW A, Sound(A), Dummy(A), NEW base \in Address, NEW sz \in Address, sz # 0,
         base + sz \in Address,
         NEW B \in Array, B.cnt = A.cnt, B.total_size = sz, B.regions[0] = Region(base, sz)
  PROVE  /\ Sound(B) /\ Filled(B) /\ Merged(B, B.cnt)
         /\ \A x \in 0 .. PHYS_ADDR_MAX - 1 : In(B, x) <=> base <= x /\ x < base + sz
         /\ \A x \in 0 .. PHYS_ADDR_MAX - 1 : ~In(A, x)
         /\ A.cnt = 1 /\ A.total_size = 0
  <1> USE MemblockAssumption
  <1>1. A \in Array /\ A.cnt = 1 /\ A.regions \in [Slots -> Entry] /\ 0 \in Slots
    BY DEF Sound, Array, Dummy, Slots
  <1>2. \A x \in 0 .. PHYS_ADDR_MAX - 1 : ~In(A, x)
    BY <1>1 DEF Dummy, In, Used, start, stop
  <1>3. Cardinality(Held(A)) = 0 /\ A.total_size = 0
    <2>1. Held(A) = {}
      BY <1>2 DEF Held
    <2> QED BY <2>1 DEF Sound, Total, Sizes
  <1>4. Region(base, sz) \in Entry /\ sz \in Nat /\ base \in Nat /\ base + sz <= PHYS_ADDR_MAX
    BY DEF Region, Entry, Address
  <1>5. B.regions \in [Slots -> Entry]
    BY DEF Array
  <1>6. Region(base, sz).base = base /\ Region(base, sz).size = sz
    BY DEF Region
  <1>7. start(B, 0) = base /\ stop(B, 0) = base + sz /\ B.regions[0].size = sz
    BY <1>5, <1>6 DEF start, stop
  <1>8. Used(B) = {0}
    BY <1>1 DEF Used
  <1>9. \A x \in 0 .. PHYS_ADDR_MAX - 1 : In(B, x) <=> base <= x /\ x < base + sz
    BY <1>7, <1>8 DEF In
  <1>10. Apart(B) /\ Bounded(B) /\ Filled(B) /\ Merged(B, B.cnt)
    BY <1>4, <1>7, <1>8 DEF Apart, Bounded, Filled, Merged
  <1>11. Total(B)
    <2>1. base < base + sz /\ (base + sz) - base = sz
      BY <1>4
    <2>2. Cardinality(Held(B)) = Cardinality(Held(A)) + ((base + sz) - base)
      BY <1>2, <1>9, <2>1, HeldGrows
    <2> QED BY <1>3, <1>4, <2>1, <2>2 DEF Total
  <1> QED BY <1>1, <1>2, <1>3, <1>5, <1>9, <1>10, <1>11 DEF Sound

LEMMA RangeAdded ==
  ASSUME Sizes, MInv, step \in {"idle", "find"},
         NEW t \in Types, NEW base \in Address, NEW size \in Address,
         memblock_add_range(t, base, size), finding' \in Finding
  PROVE  MInv'
  <1> USE MemblockAssumption
  <1> DEFINE A == memblock[t]
             R == asked[t]
             Q == asked'[t]
             sz == memblock_cap_size(base, size)
  <1>1. /\ memblock \in [Types -> Array] /\ asked \in [Types -> SUBSET Entry]
        /\ adding \in Adding /\ counted \in Counts
    BY DEF MInv, TypeInv
  <1>2. \A u \in Types : Quiet(u)
    BY DEF Quiet
  <1>3. Sound(A) /\ SoundArray(A) /\ (Dummy(A) \/ Filled(A))
    BY DEF MInv, SoundArray
  <1>4. Exact(A, R)
    BY <1>2 DEF MInv
  <1>5. A.cnt \in 1 .. MAX_REGIONS
    BY <1>3, Entries DEF Sound
  <1>6. asked' = [asked EXCEPT ![t] = @ \cup {Region(base, size)}]
    BY DEF memblock_add_range
  <1>7. /\ asked' \in [Types -> SUBSET Entry] /\ Q = R \cup {Region(base, size)}
        /\ \A u \in Types : u # t => asked'[u] = asked[u]
    <2>1. Region(base, size) \in Entry
      BY DEF Region, Entry
    <2> QED BY <1>1, <1>6, <2>1
  <1>8. /\ sz \in Address /\ base + sz \in Address
        /\ \A x \in 0 .. PHYS_ADDR_MAX - 1 :
             Covered(Q, x) <=> Covered(R, x) \/ (base <= x /\ x < base + sz)
    BY <1>7, Capped
  <1> HIDE DEF sz, R, Q
  <1>9. CASE sz = 0
    <2>1. step' = "idle" /\ UNCHANGED <<memblock, adding, counted>>
      BY <1>9 DEF memblock_add_range, sz
    <2>2. \A x \in 0 .. PHYS_ADDR_MAX - 1 : ~(base <= x /\ x < base + sz)
      BY <1>9 DEF Address
    <2> HIDE DEF A
    <2>3. Exact(A, Q)
      BY <1>4, <1>8, <2>2 DEF Exact, Holds
    <2> QED BY Zenon, <1>1, <1>2, <1>3, <1>7, <2>1, <2>3, OneArray DEF A, Q
  <1>10. CASE sz # 0 /\ A.regions[0].size = 0
    <2> DEFINE B == [A EXCEPT !.regions = [A.regions EXCEPT ![0] = Region(base, sz)],
                              !.total_size = sz]
    <2>1. Dummy(A)
      <3>1. 0 \in Used(A) /\ ~(0 > 0)
        BY <1>5 DEF Used
      <3> QED BY <1>3, <1>10, <3>1 DEF Filled
    <2>2. /\ Sound(B) /\ Filled(B) /\ Merged(B, B.cnt)
          /\ \A x \in 0 .. PHYS_ADDR_MAX - 1 : In(B, x) <=> base <= x /\ x < base + sz
          /\ \A x \in 0 .. PHYS_ADDR_MAX - 1 : ~In(A, x)
          /\ A.cnt = 1 /\ A.total_size = 0
      <3> DEFINE first == [A.regions EXCEPT ![0] = Region(base, sz)]
      <3>1. A \in Array /\ sz \in Nat /\ A.regions \in [Slots -> Entry] /\ 0 \in Slots
        BY <1>3, <1>8, MemblockAssumption DEF Sound, Address, Array, Slots
      <3>2. Region(base, sz) \in Entry
        BY <1>8 DEF Region, Entry, Address
      <3>3. first \in [Slots -> Entry] /\ first[0] = Region(base, sz)
        BY <3>1, <3>2
      <3> HIDE DEF A, first
      <3>4. B = [A EXCEPT !.regions = first, !.total_size = sz]
        BY Zenon DEF first
      <3>5. B \in Array /\ B.cnt = A.cnt /\ B.total_size = sz /\ B.regions = first
        BY Zenon, <3>1, <3>3, <3>4 DEF Array
      <3> HIDE DEF B
      <3>6. B.regions[0] = Region(base, sz)
        BY Zenon, <3>3, <3>5
      <3> QED BY Zenon, <1>3, <1>8, <1>10, <2>1, <3>5, <3>6, FirstRange
    <2>3. memblock' = [memblock EXCEPT ![t] = B] /\ step' = "idle"
          /\ UNCHANGED <<adding, counted>>
      <3>1. /\ memblock' = [memblock EXCEPT ![t].regions = [@ EXCEPT ![0] = Region(base, sz)],
                                            ![t].total_size = sz]
            /\ step' = "idle" /\ UNCHANGED <<adding, counted>>
        BY <1>10, <2>2 DEF memblock_add_range, sz
      <3> QED BY Zenon, <1>1, <3>1
    <2> HIDE DEF B
    <2>4. /\ memblock' \in [Types -> Array] /\ memblock'[t] = B
          /\ \A u \in Types : u # t => memblock'[u] = memblock[u]
      <3>1. B \in Array
        BY <2>2 DEF Sound
      <3> QED BY <1>1, <2>3, <3>1
    <2> HIDE DEF A
    <2>5. Exact(B, Q) /\ SoundArray(B)
      <3>1. \A x \in 0 .. PHYS_ADDR_MAX - 1 : ~Covered(R, x)
        BY <1>4, <2>2 DEF Exact, Holds
      <3> QED BY <1>8, <2>2, <3>1 DEF Exact, Holds, SoundArray
    <2> QED BY Zenon, <1>1, <1>2, <1>7, <2>3, <2>4, <2>5, OneArray DEF Q
  <1>11. CASE sz # 0 /\ A.regions[0].size # 0
    <2> DEFINE c == adding'
    <2>1. /\ c = [type |-> t, obase |-> base, base |-> base, end |-> base + sz,
                  idx |-> 0, nr_new |-> 0, insert |-> FALSE, i |-> 0]
          /\ counted' = [counted EXCEPT !.at = [@ EXCEPT ![0] = Seen(base, 0)]]
          /\ step' = "pass" /\ memblock' = memblock
      BY <1>11 DEF memblock_add_range, sz
    <2>2. base < base + sz /\ base \in Nat /\ sz \in Nat
      BY <1>8, <1>11 DEF Address
    <2> HIDE DEF A
    <2>3. /\ c \in Adding /\ c.type = t /\ c.obase = base /\ c.base = base
          /\ c.end = base + sz /\ c.idx = 0 /\ c.nr_new = 0 /\ ~c.insert
      BY <1>8, <2>1 DEF Adding
    <2>4. counted' \in Counts /\ counted'.at[0] = Seen(base, 0)
      <3>1. Seen(base, 0) \in [base : Address, nr_new : Nat] /\ 0 \in 0 .. MAX_REGIONS
        BY DEF Seen
      <3> QED BY Zenon, <1>1, <2>1, <3>1 DEF Counts
    <2> HIDE DEF c
    <2>5. PassRange(A, c)
      <3>1. Filled(A) /\ Merged(A, A.cnt)
        BY <1>3, <1>4, <1>11 DEF Dummy, Exact, A
      <3>2. c.obase <= c.base /\ c.base <= c.end /\ c.obase < c.end /\ c.idx <= A.cnt
        BY <1>5, <2>2, <2>3
      <3>3. \A k \in Used(A) : ~(k < c.idx)
        BY <2>3 DEF Used
      <3> QED BY <3>1, <3>2, <3>3 DEF PassRange
    <2>6. Missing(A, Q, c)
      <3>1. \A x \in 0 .. PHYS_ADDR_MAX - 1 : In(A, x) <=> Covered(R, x)
        BY <1>4 DEF Exact, Holds
      <3> QED BY <1>8, <2>3, <3>1 DEF Missing
    <2>7. FirstPass(A, c, counted')
      <3>1. counted'.at[0].nr_new = 0
        BY <2>4 DEF Seen
      <3>2. /\ \A k \in 0 .. c.idx - 1 : FALSE
            /\ \A k \in 0 .. c.idx : counted'.at[k].nr_new <= c.nr_new
        BY <2>3, <3>1
      <3> QED BY <2>3, <2>4, <3>2 DEF FirstPass
    <2>8. PassInv(A, Q, c, counted')
      BY <2>3, <2>5, <2>6, <2>7 DEF PassInv
    <2> QED BY Zenon, <1>1, <1>2, <1>3, <1>7, <2>1, <2>3, <2>4, <2>8, OneArray DEF A, Q, c
  <1> QED BY <1>9, <1>10, <1>11

-----------------------------------------------------------------------------
(***************************************************************************)
(* Every step.                                                             *)
(***************************************************************************)
(* The search ends.                                                        *)
LEMMA SearchEnds ==
  ASSUME Sizes, MInv, FoundRange \/ NotFound
  PROVE  MInv'
  <1>1. step = "find"
    BY DEF FoundRange, NotFound
  <1>2. finding \in Finding
    BY DEF MInv, TypeInv
  <1>3. CASE FoundRange
    <2>1. AtRange /\ Fits /\ finding' = [finding EXCEPT !.found = cand]
      BY <1>3 DEF FoundRange
    <2>2. cand \in Address /\ finding.size \in Address /\ cand \in Nat
      BY <1>1, <2>1, CandFeasible, MemblockAssumption DEF Address
    <2>3. finding' \in Finding
      BY <1>2, <2>1, <2>2, Zenon DEF Finding
    <2>4. CASE cand = 0
      <3>1. step' = "panic" /\ UNCHANGED <<memblock, adding, asked, counted>>
        BY <1>3, <2>4 DEF FoundRange
      <3> QED BY <1>1, <2>3, <3>1, SearchStep
    <2>5. CASE cand # 0
      <3>1. memblock_add_range("reserved", cand, finding.size)
        BY <1>3, <2>5 DEF FoundRange
      <3> QED BY <1>1, <2>2, <2>3, <3>1, RangeAdded, Zenon DEF Types
    <2> QED BY <2>4, <2>5
  <1>4. CASE NotFound
    <2>1. step' = "panic" /\ UNCHANGED <<memblock, adding, finding, asked, counted>>
      BY <1>4 DEF NotFound
    <2> QED BY <1>1, <1>2, <2>1, SearchStep
  <1> QED BY <1>3, <1>4

(* The entry that an iteration looks at, as numbers.                       *)
LEMMA LoopFacts ==
  ASSUME MInv, step = "pass", InLoop
  PROVE  rgn.base \in Nat /\ RegionEnd(rgn) \in Nat /\ adding.base \in Nat
  <1>1. Target \in Array /\ adding \in Adding
    BY PassFacts DEF Sound
  <1>2. Target.cnt \in Nat /\ adding.idx \in Nat /\ adding.base \in Nat
    BY <1>1, Entries, MemblockAssumption DEF Adding, Address
  <1>3. adding.idx \in Used(Target)
    BY <1>2 DEF InLoop, Used
  <1>4. rgn.base \in Nat /\ rgn.size \in Nat
    BY <1>1, <1>3, Entries DEF rgn
  <1> QED BY <1>2, <1>4 DEF RegionEnd

LEMMA NextInv ==
  ASSUME Sizes, MInv, [MemblockNext]_mvars
  PROVE  MInv'
  <1>1. CASE UNCHANGED mvars
    <2>1. /\ memblock' = memblock /\ step' = step /\ adding' = adding /\ finding' = finding
          /\ asked' = asked /\ counted' = counted
      BY <1>1 DEF mvars
    <2>2. TypeInv' /\ \A t \in Types : Quiet(t)' => Quiet(t)
      BY <2>1 DEF MInv, TypeInv, Quiet
    <2>3. step = "find" => FindInv'
      BY <2>1 DEF MInv, FindInv, Feasible, m_end, r_end
    <2> QED BY <2>1, <2>2, <2>3 DEF MInv, Target
  <1>2. ASSUME NEW base \in 0 .. PHYS_ADDR_MAX, NEW size \in 0 .. PHYS_ADDR_MAX,
               memblock_add(base, size) \/ memblock_reserve(base, size)
        PROVE  MInv'
    <2>1. finding' \in Finding
      BY <1>2 DEF MInv, TypeInv, memblock_add, memblock_reserve
    <2>2. step = "idle" /\ \E t \in Types : memblock_add_range(t, base, size)
      BY <1>2 DEF memblock_add, memblock_reserve, Types
    <2> QED BY <2>1, <2>2, RangeAdded, Zenon DEF Address
  <1>3. ASSUME NEW size \in 1 .. PHYS_ADDR_MAX, NEW align \in 0 .. PHYS_ADDR_MAX,
               memblock_alloc(size, align)
        PROVE  MInv'
    BY <1>3, SearchBegins
  <1>4. CASE PassBelow
    <2>1. /\ step = "pass" /\ InLoop /\ UNCHANGED <<memblock, step, finding, asked>>
          /\ RegionEnd(rgn) <= adding.base
          /\ Advance(adding.idx + 1, adding.base, adding.nr_new)
      BY <1>4 DEF PassBelow
    <2>2. Seen(adding.base, adding.nr_new) = After(Seen(adding.base, adding.nr_new), rgn, adding.end)
      BY <2>1 DEF After, Seen
    <2> QED BY <2>1, <2>2, Passes, Zenon
  <1>5. CASE PassCovered
    <2>1. /\ step = "pass" /\ InLoop /\ UNCHANGED <<memblock, step, finding, asked>>
          /\ RegionEnd(rgn) > adding.base /\ rgn.base <= adding.base
          /\ Advance(adding.idx + 1, min(RegionEnd(rgn), adding.end), adding.nr_new)
      BY <1>5 DEF PassCovered
    <2>2. ~(RegionEnd(rgn) <= adding.base) /\ ~(rgn.base > adding.base)
      BY <2>1, LoopFacts
    <2>3. Seen(min(RegionEnd(rgn), adding.end), adding.nr_new)
            = After(Seen(adding.base, adding.nr_new), rgn, adding.end)
      BY <2>2 DEF After, Seen
    <2> QED BY <2>1, <2>3, Passes, Zenon
  <1>6. CASE PassPiece /\ adding.insert
    BY <1>6, Inserts
  <1>7. CASE PassPiece /\ ~adding.insert
    <2>1. /\ step = "pass" /\ InLoop /\ UNCHANGED <<memblock, step, finding, asked>>
          /\ RegionEnd(rgn) > adding.base /\ rgn.base > adding.base
          /\ Advance(adding.idx + 1, min(RegionEnd(rgn), adding.end), adding.nr_new + 1)
      BY <1>7 DEF PassPiece
    <2>2. ~(RegionEnd(rgn) <= adding.base)
      BY <2>1, LoopFacts
    <2>3. Seen(min(RegionEnd(rgn), adding.end), adding.nr_new + 1)
            = After(Seen(adding.base, adding.nr_new), rgn, adding.end)
      BY <2>1, <2>2 DEF After, Seen
    <2> QED BY <1>7, <2>1, <2>3, Passes, Zenon
  <1>8. CASE CountRest
    BY <1>8, Counted
  <1>9. CASE InsertRest
    BY <1>9, RestInserted
  <1>10. CASE MergeApart \/ MergeNext \/ MergeDone
    BY <1>10, Merges
  <1>11. CASE NextMemory \/ NextGap \/ NextRange
    BY <1>11, SearchGoesOn
  <1>12. CASE FoundRange \/ NotFound
    BY <1>12, SearchEnds
  <1> QED BY <1>1, <1>2, <1>3, <1>4, <1>5, <1>6, <1>7, <1>8, <1>9, <1>10, <1>11, <1>12
          DEF MemblockNext, MemblockStep
=============================================================================
