--------------------------- MODULE CertikosProofs ---------------------------
(***************************************************************************)
(* Proofs about CertiKOS, for any number of processes, children and pages. *)
(***************************************************************************)
EXTENDS CertikosRefinement, TLAPS

(***************************************************************************)
(* The inductive invariant.  Which pages a process reaches depends on the  *)
(* PMP, whose range is that of the current process only because the ring   *)
(* leads from one running process to another; that a page of a new process *)
(* was cleared matters only because no other process has it any more.      *)
(***************************************************************************)
ZeroFree == 0 \notin running

Inv == TypeOK /\ Partition /\ Ring /\ PmpCurrent /\ Confined /\ ZeroFree

(* Register updates stay within Context.                                   *)
LEMMA ContextUpdates ==
  ASSUME NEW k \in Context, NEW v \in Pid
  PROVE  /\ [k EXCEPT !.mepc = "after"] \in Context
         /\ [k EXCEPT !.mepc = "after"].regs = k.regs
         /\ [k EXCEPT !.mepc = "after"].csrs = k.csrs
         /\ [k EXCEPT !.regs = v, !.csrs = v] \in Context
         /\ [k EXCEPT !.regs = v, !.csrs = v].regs = v
         /\ [k EXCEPT !.regs = v, !.csrs = v].csrs = v
         /\ [k EXCEPT !.regs = v, !.csrs = v].mepc = k.mepc
         /\ [k EXCEPT !.regs = v, !.mepc = "payload"] \in Context
         /\ [k EXCEPT !.regs = v, !.mepc = "payload"].regs = v
         /\ [k EXCEPT !.regs = v, !.mepc = "payload"].csrs = k.csrs
         /\ [k EXCEPT !.regs = v, !.mepc = "payload"].mepc = "payload"
  BY Zenon DEF Context

LEMMA PublicIsPid == Public \in Pid /\ PID_IDLE \in Pid /\ PID_IDLE # Public
  BY ParamAssumption DEF Public, Pid, PID_IDLE

(* No BUG_ON of proc_switch fires in sys_yield.                            *)
LEMMA NextValid ==
  ASSUME Inv
  PROVE  ~(next[current_pid] >= NR_PROCS)
  <1>1. next[current_pid] \in 0 .. NR_PROCS - 1
    BY DEF Inv, TypeOK, Pid
  <1> QED
    BY <1>1, ParamAssumption

-----------------------------------------------------------------------------
(* Steps that keep processes and the current one.                          *)
KeepsProcs == UNCHANGED <<state, next, lower, upper, current_pid>>

LEMMA StructureKept ==
  ASSUME Partition, Ring, PmpCurrent, KeepsProcs
  PROVE  /\ Partition' /\ Ring'
         /\ pmp' = pmp /\ tlb' \subseteq pmp => PmpCurrent'
         /\ running' = running
         /\ \A p \in Pid : holds(p)' = holds(p)
  BY Zenon DEF Partition, Ring, PmpCurrent, KeepsProcs, running, holds

(* What the current process reaches are its own pages.                     *)
LEMMA Reach ==
  ASSUME Inv, NEW g \in accessible
  PROVE  g \in holds(current_pid) /\ g \in Page
  BY DEF Inv, PmpCurrent, accessible, holds, range

LEMMA RegsInv ==
  ASSUME Inv, KeepsProcs, UNCHANGED <<owner, saved, pages, pmp>>,
         ctx' \in Context, tlb' \subseteq pmp, halted' \in {"no", "shutdown", "bug"},
         may_hold(current_pid, ctx'.regs), may_hold(current_pid, ctx'.csrs)
  PROVE  Inv'
  <1>1. TypeOK'
    BY DEF Inv, TypeOK, KeepsProcs
  <1>2. Confined'
    <2>1. running' = running /\ \A p \in Pid : holds(p)' = holds(p)
      BY StructureKept DEF Inv
    <2>2. \A p \in running : p \in Pid
      BY DEF running
    <2>3. \A p \in running' : \A g \in holds(p)' : may_hold(p, pages'[g])
      BY <2>1, <2>2 DEF Inv, Confined
    <2> QED
      BY <2>3 DEF Inv, Confined, KeepsProcs, may_hold, Public
  <1> QED
    BY <1>1, <1>2, StructureKept DEF Inv, ZeroFree

LEMMA NoEffectInv ==
  ASSUME Inv, KeepsProcs, UNCHANGED <<owner, saved, pages, pmp, tlb, halted>>,
         ctx' = [ctx EXCEPT !.mepc = "after"] \/ ctx' = ctx
  PROVE  Inv'
  <1>1. ctx' \in Context /\ ctx'.regs = ctx.regs /\ ctx'.csrs = ctx.csrs
    <2>1. ctx \in Context
      BY DEF Inv, TypeOK
    <2> QED
      BY ZenonT(30), <2>1, ContextUpdates, PublicIsPid
  <1>2. tlb' \subseteq pmp /\ halted' \in {"no", "shutdown", "bug"}
    BY DEF Inv, TypeOK, PmpCurrent
  <1>3. may_hold(current_pid, ctx'.regs) /\ may_hold(current_pid, ctx'.csrs)
    BY <1>1 DEF Inv, Confined
  <1> QED
    BY <1>1, <1>2, <1>3, RegsInv

LEMMA LoadInv ==
  ASSUME Inv, load
  PROVE  Inv'
  <1>1. PICK g \in accessible :
          /\ tlb' = tlb \cup {g}
          /\ ctx' = IF pages[g] = Public THEN ctx
                    ELSE [ctx EXCEPT !.regs = pages[g], !.csrs = pages[g]]
    BY DEF load
  <1>2. g \in holds(current_pid) /\ g \in Page
    BY Reach
  <1>3. pages[g] \in Pid /\ may_hold(current_pid, pages[g])
    BY <1>2 DEF Inv, TypeOK, Confined, PmpCurrent
  <1>4. /\ ctx' \in Context
        /\ may_hold(current_pid, ctx'.regs) /\ may_hold(current_pid, ctx'.csrs)
    <2>1. ctx \in Context
      BY DEF Inv, TypeOK
    <2>2. CASE pages[g] = Public
      BY <1>1, <2>1, <2>2 DEF Inv, Confined
    <2>3. CASE pages[g] # Public
      <3>1. ctx' = [ctx EXCEPT !.regs = pages[g], !.csrs = pages[g]]
        BY <1>1, <2>3
      <3>2. ctx' \in Context /\ ctx'.regs = pages[g] /\ ctx'.csrs = pages[g]
        BY Zenon, <1>3, <2>1, <3>1, ContextUpdates
      <3> QED
        BY <1>3, <3>2
    <2> QED
      BY <2>2, <2>3
  <1>5. tlb' \subseteq pmp
    BY <1>1, <1>2 DEF Inv, PmpCurrent
  <1>6. /\ KeepsProcs /\ UNCHANGED <<owner, saved, pages, pmp>>
        /\ halted' \in {"no", "shutdown", "bug"}
    BY DEF load, KeepsProcs, proc, Inv, TypeOK
  <1> QED
    BY <1>4, <1>5, <1>6, RegsInv

LEMMA ComputeInv ==
  ASSUME Inv, compute
  PROVE  Inv'
  <1>1. /\ KeepsProcs /\ UNCHANGED <<owner, saved, pages, pmp, tlb>>
        /\ halted' \in {"no", "shutdown", "bug"}
        /\ ctx' = [ctx EXCEPT !.regs = current_pid, !.csrs = current_pid]
    BY DEF compute, KeepsProcs, proc
  <1>2. /\ ctx' \in Context
        /\ may_hold(current_pid, ctx'.regs) /\ may_hold(current_pid, ctx'.csrs)
    BY Zenon, <1>1, ContextUpdates DEF Inv, TypeOK, may_hold
  <1> QED
    BY <1>1, <1>2, RegsInv DEF Inv, PmpCurrent

LEMMA StoreInv ==
  ASSUME Inv, store
  PROVE  Inv'
  <1>1. PICK g \in accessible :
          tlb' = tlb \cup {g} /\ pages' = [pages EXCEPT ![g] = ctx.regs]
    BY Zenon DEF store
  <1>2. g \in holds(current_pid) /\ g \in Page
    BY Reach
  <1>3. KeepsProcs /\ UNCHANGED <<owner, saved, ctx, pmp, halted>>
    BY DEF store, KeepsProcs, proc
  <1>4. ctx.regs \in Pid
    BY DEF Inv, TypeOK, Context
  <1>5. pages' \in [Page -> Pid]
    BY Zenon, <1>1, <1>4 DEF Inv, TypeOK
  <1>6. TypeOK'
    BY <1>1, <1>2, <1>3, <1>5 DEF Inv, TypeOK, KeepsProcs
  <1>7. Partition' /\ Ring' /\ PmpCurrent' /\ running' = running
        /\ \A p \in Pid : holds(p)' = holds(p)
    BY <1>1, <1>2, <1>3, StructureKept DEF Inv, PmpCurrent
  <1>8. Confined'
    <2>1. ASSUME NEW p \in running, NEW h \in holds(p)
          PROVE  may_hold(p, pages'[h])
      <3>1. p \in Pid /\ h \in Page
        BY DEF running, holds, range
      <3>2. CASE h # g
        BY <1>1, <3>1, <3>2 DEF Inv, Confined, TypeOK
      <3>3. CASE h = g
        <4>1. p = current_pid
          BY <1>2, <3>1, <3>3 DEF Inv, Partition, TypeOK
        <4> QED
          BY <1>1, <1>2, <3>3, <4>1 DEF Inv, TypeOK, Confined
      <3> QED
        BY <3>2, <3>3
    <2>2. \A p \in running : p \in Pid
      BY DEF running
    <2> QED
      BY <1>3, <1>7, <2>1, <2>2 DEF Inv, Confined, KeepsProcs, may_hold, Public
  <1> QED
    BY <1>3, <1>6, <1>7, <1>8 DEF Inv, ZeroFree

-----------------------------------------------------------------------------
(* sys_yield: the ring leads to a process that runs, whose saved context   *)
(* is its own.                                                             *)
LEMMA YieldInv ==
  ASSUME Inv, sys_yield
  PROVE  Inv'
  <1> DEFINE n == next[current_pid]
             left == [ctx EXCEPT !.mepc = "after"]
  <1>1. n \in running /\ n \in Pid /\ current_pid \in Pid
    BY DEF Inv, Ring, PmpCurrent, running
  <1>2. n # 0
    <2>1. CASE n = 0
      <3>1. 0 \in running
        BY <1>1, <2>1
      <3> QED
        BY <3>1 DEF Inv, ZeroFree
    <2> QED
      BY <2>1
  <1>3. /\ left \in Context /\ left.regs = ctx.regs /\ left.csrs = ctx.csrs
        /\ saved' = [saved EXCEPT ![current_pid] = left]
        /\ current_pid' = n
        /\ UNCHANGED <<state, owner, next, lower, upper, pages, halted>>
    BY ContextUpdates, PublicIsPid, NextValid DEF Inv, TypeOK, sys_yield, bug_on
  <1>4. /\ pmp' = holds(n) /\ tlb' = {} /\ ctx' = saved'[n]
    BY DEF sys_yield, proc_switch, holds
  <1> HIDE DEF n, left
  <1>5. saved' \in [Pid -> Context]
    BY <1>1, <1>3 DEF Inv, TypeOK
  <1>6. TypeOK'
    BY <1>1, <1>2, <1>3, <1>4, <1>5 DEF Inv, TypeOK, holds, range
  <1>7. Partition' /\ Ring' /\ running' = running
    BY Zenon, <1>3 DEF Inv, Partition, Ring, running, holds
  <1>8. PmpCurrent'
    BY <1>1, <1>3, <1>4, <1>7 DEF PmpCurrent, holds
  <1>9. Confined'
    <2>1. \A p \in Pid : may_hold(p, saved'[p].regs) /\ may_hold(p, saved'[p].csrs)
      BY <1>1, <1>3 DEF Inv, Confined, TypeOK
    <2>2. \A p \in running' : \A g \in holds(p)' : may_hold(p, pages'[g])
      BY <1>3, <1>7 DEF Inv, Confined, holds
    <2> QED
      BY <1>1, <1>3, <1>4, <2>1, <2>2 DEF Confined, may_hold, Public
  <1> QED
    BY <1>3, <1>6, <1>7, <1>8, <1>9 DEF Inv, ZeroFree

(* What sys_spawn makes of the ranges and of the ring.                     *)
Splits(pid, lo) ==
  LET p == current_pid
  IN  /\ pid \in Pid /\ pid # 0 /\ pid \notin running
      /\ lo \in Int /\ lower[p] <= lo /\ lo <= upper[p]
      /\ UNCHANGED current_pid
      /\ state' = [state EXCEPT ![pid] = "RUN"]
      /\ next' = [next EXCEPT ![pid] = next[p], ![p] = pid]
      /\ lower' = [lower EXCEPT ![pid] = lo]
      /\ upper' = [upper EXCEPT ![pid] = upper[p], ![p] = lo]

LEMMA SpawnSplits ==
  ASSUME Inv, NEW quota \in Nat, NEW pid \in Nat, sys_spawn(quota, pid),
         spawn_err(quota, pid) = "SUCCESS"
  PROVE  /\ Splits(pid, upper[current_pid] - quota)
         /\ halted' = halted
         /\ pages' = [g \in Page |->
                        IF g \in range(upper[current_pid] - quota, upper[current_pid])
                          THEN Public ELSE pages[g]]
         /\ saved' = [saved EXCEPT ![pid].regs = Public, ![pid].mepc = "payload"]
         /\ pmp' = range(lower'[current_pid], upper'[current_pid]) /\ tlb' = {}
  <1>1. /\ ~(upper[current_pid] - lower[current_pid] < quota)
        /\ is_pid_valid(pid) /\ is_proc_free(pid)
    BY DEF spawn_err
  <1>2. /\ proc_new(pid, next[current_pid], upper[current_pid] - quota,
                    upper[current_pid])
        /\ halted' = halted
        /\ spawn_pmp /\ UNCHANGED current_pid
    BY <1>1, ParamAssumption DEF sys_spawn, bug_on, is_pid_valid
  <1>3. pid \in Pid /\ pid # 0 /\ pid \notin running
    BY <1>1, ParamAssumption DEF is_pid_valid, is_proc_free, running, Pid
  <1>4. lower[current_pid] \in Int /\ upper[current_pid] \in Int
    BY DEF Inv, TypeOK
  <1>5. LET lo == upper[current_pid] - quota
        IN  lo \in Int /\ lower[current_pid] <= lo /\ lo <= upper[current_pid]
    BY <1>1, <1>4
  <1> QED
    BY <1>2, <1>3, <1>5 DEF proc_new, spawn_pmp, Splits

LEMMA SplitRanges ==
  ASSUME Inv, NEW pid, NEW lo, Splits(pid, lo)
  PROVE  /\ lower' \in [Pid -> 0 .. NR_PAGES] /\ upper' \in [Pid -> 0 .. NR_PAGES]
         /\ holds(pid)' = range(lo, upper[current_pid])
         /\ holds(current_pid)' = holds(current_pid) \ range(lo, upper[current_pid])
         /\ range(lo, upper[current_pid]) \subseteq holds(current_pid)
         /\ \A q \in Pid \ {pid, current_pid} : holds(q)' = holds(q)
         /\ Partition'
  <1> DEFINE p == current_pid
             u == upper[p]
  <1>1. /\ p \in Pid /\ p \in running /\ pid # p /\ pid \in Pid
        /\ u \in 0 .. NR_PAGES /\ lower[p] \in 0 .. NR_PAGES
        /\ lo \in 0 .. NR_PAGES
    BY ParamAssumption DEF Inv, TypeOK, PmpCurrent, Splits
  <1>2. /\ lower' \in [Pid -> 0 .. NR_PAGES] /\ upper' \in [Pid -> 0 .. NR_PAGES]
        /\ \A q \in Pid : lower'[q] = IF q = pid THEN lo ELSE lower[q]
        /\ \A q \in Pid : upper'[q] = IF q = p THEN lo ELSE IF q = pid THEN u ELSE upper[q]
    BY <1>1 DEF Inv, TypeOK, Splits
  <1>3. lower[p] <= lo /\ lo <= u
    BY DEF Splits
  <1>4. /\ holds(pid)' = range(lo, u)
        /\ holds(p)' = range(lower[p], lo)
        /\ \A q \in Pid \ {pid, p} : holds(q)' = holds(q)
    BY <1>1, <1>2 DEF holds, range, Splits
  <1>5. /\ range(lower[p], lo) = holds(p) \ range(lo, u)
        /\ range(lo, u) \subseteq holds(p)
    BY <1>1, <1>3 DEF holds, range, Page
  <1>6. p' = p
    BY DEF Splits
  <1>7. Partition'
    <2>1. running' = running \cup {pid}
      BY <1>1 DEF Splits, running, Inv, TypeOK
    <2>2. \A g \in Page : \E q \in running' : g \in holds(q)'
      <3>1. SUFFICES ASSUME NEW g \in Page
                     PROVE  \E q \in running' : g \in holds(q)'
        OBVIOUS
      <3>2. PICK q \in running : g \in holds(q)
        BY DEF Inv, Partition
      <3>3. q \in Pid /\ q # pid
        BY DEF running, Splits
      <3> QED
        BY <1>1, <1>4, <1>5, <1>6, <2>1, <3>2, <3>3
    <2>3. ASSUME NEW q \in Pid, NEW r \in Pid, q # r
          PROVE  holds(q)' \cap holds(r)' = {}
      <3>1. /\ \A s \in Pid \ {pid} : holds(s)' \subseteq holds(s)
            /\ holds(pid)' \subseteq holds(p)
            /\ holds(pid)' \cap holds(p)' = {}
        BY <1>1, <1>4, <1>5, <1>6
      <3>2. /\ holds(q) \cap holds(r) = {}
            /\ q # p => holds(q) \cap holds(p) = {}
            /\ r # p => holds(r) \cap holds(p) = {}
        BY <1>1, <2>3 DEF Inv, Partition
      <3> QED
        BY <1>6, <2>3, <3>1, <3>2
    <2>4. \A q \in Pid : lower'[q] <= upper'[q]
      BY <1>1, <1>2, <1>3 DEF Inv, Partition
    <2>5. \A q \in Pid \ running' : lower'[q] = 0 /\ upper'[q] = 0
      BY <1>1, <1>2, <2>1 DEF Inv, Partition
    <2> QED
      BY <2>2, <2>3, <2>4, <2>5 DEF Partition
  <1> QED
    BY <1>1, <1>2, <1>4, <1>5, <1>7

(* A process inserted behind its parent leaves one ring: a set that is     *)
(* closed under the new links is, without the new process, closed under    *)
(* the old ones.                                                           *)
LEMMA SplitRing ==
  ASSUME Inv, NEW pid, NEW lo, Splits(pid, lo)
  PROVE  Ring' /\ running' = running \cup {pid} /\ next' \in [Pid -> Pid]
  <1> DEFINE p == current_pid
  <1>1. p \in running /\ pid \notin running /\ pid # p /\ p \in Pid /\ pid \in Pid
    BY DEF Inv, TypeOK, PmpCurrent, Splits
  <1>2. running' = running \cup {pid}
    BY <1>1 DEF Splits, running, Inv, TypeOK
  <1>3. /\ next' \in [Pid -> Pid]
        /\ \A q \in Pid : next'[q] = IF q = p THEN pid
                                     ELSE IF q = pid THEN next[p] ELSE next[q]
    BY <1>1 DEF Inv, TypeOK, Splits
  <1>4. \A q \in running : q \in Pid /\ next[q] \in running
    BY DEF Inv, Ring, running
  <1>5. \A q \in running' : next'[q] \in running'
    BY <1>1, <1>2, <1>3, <1>4
  <1>6. ASSUME NEW S \in SUBSET running', S # {}, \A q \in S : next'[q] \in S
        PROVE  S = running'
    <2> DEFINE T == S \ {pid}
    <2>1. T \in SUBSET running
      BY <1>2
    <2>2. T # {}
      <3>1. CASE pid \in S
        BY <1>1, <1>3, <1>4, <1>6, <3>1
      <3>2. CASE pid \notin S
        BY <1>6, <3>2
      <3> QED
        BY <3>1, <3>2
    <2>3. \A q \in T : next[q] \in T
      <3>1. SUFFICES ASSUME NEW q \in T PROVE next[q] \in T
        OBVIOUS
      <3>2. q \in running /\ q # pid /\ next[q] # pid
        BY <1>1, <1>4, <2>1
      <3>3. CASE q = p
        <4>1. pid \in S
          BY <1>1, <1>3, <1>6, <3>3
        <4>2. next[p] \in S
          BY <1>1, <1>3, <1>6, <4>1
        <4> QED
          BY <3>2, <3>3, <4>2
      <3>4. CASE q # p
        BY <1>3, <1>4, <1>6, <3>2, <3>4
      <3> QED
        BY <3>3, <3>4
    <2>4. T = running
      BY Zenon, <2>1, <2>2, <2>3 DEF Inv, Ring
    <2>5. pid \in S
      BY <1>1, <1>3, <1>6, <2>4
    <2> QED
      BY <1>2, <2>4, <2>5
  <1> QED
    BY <1>2, <1>3, <1>5, <1>6 DEF Ring

LEMMA SpawnInv ==
  ASSUME Inv, NEW quota \in Nat, NEW pid \in Nat, sys_spawn(quota, pid)
  PROVE  Inv'
  <1>1. CASE spawn_err(quota, pid) # "SUCCESS"
    <2>1. KeepsProcs /\ UNCHANGED <<owner, saved, pages, pmp, tlb, halted>>
      BY <1>1 DEF sys_spawn, proc, KeepsProcs
    <2>2. ctx' = [ctx EXCEPT !.mepc = "after"]
      BY DEF sys_spawn
    <2> QED
      BY <2>1, <2>2, NoEffectInv
  <1>2. CASE spawn_err(quota, pid) = "SUCCESS"
    <2> DEFINE p == current_pid
               lo == upper[p] - quota
               given == range(lo, upper[p])
    <2>1. /\ Splits(pid, lo)
          /\ halted' = halted
          /\ pages' = [g \in Page |-> IF g \in given THEN Public ELSE pages[g]]
          /\ saved' = [saved EXCEPT ![pid].regs = Public, ![pid].mepc = "payload"]
          /\ pmp' = range(lower'[p], upper'[p]) /\ tlb' = {}
      BY <1>2, SpawnSplits
    <2>2. ctx' = [ctx EXCEPT !.mepc = "after"] /\ owner' = owner
      BY <1>2 DEF sys_spawn
    <2>3. /\ p \in running /\ pid \notin running /\ pid # p /\ p \in Pid /\ pid \in Pid
          /\ pid # 0 /\ p' = p /\ state' = [state EXCEPT ![pid] = "RUN"]
      BY <2>1 DEF Inv, TypeOK, PmpCurrent, Splits
    <2>4. /\ lower' \in [Pid -> 0 .. NR_PAGES] /\ upper' \in [Pid -> 0 .. NR_PAGES]
          /\ holds(pid)' = given
          /\ holds(p)' = holds(p) \ given
          /\ given \subseteq holds(p)
          /\ \A q \in Pid \ {pid, p} : holds(q)' = holds(q)
          /\ Partition'
      BY <2>1, SplitRanges
    <2>5. Ring' /\ running' = running \cup {pid} /\ next' \in [Pid -> Pid]
      BY <2>1, SplitRing
    <2> HIDE DEF lo, given
    <2>6. ctx' \in Context /\ ctx'.regs = ctx.regs /\ ctx'.csrs = ctx.csrs
      BY Zenon, <2>2, ContextUpdates, PublicIsPid DEF Inv, TypeOK
    <2>7. /\ saved' \in [Pid -> Context]
          /\ saved'[pid].regs = Public /\ saved'[pid].csrs = saved[pid].csrs
          /\ \A q \in Pid \ {pid} : saved'[q] = saved[q]
      <3> DEFINE k == [saved[pid] EXCEPT !.regs = Public, !.mepc = "payload"]
      <3>1. saved[pid] \in Context
        BY <2>3 DEF Inv, TypeOK
      <3>2. k \in Context /\ k.regs = Public /\ k.csrs = saved[pid].csrs
        BY Zenon, <3>1, ContextUpdates, PublicIsPid
      <3>3. saved' = [saved EXCEPT ![pid] = k]
        BY Zenon, <2>1, <2>3 DEF Inv, TypeOK
      <3> HIDE DEF k
      <3> QED
        BY <2>3, <3>2, <3>3 DEF Inv, TypeOK
    <2>8. pmp' = holds(p)'
      BY <2>1, <2>3 DEF holds
    <2>9. TypeOK'
      <3>1. pages' \in [Page -> Pid]
        BY <2>1, PublicIsPid DEF Inv, TypeOK
      <3>2. state' \in [Pid -> {"FREE", "RUN"}]
        BY <2>3 DEF Inv, TypeOK
      <3>3. pmp' \in SUBSET Page /\ tlb' \in SUBSET Page
        BY <2>1, <2>8 DEF holds, range
      <3> QED
        BY <2>1, <2>2, <2>3, <2>4, <2>5, <2>6, <2>7, <3>1, <3>2, <3>3 DEF Inv, TypeOK
    <2>10. PmpCurrent'
      BY <2>1, <2>3, <2>5, <2>8 DEF PmpCurrent
    <2>11. Confined'
      <3>1. \A q \in Pid : may_hold(q, saved'[q].regs) /\ may_hold(q, saved'[q].csrs)
        BY <2>7 DEF Inv, Confined, may_hold
      <3>2. ASSUME NEW q \in running', NEW g \in holds(q)'
            PROVE  may_hold(q, pages'[g])
        <4>1. q \in Pid /\ g \in Page
          BY <3>2, <2>5, <2>3 DEF running, holds, range
        <4>2. CASE g \in given
          BY <2>1, <4>1, <4>2 DEF may_hold
        <4>3. CASE g \notin given
          <5>1. q # pid /\ q \in running /\ g \in holds(q)
            BY <2>3, <2>4, <2>5, <3>2, <4>1, <4>3
          <5> QED
            BY <2>1, <4>1, <4>3, <5>1 DEF Inv, Confined
        <4> QED
          BY <4>2, <4>3
      <3> QED
        BY <2>3, <2>6, <3>1, <3>2 DEF Inv, Confined, may_hold, Public
    <2>12. ZeroFree'
      BY <2>1, <2>3, <2>5 DEF Inv, ZeroFree
    <2> QED
      BY <2>4, <2>5, <2>9, <2>10, <2>11, <2>12 DEF Inv
  <1> QED
    BY <1>1, <1>2 DEF spawn_err

LEMMA InitInv == Init => Inv
  <1> SUFFICES ASSUME Init PROVE Inv
    OBVIOUS
  <1>1. /\ running = {PID_IDLE} /\ PID_IDLE \in Pid
        /\ holds(PID_IDLE) = Page
        /\ \A p \in Pid \ {PID_IDLE} : holds(p) = {}
    BY ParamAssumption, PublicIsPid DEF Init, running, holds, range, Page
  <1>2. TypeOK
    <2>1. owner \in [Pid -> Nat]
      <3>1. \A i \in Pid : i \div NR_CHILDREN \in Nat
        BY ParamAssumption DEF Pid
      <3> QED
        BY <3>1 DEF Init, PID_IDLE
    <2>2. Fresh \in Context
      BY PublicIsPid DEF Fresh, Context
    <2> QED
      BY <1>1, <2>1, <2>2, ParamAssumption, PublicIsPid
         DEF Init, TypeOK, Pid, Page, PID_IDLE, Public
  <1>3. Partition
    BY <1>1, ParamAssumption, PublicIsPid DEF Init, Partition, Pid
  <1>4. Ring
    BY <1>1 DEF Init, Ring
  <1>5. PmpCurrent
    BY <1>1 DEF Init, PmpCurrent
  <1>6. Confined
    BY <1>1 DEF Init, Confined, Fresh, may_hold, holds, range
  <1> QED
    BY <1>1, <1>2, <1>3, <1>4, <1>5, <1>6 DEF Inv, ZeroFree, Init, PID_IDLE

LEMMA NextInv == Inv /\ [Next]_vars => Inv'
  <1> SUFFICES ASSUME Inv, [Next]_vars PROVE Inv'
    OBVIOUS
  <1>1. CASE \E quota \in QuotaArg, pid \in PidArg : sys_spawn(quota, pid)
    BY <1>1, SpawnInv, ParamAssumption
  <1>2. CASE sys_yield
    BY <1>2, YieldInv
  <1>3. CASE sys_no_effect
    <2>1. KeepsProcs /\ UNCHANGED <<owner, saved, pages, pmp, tlb, halted>>
      BY <1>3 DEF sys_no_effect, KeepsProcs, proc
    <2>2. ctx' = [ctx EXCEPT !.mepc = "after"]
      BY <1>3 DEF sys_no_effect
    <2> QED
      BY <2>1, <2>2, NoEffectInv
  <1>4. CASE load
    BY <1>4, LoadInv
  <1>5. CASE store
    BY <1>5, StoreInv
  <1>6. CASE compute
    BY <1>6, ComputeInv
  <1>7. CASE shutdown
    <2>1. /\ KeepsProcs /\ UNCHANGED <<owner, saved, pages, pmp, tlb, ctx>>
          /\ halted' \in {"no", "shutdown", "bug"}
      BY <1>7 DEF shutdown, KeepsProcs, proc, cpu
    <2>2. /\ ctx' \in Context /\ tlb' \subseteq pmp
          /\ may_hold(current_pid, ctx'.regs) /\ may_hold(current_pid, ctx'.csrs)
      BY <2>1 DEF Inv, TypeOK, PmpCurrent, Confined
    <2> QED
      BY <2>1, <2>2, RegsInv
  <1>8. CASE UNCHANGED vars
    <2>1. KeepsProcs /\ UNCHANGED <<owner, saved, pages, pmp, tlb, halted, ctx>>
      BY <1>8 DEF vars, KeepsProcs, proc, cpu
    <2> QED
      BY <2>1, NoEffectInv
  <1> QED
    BY <1>1, <1>2, <1>3, <1>4, <1>5, <1>6, <1>7, <1>8 DEF Next, wait_for_interrupt

(* Every system call, yield and access keeps process table, ring, ranges,  *)
(* PMP and labels right together, for any number of pids and pages.        *)
THEOREM InductiveInvariant == Spec => []Inv
  BY InitInv, NextInv, PTL DEF Spec

-----------------------------------------------------------------------------
(* The process table, the machine and the labels have their types.         *)
THEOREM TypeCorrect == Spec => []TypeOK
  <1>1. Inv => TypeOK
    BY DEF Inv
  <1> QED
    BY <1>1, InductiveInvariant, PTL

(* sys_spawn splits the range of the parent exactly, whatever the quota.   *)
THEOREM PagesPartitioned == Spec => []Partition
  <1>1. Inv => Partition
    BY DEF Inv
  <1> QED
    BY <1>1, InductiveInvariant, PTL

(* sys_spawn keeps the scheduling ring whole.                              *)
THEOREM RingWhole == Spec => []Ring
  <1>1. Inv => Ring
    BY DEF Inv
  <1> QED
    BY <1>1, InductiveInvariant, PTL

(* sys_spawn and sys_yield leave the PMP and the TLB set up for the        *)
(* process that runs next.                                                 *)
THEOREM PmpIsCurrent == Spec => []PmpCurrent
  <1>1. Inv => PmpCurrent
    BY DEF Inv
  <1> QED
    BY <1>1, InductiveInvariant, PTL

(* No value of one process reaches another, for any interleaving of system *)
(* calls and memory accesses.                                              *)
THEOREM SecretsConfined == Spec => []Confined
  <1>1. Inv => Confined
    BY DEF Inv
  <1> QED
    BY <1>1, InductiveInvariant, PTL

-----------------------------------------------------------------------------
(* No step of one process changes another: the integrity of verif/ni.rkt.  *)
THEOREM OthersKept == Spec => Integrity
  <1> DEFINE Kept(p) == /\ p \in running'
                        /\ lower'[p] = lower[p]
                        /\ upper'[p] = upper[p]
                        /\ next'[p] = next[p]
                        /\ saved'[p] = saved[p]
                        /\ \A g \in holds(p) : pages'[g] = pages[g]
  <1>1. ASSUME Inv, Next, NEW p \in running \ {current_pid}
        PROVE  Kept(p)
    <2>1. p \in Pid /\ p # current_pid
      BY DEF running
    <2>2. CASE \E quota \in QuotaArg, pid \in PidArg : sys_spawn(quota, pid)
      <3>1. PICK quota \in QuotaArg, pid \in PidArg : sys_spawn(quota, pid)
        BY <2>2
      <3>2. quota \in Nat /\ pid \in Nat
        BY ParamAssumption
      <3>3. CASE spawn_err(quota, pid) # "SUCCESS"
        BY <2>1, <3>1, <3>3 DEF sys_spawn, proc, running
      <3>4. CASE spawn_err(quota, pid) = "SUCCESS"
        <4> DEFINE lo == upper[current_pid] - quota
                   given == range(lo, upper[current_pid])
        <4>1. /\ Splits(pid, lo)
              /\ pages' = [g \in Page |-> IF g \in given THEN Public ELSE pages[g]]
              /\ saved' = [saved EXCEPT ![pid].regs = Public, ![pid].mepc = "payload"]
          BY <1>1, <3>1, <3>2, <3>4, SpawnSplits
        <4>2. given \subseteq holds(current_pid)
          BY <1>1, <4>1, SplitRanges
        <4>3. p # pid
          BY <4>1 DEF Splits
        <4>4. p \in running' /\ lower'[p] = lower[p] /\ upper'[p] = upper[p]
                /\ next'[p] = next[p]
          BY <1>1, <2>1, <4>1, <4>3 DEF Splits, running, Inv, TypeOK
        <4>5. saved'[p] = saved[p]
          BY <1>1, <2>1, <4>1, <4>3 DEF Inv, TypeOK
        <4> HIDE DEF lo, given
        <4>6. \A g \in holds(p) : g \in Page /\ g \notin given
          BY <1>1, <2>1, <4>2 DEF Inv, TypeOK, Partition, holds, range
        <4> QED
          BY <4>1, <4>4, <4>5, <4>6
      <3> QED
        BY <3>3, <3>4
    <2>3. CASE sys_yield
      BY <1>1, <2>1, <2>3 DEF sys_yield, running, Inv, TypeOK
    <2>4. CASE sys_no_effect \/ load \/ compute \/ shutdown \/ wait_for_interrupt
      BY <2>1, <2>4 DEF sys_no_effect, load, compute, shutdown, wait_for_interrupt,
                        vars, proc, cpu, running
    <2>5. CASE store
      <3>1. PICK g \in accessible : pages' = [pages EXCEPT ![g] = ctx.regs]
        BY Zenon, <2>5 DEF store
      <3>2. g \in holds(current_pid) /\ g \in Page
        BY <1>1, <3>1, Reach
      <3>3. \A h \in holds(p) : h # g /\ h \in Page
        BY <1>1, <2>1, <3>2 DEF Inv, TypeOK, Partition, holds, range
      <3>4. UNCHANGED proc
        BY <2>5 DEF store
      <3> QED
        BY <1>1, <2>1, <3>1, <3>3, <3>4 DEF Inv, TypeOK, proc, running
    <2> QED
      BY <1>1, <2>2, <2>3, <2>4, <2>5 DEF Next
  <1>2. Inv /\ [Next]_vars => [\A p \in running \ {current_pid} : Kept(p)]_vars
    BY <1>1
  <1> QED
    BY <1>2, InductiveInvariant, PTL DEF Spec, Integrity
-----------------------------------------------------------------------------
(***************************************************************************)
(* The refinement.  sys_spawn clears the registers of the child but not    *)
(* its CSRs; verif/spec.rkt has the child start afresh.  The two agree     *)
(* because nobody ever saves anything for a process that does not exist.   *)
(***************************************************************************)
Untouched == \A p \in Pid \ running : saved[p] = Fresh

LEMMA SavedOnSpawn ==
  ASSUME Inv, NEW pid \in Pid, saved[pid] = Fresh,
         saved' = [saved EXCEPT ![pid].regs = Public, ![pid].mepc = "payload"]
  PROVE  saved'[pid] = Fresh /\ \A p \in Pid \ {pid} : saved'[p] = saved[p]
  <1> DEFINE k == [saved[pid] EXCEPT !.regs = Public, !.mepc = "payload"]
  <1>1. k = Fresh
    <2>1. saved[pid] \in Context /\ saved[pid].csrs = Public
      BY DEF Inv, TypeOK, Fresh
    <2>2. k \in Context /\ k.regs = Public /\ k.csrs = Public /\ k.mepc = "payload"
      BY Zenon, <2>1, ContextUpdates, PublicIsPid
    <2> HIDE DEF k
    <2> QED
      BY <2>2 DEF Context, Fresh
  <1>2. saved' = [saved EXCEPT ![pid] = k]
    BY Zenon DEF Inv, TypeOK
  <1> HIDE DEF k
  <1> QED
    BY <1>1, <1>2 DEF Inv, TypeOK

LEMMA UntouchedInv == Inv /\ Untouched /\ [Next]_vars => Untouched'
  <1> SUFFICES ASSUME Inv, Untouched, [Next]_vars
               PROVE  Untouched'
    OBVIOUS
  <1>1. ASSUME UNCHANGED <<state, saved>>
        PROVE  Untouched'
    BY <1>1 DEF Untouched, running
  <1>2. CASE \E quota \in QuotaArg, pid \in PidArg : sys_spawn(quota, pid)
    <2>1. PICK quota \in QuotaArg, pid \in PidArg : sys_spawn(quota, pid)
      BY <1>2
    <2>2. quota \in Nat /\ pid \in Nat
      BY ParamAssumption
    <2>3. CASE spawn_err(quota, pid) # "SUCCESS"
      BY <1>1, <2>1, <2>3 DEF sys_spawn, proc
    <2>4. CASE spawn_err(quota, pid) = "SUCCESS"
      <3>1. /\ Splits(pid, upper[current_pid] - quota)
            /\ saved' = [saved EXCEPT ![pid].regs = Public, ![pid].mepc = "payload"]
        BY <2>1, <2>2, <2>4, SpawnSplits
      <3>2. pid \in Pid \ running /\ running' = running \cup {pid}
        BY <3>1, SplitRing DEF Splits
      <3>3. \A p \in Pid \ {pid} : saved'[p] = saved[p]
        BY <3>1, <3>2, SavedOnSpawn DEF Untouched
      <3> QED
        BY <3>2, <3>3 DEF Untouched
    <2> QED
      BY <2>3, <2>4
  <1>3. CASE sys_yield
    BY <1>3 DEF sys_yield, Untouched, running, Inv, TypeOK, PmpCurrent
  <1>4. CASE sys_no_effect \/ load \/ store \/ compute \/ shutdown \/ UNCHANGED vars
    BY <1>1, <1>4 DEF sys_no_effect, load, store, compute, shutdown, vars, proc
  <1> QED
    BY <1>2, <1>3, <1>4 DEF Next, wait_for_interrupt

(* The mapping, process by process and page by page.                       *)
LEMMA Mapped ==
  /\ abs_regs = [p \in Pid |-> abs_regs[p]] /\ abs_regs' = [p \in Pid |-> abs_regs'[p]]
  /\ abs_owner = [g \in Page |-> abs_owner[g]] /\ abs_owner' = [g \in Page |-> abs_owner'[g]]
  /\ \A p \in Pid :
       /\ abs_regs[p] = IF p = current_pid THEN ctx ELSE saved[p]
       /\ abs_regs'[p] = IF p = current_pid' THEN ctx' ELSE saved'[p]
  BY DEF abs_regs, abs_owner

HolderOwns == \A g \in Page, p \in Pid : abs_owner[g] = p <=> g \in holds(p)

LEMMA OwnerIsHolder == Partition => HolderOwns
  <1> SUFFICES ASSUME Partition, NEW g \in Page, NEW p \in Pid
               PROVE  abs_owner[g] = p <=> g \in holds(p)
    BY DEF HolderOwns
  <1>1. \E q \in Pid : g \in holds(q)
    BY DEF Partition, running
  <1>2. abs_owner[g] = CHOOSE q \in Pid : g \in holds(q)
    BY DEF abs_owner
  <1>3. abs_owner[g] \in Pid /\ g \in holds(abs_owner[g])
    BY <1>1, <1>2
  <1> QED
    BY <1>3 DEF Partition

LEMMA OwnIsHeld ==
  ASSUME Inv
  PROVE  /\ Promise!own = holds(current_pid)
         /\ current_pid \in Pid /\ ctx \in Context /\ abs_regs[current_pid] = ctx
  <1>1. current_pid \in Pid /\ ctx \in Context
    BY DEF Inv, TypeOK
  <1>2. \A g \in Page : abs_owner[g] = current_pid <=> g \in holds(current_pid)
    BY <1>1, OwnerIsHolder DEF Inv, HolderOwns
  <1>3. Promise!own = holds(current_pid)
    BY <1>2 DEF Promise!own, holds, range
  <1> QED
    BY <1>1, <1>3, Mapped

(* A step that touches only the live registers.                            *)
LEMMA LiveRegs ==
  ASSUME Inv, UNCHANGED <<saved, current_pid>>
  PROVE  abs_regs' = [abs_regs EXCEPT ![current_pid] = ctx']
  BY Mapped, OwnIsHeld

LEMMA AfterEcall ==
  ASSUME Inv
  PROVE  Promise!after_ecall = [abs_regs EXCEPT ![current_pid] = [ctx EXCEPT !.mepc = "after"]]
  BY Mapped, OwnIsHeld DEF Promise!after_ecall

LEMMA SameOwners ==
  ASSUME UNCHANGED <<lower, upper>>
  PROVE  UNCHANGED abs_owner
  BY DEF abs_owner, holds

LEMMA NoEffectRefines ==
  ASSUME Inv, halted = "no", ctx' = [ctx EXCEPT !.mepc = "after"],
         UNCHANGED <<proc, pages, current_pid, halted>>
  PROVE  Promise!no_effect
  <1>1. abs_regs' = Promise!after_ecall
    BY LiveRegs, AfterEcall DEF proc
  <1> QED
    BY <1>1, SameOwners DEF Promise!no_effect, proc, running

LEMMA YieldRefines ==
  ASSUME Inv, sys_yield
  PROVE  Promise!yield
  <1> DEFINE n == next[current_pid]
             left == [ctx EXCEPT !.mepc = "after"]
  <1>1. /\ saved' = [saved EXCEPT ![current_pid] = left]
        /\ current_pid' = n /\ ctx' = saved'[n]
        /\ halted = "no" /\ UNCHANGED <<state, owner, next, lower, upper, pages, halted>>
    BY NextValid DEF sys_yield, proc_switch, bug_on
  <1>2. Promise!after_ecall = [abs_regs EXCEPT ![current_pid] = left]
    BY AfterEcall
  <1>3. n \in Pid /\ saved \in [Pid -> Context] /\ current_pid \in Pid
    BY DEF Inv, TypeOK
  <1> HIDE DEF n, left
  <1>4. \A p \in Pid : abs_regs'[p] = IF p = current_pid THEN left ELSE abs_regs[p]
    BY <1>1, <1>3, Mapped
  <1>5. abs_regs' = Promise!after_ecall
    BY <1>2, <1>3, <1>4, Mapped
  <1> QED
    BY <1>1, <1>5, SameOwners DEF Promise!yield, running, n

LEMMA SpawnRefines ==
  ASSUME Inv, Inv', Untouched, NEW quota \in Nat, NEW pid \in Nat, sys_spawn(quota, pid)
  PROVE  Promise!spawn \/ Promise!no_effect
  <1>1. CASE spawn_err(quota, pid) # "SUCCESS"
    BY <1>1, NoEffectRefines DEF sys_spawn
  <1>2. CASE spawn_err(quota, pid) = "SUCCESS"
    <2> DEFINE p == current_pid
               lo == upper[p] - quota
               gift == range(lo, upper[p])
               left == [ctx EXCEPT !.mepc = "after"]
    <2>1. /\ Splits(pid, lo)
          /\ halted' = halted
          /\ pages' = [g \in Page |-> IF g \in gift THEN Public ELSE pages[g]]
          /\ saved' = [saved EXCEPT ![pid].regs = Public, ![pid].mepc = "payload"]
      BY <1>2, SpawnSplits
    <2>2. /\ halted = "no" /\ owner' = owner /\ ctx' = left
          /\ owner[pid] = current_pid
      BY <1>2 DEF sys_spawn, spawn_err, is_pid_owned_by_current
    <2>3. /\ pid \in Pid \ running /\ pid # 0 /\ p \in Pid /\ pid # p
          /\ next' = [next EXCEPT ![pid] = next[p], ![p] = pid] /\ p' = p
      BY <2>1 DEF Splits, Inv, TypeOK, PmpCurrent
    <2>4. /\ holds(pid)' = gift /\ holds(p)' = holds(p) \ gift
          /\ gift \subseteq holds(p)
          /\ \A q \in Pid \ {pid, p} : holds(q)' = holds(q)
      BY <2>1, SplitRanges
    <2>5. running' = running \cup {pid}
      BY <2>1, SplitRing
    <2>6. saved'[pid] = Fresh /\ \A q \in Pid \ {pid} : saved'[q] = saved[q]
      BY <2>1, <2>3, SavedOnSpawn DEF Untouched
    <2>7. Promise!after_ecall = [abs_regs EXCEPT ![p] = left]
      BY AfterEcall
    <2> HIDE DEF lo, gift, left
    <2>8. \A q \in Pid : abs_regs'[q] = IF q = pid THEN Fresh
                                        ELSE IF q = p THEN left ELSE abs_regs[q]
      BY <2>2, <2>3, <2>6, Mapped
    <2>9. abs_regs' = [Promise!after_ecall EXCEPT ![pid] = Fresh]
      BY <2>3, <2>7, <2>8, Mapped
    <2>10. gift \in SUBSET Promise!own
      BY <2>4, OwnIsHeld
    <2>11. ASSUME NEW g \in Page
           PROVE  abs_owner'[g] = IF g \in gift THEN pid ELSE abs_owner[g]
      <3>1. /\ \A q \in Pid : abs_owner[g] = q <=> g \in holds(q)
            /\ \E q \in Pid : g \in holds(q)
        BY OwnerIsHolder DEF Inv, HolderOwns, Partition, running
      <3>2. \A q \in Pid : abs_owner'[g] = q <=> g \in holds(q)'
        <4>1. Partition'
          BY DEF Inv
        <4>2. HolderOwns'
          BY <4>1, OwnerIsHolder, PTL
        <4> QED
          BY <4>2 DEF HolderOwns
      <3>3. CASE g \in gift
        BY <2>3, <2>4, <3>2, <3>3
      <3>4. CASE g \notin gift
        <4>1. PICK q \in Pid : g \in holds(q)
          BY <3>1
        <4>2. q # pid
          BY <2>3, <4>1 DEF Inv, Partition, holds, range, Page
        <4>3. g \in holds(q)'
          BY <2>3, <2>4, <3>4, <4>1, <4>2
        <4> QED
          BY <3>1, <3>2, <3>4, <4>1, <4>3
      <3> QED
        BY <3>3, <3>4
    <2>12. abs_owner' = [g \in Page |-> IF g \in gift THEN pid ELSE abs_owner[g]]
      BY <2>11, Mapped
    <2> QED
      BY <2>1, <2>2, <2>3, <2>5, <2>9, <2>10, <2>12 DEF Promise!spawn
  <1> QED
    BY <1>1, <1>2 DEF spawn_err

LEMMA LoadRefines ==
  ASSUME Inv, load
  PROVE  [Promise!read]_(Promise!vars)
  <1>1. PICK g \in accessible :
          ctx' = IF pages[g] = Public THEN ctx
                 ELSE [ctx EXCEPT !.regs = pages[g], !.csrs = pages[g]]
    BY DEF load
  <1>2. /\ halted = "no" /\ UNCHANGED <<running, owner, next, pages, current_pid, halted, saved>>
        /\ UNCHANGED abs_owner
    BY SameOwners DEF load, proc, running
  <1>3. g \in Promise!own
    BY <1>1, Reach, OwnIsHeld
  <1>4. abs_regs' = [abs_regs EXCEPT ![current_pid] = ctx']
    BY <1>2, LiveRegs
  <1>5. CASE pages[g] = Public
    <2>1. abs_regs' = abs_regs
      BY <1>1, <1>4, <1>5, OwnIsHeld, Mapped
    <2> QED
      BY <1>2, <2>1 DEF Promise!vars
  <1>6. CASE pages[g] # Public
    <2>1. ctx' = [ctx EXCEPT !.regs = pages[g], !.csrs = pages[g]]
      BY <1>1, <1>6
    <2>2. abs_regs' = [abs_regs EXCEPT ![current_pid].regs = pages[g],
                                       ![current_pid].csrs = pages[g]]
      BY <1>4, <2>1, OwnIsHeld, Mapped
    <2> QED
      BY <1>2, <1>3, <2>2 DEF Promise!read
  <1> QED
    BY <1>5, <1>6

LEMMA StoreRefines ==
  ASSUME Inv, store
  PROVE  Promise!write
  <1>1. PICK g \in accessible : pages' = [pages EXCEPT ![g] = ctx.regs]
    BY Zenon DEF store
  <1>2. g \in Promise!own /\ abs_regs[current_pid] = ctx
    BY <1>1, Reach, OwnIsHeld
  <1>3. /\ halted = "no" /\ UNCHANGED <<running, owner, next, current_pid, halted>>
        /\ UNCHANGED <<abs_owner, abs_regs>>
    BY SameOwners DEF store, proc, running, abs_regs
  <1> QED
    BY <1>1, <1>2, <1>3 DEF Promise!write

LEMMA ComputeRefines ==
  ASSUME Inv, compute
  PROVE  Promise!write_regs
  <1>1. /\ halted = "no" /\ UNCHANGED <<running, owner, next, pages, current_pid, halted, saved>>
        /\ UNCHANGED abs_owner
        /\ ctx' = [ctx EXCEPT !.regs = current_pid, !.csrs = current_pid]
    BY SameOwners DEF compute, proc, running
  <1>2. abs_regs' = [abs_regs EXCEPT ![current_pid] = ctx']
    BY <1>1, LiveRegs
  <1>3. abs_regs' = [abs_regs EXCEPT ![current_pid].regs = current_pid,
                                     ![current_pid].csrs = current_pid]
    BY <1>1, <1>2, OwnIsHeld, Mapped
  <1> QED
    BY <1>1, <1>3 DEF Promise!write_regs

(* The system calls of traps.c, the process table, its page ranges and the *)
(* PMP implement verif/spec.rkt, for any number of processes and pages.    *)
THEOREM ImplementsSpec == Spec => Refinement
  <1>1. Init => Promise!Init /\ Untouched
    <2> SUFFICES ASSUME Init PROVE Promise!Init /\ Untouched
      OBVIOUS
    <2>1. running = {PID_IDLE} /\ holds(PID_IDLE) = Page /\ PID_IDLE \in Pid
      BY ParamAssumption, PublicIsPid DEF Init, running, holds, range, Page
    <2>2. Inv
      BY InitInv
    <2>3. abs_owner = [g \in Page |-> PID_IDLE]
      BY <2>1, <2>2, OwnerIsHolder, Mapped DEF Inv, HolderOwns
    <2>4. abs_regs = [p \in Pid |-> Fresh] /\ Untouched
      BY DEF Init, abs_regs, Untouched
    <2>5. owner \in [Pid -> Nat]
      BY <2>2 DEF Inv, TypeOK
    <2> QED
      BY <2>1, <2>3, <2>4, <2>5 DEF Init, Promise!Init
  <1>2. Inv /\ Inv' /\ Untouched /\ [Next]_vars => [Promise!Next]_(Promise!vars)
    <2> SUFFICES ASSUME Inv, Inv', Untouched, [Next]_vars
                 PROVE  [Promise!Next]_(Promise!vars)
      OBVIOUS
    <2> USE DEF Promise!Next
    <2>1. CASE \E quota \in QuotaArg, pid \in PidArg : sys_spawn(quota, pid)
      BY <2>1, SpawnRefines, ParamAssumption
    <2>2. CASE sys_yield
      BY <2>2, YieldRefines
    <2>3. CASE sys_no_effect
      BY <2>3, NoEffectRefines DEF sys_no_effect
    <2>4. CASE load
      BY <2>4, LoadRefines
    <2>5. CASE store
      BY <2>5, StoreRefines
    <2>6. CASE compute
      BY <2>6, ComputeRefines
    <2>7. CASE shutdown
      <3>1. Promise!off
        BY <2>7, SameOwners DEF shutdown, Promise!off, proc, cpu, running, abs_regs
      <3> QED
        BY <3>1
    <2>8. CASE UNCHANGED vars
      BY <2>8, SameOwners DEF vars, proc, cpu, Promise!vars, running, abs_regs
    <2> QED
      BY <2>1, <2>2, <2>3, <2>4, <2>5, <2>6, <2>7, <2>8 DEF Next, wait_for_interrupt
  <1> QED
    BY <1>1, <1>2, UntouchedInv, InductiveInvariant, PTL
       DEF Spec, Promise!Spec, Refinement
=============================================================================
