------------------------------ MODULE Certikos ------------------------------
(***************************************************************************)
(* The port of CertiKOS (monitors/certikos): processes that are spawned by *)
(* their parents out of their own quota of pages, take turns by yielding,  *)
(* and are kept apart by the PMP.                                          *)
(*                                                                         *)
(* The monitor runs on one hart, in M-mode, with no interrupts enabled: a  *)
(* system call is handled without interruption, so each is one action.     *)
(* What interleaves is the system calls and memory accesses of processes.  *)
(***************************************************************************)
EXTENDS Integers, FiniteSets

CONSTANTS
  NR_PROCS, NR_CHILDREN, NR_PAGES,
  PidArg, QuotaArg   \* what processes pass to sys_spawn, valid or not

PID_IDLE == 1

ASSUME ParamAssumption ==
  /\ NR_PROCS \in Nat /\ NR_PROCS > PID_IDLE
  /\ NR_CHILDREN \in Nat /\ NR_CHILDREN > 0
  /\ NR_PAGES \in Nat
  /\ PidArg \subseteq Nat /\ QuotaArg \subseteq Nat

VARIABLES
  state,        \* procs[i].state
  owner,        \* procs[i].owner
  next,         \* procs[i].next
  lower,        \* procs[i].lower
  upper,        \* procs[i].upper
  saved,        \* procs[i].cpu and the CSRs beside it
  pages,        \* what the pages hold
  current_pid,
  ctx,          \* the live registers and CSRs of S-mode, and mepc
  pmp,          \* the pages between pmpaddr0 and pmpaddr1
  tlb,          \* pages whose access check may be cached with a translation
  halted        \* "no", "shutdown", or "bug" once a BUG_ON has fired

proc == <<state, owner, next, lower, upper, saved>>
cpu == <<ctx, pmp, tlb>>
vars == <<proc, pages, current_pid, cpu, halted>>

(* A value is abstracted to the process it is a secret of, or Public: no   *)
(* process has pid 0.                                                      *)
Pid == 0 .. NR_PROCS - 1
Page == 0 .. NR_PAGES - 1
Public == 0
Context == [regs: Pid, csrs: Pid, mepc: {"payload", "after"}]
Fresh == [regs |-> Public, csrs |-> Public, mepc |-> "payload"]

range(lo, up) == {g \in Page : lo <= g /\ g < up}

holds(p) == range(lower[p], upper[p])

-----------------------------------------------------------------------------
(***************************************************************************)
(* proc.c.                                                                 *)
(***************************************************************************)
is_pid_valid(pid) == pid > 0 /\ pid < NR_PROCS

is_proc_free(pid) == state[pid] = "FREE"

is_pid_owned_by_current(pid) == owner[pid] = current_pid

(* The state after proc_init, and after user_init has made the idle        *)
(* process, with all pages, and switched to it.                            *)
Init ==
  /\ state = [i \in Pid |-> IF i = PID_IDLE THEN "RUN" ELSE "FREE"]
  /\ owner = [i \in Pid |-> IF i >= NR_CHILDREN THEN i \div NR_CHILDREN ELSE PID_IDLE]
  /\ next = [i \in Pid |-> IF i = PID_IDLE THEN PID_IDLE ELSE 0]
  /\ lower = [i \in Pid |-> 0]
  /\ upper = [i \in Pid |-> IF i = PID_IDLE THEN NR_PAGES ELSE 0]
  /\ saved = [i \in Pid |-> Fresh]
  /\ pages = [g \in Page |-> Public]
  /\ current_pid = PID_IDLE
  /\ ctx = Fresh
  /\ pmp = Page
  /\ tlb = {}
  /\ halted = "no"

(* Mutation: the pages of the child are not cleared.                       *)
proc_new_uncleared(pid, nxt, lo, up) ==
  /\ state' = [state EXCEPT ![pid] = "RUN"]
  /\ next' = [next EXCEPT ![pid] = nxt, ![current_pid] = pid]
  /\ lower' = [lower EXCEPT ![pid] = lo]
  /\ upper' = [upper EXCEPT ![pid] = up, ![current_pid] = lo]
  /\ saved' = [saved EXCEPT ![pid].regs = Public, ![pid].mepc = "payload"]
  /\ UNCHANGED pages

(* Mutation: the parent does not point to the child.                       *)
proc_new_unlinked(pid, nxt, lo, up) ==
  /\ state' = [state EXCEPT ![pid] = "RUN"]
  /\ next' = [next EXCEPT ![pid] = nxt]
  /\ lower' = [lower EXCEPT ![pid] = lo]
  /\ upper' = [upper EXCEPT ![pid] = up, ![current_pid] = lo]
  /\ saved' = [saved EXCEPT ![pid].regs = Public, ![pid].mepc = "payload"]
  /\ pages' = [g \in Page |-> IF g \in range(lo, up) THEN Public ELSE pages[g]]

(* Mutation: the child points to its parent, not to the parent's next.     *)
proc_new_misplaced(pid, nxt, lo, up) ==
  /\ state' = [state EXCEPT ![pid] = "RUN"]
  /\ next' = [next EXCEPT ![pid] = current_pid, ![current_pid] = pid]
  /\ lower' = [lower EXCEPT ![pid] = lo]
  /\ upper' = [upper EXCEPT ![pid] = up, ![current_pid] = lo]
  /\ saved' = [saved EXCEPT ![pid].regs = Public, ![pid].mepc = "payload"]
  /\ pages' = [g \in Page |-> IF g \in range(lo, up) THEN Public ELSE pages[g]]

(* proc_new as sys_spawn calls it: the parent's upper end and next are     *)
(* assigned before and after the call.  The CSRs of the child are left as  *)
(* they are.                                                               *)
proc_new(pid, nxt, lo, up) ==
  /\ state' = [state EXCEPT ![pid] = "RUN"]
  /\ next' = [next EXCEPT ![pid] = nxt, ![current_pid] = pid]
  /\ lower' = [lower EXCEPT ![pid] = lo]
  /\ upper' = [upper EXCEPT ![pid] = up, ![current_pid] = lo]
  /\ saved' = [saved EXCEPT ![pid].regs = Public, ![pid].mepc = "payload"]
  /\ pages' = [g \in Page |-> IF g \in range(lo, up) THEN Public ELSE pages[g]]

(* BUG_ON: panic() stops the machine for good.                             *)
bug_on(cond) == halted' = IF cond THEN "bug" ELSE halted

-----------------------------------------------------------------------------
(***************************************************************************)
(* System calls (traps.c).                                                 *)
(***************************************************************************)
(* Mutation: the quota is off by one.                                      *)
spawn_err_quota(quota, pid) ==
  IF \/ upper[current_pid] - lower[current_pid] + 1 < quota
     \/ ~is_pid_valid(pid)
     \/ ~is_pid_owned_by_current(pid)
     \/ ~is_proc_free(pid)
    THEN "EINVAL" ELSE "SUCCESS"

(* Mutation: pid 0 passes for a process.                                   *)
spawn_err_pid_zero(quota, pid) ==
  IF \/ upper[current_pid] - lower[current_pid] < quota
     \/ ~(pid < NR_PROCS)
     \/ ~is_pid_owned_by_current(pid)
     \/ ~is_proc_free(pid)
    THEN "EINVAL" ELSE "SUCCESS"

(* What sys_spawn answers.                                                 *)
spawn_err(quota, pid) ==
  IF \/ upper[current_pid] - lower[current_pid] < quota
     \/ ~is_pid_valid(pid)
     \/ ~is_pid_owned_by_current(pid)
     \/ ~is_proc_free(pid)
    THEN "EINVAL" ELSE "SUCCESS"

(* Mutation: the PMP is not switched after the parent's range shrank.      *)
spawn_pmp_stale ==
  UNCHANGED <<pmp, tlb>>

(* sys_spawn switches the PMP and flushes the TLB at its end.              *)
spawn_pmp ==
  /\ pmp' = range(lower'[current_pid], upper'[current_pid])
  /\ tlb' = {}

sys_spawn(quota, pid) ==
  /\ halted = "no"
  /\ \/ /\ spawn_err(quota, pid) # "SUCCESS"
        /\ UNCHANGED <<proc, pages, pmp, tlb, halted>>
     \/ /\ spawn_err(quota, pid) = "SUCCESS"
        /\ proc_new(pid, next[current_pid], upper[current_pid] - quota,
                    upper[current_pid])
        /\ bug_on(pid >= NR_PROCS \/ ~is_proc_free(pid))
        /\ spawn_pmp
        /\ UNCHANGED owner
  /\ ctx' = [ctx EXCEPT !.mepc = "after"]
  /\ UNCHANGED current_pid

(* Mutation: the TLB is not flushed.                                       *)
proc_switch_unflushed(pid) ==
  /\ pmp' = range(lower[pid], upper[pid])
  /\ UNCHANGED tlb
  /\ ctx' = saved'[pid]

(* Mutation: mepc is not restored.                                         *)
proc_switch_keeps_mepc(pid) ==
  /\ pmp' = range(lower[pid], upper[pid])
  /\ tlb' = {}
  /\ ctx' = [saved'[pid] EXCEPT !.mepc = "after"]

proc_switch(pid) ==
  /\ pmp' = range(lower[pid], upper[pid])
  /\ tlb' = {}
  /\ ctx' = saved'[pid]

(* do_trap_ecall_s moves mepc past the ecall, then sys_yield saves the     *)
(* context, schedules the next process, and resumes that one.              *)
sys_yield ==
  /\ halted = "no"
  /\ saved' = [saved EXCEPT ![current_pid] = [ctx EXCEPT !.mepc = "after"]]
  /\ current_pid' = next[current_pid]
  /\ bug_on(next[current_pid] >= NR_PROCS)
  /\ proc_switch(next[current_pid])
  /\ UNCHANGED <<state, owner, next, lower, upper, pages>>

(* sys_get_quota, sys_getpid, the console calls of do_mcall, and unknown   *)
(* numbers: a public answer in a0.                                         *)
sys_no_effect ==
  /\ halted = "no"
  /\ ctx' = [ctx EXCEPT !.mepc = "after"]
  /\ UNCHANGED <<proc, pages, current_pid, pmp, tlb, halted>>

(* SBI_SHUTDOWN, and die() for a trap that is not delegated, such as an    *)
(* access outside the PMP range.                                           *)
shutdown ==
  /\ halted = "no"
  /\ halted' = "shutdown"
  /\ UNCHANGED <<proc, pages, current_pid, cpu>>

(* while (1) wait_for_interrupt() of shutdown().                           *)
wait_for_interrupt ==
  /\ halted # "no"
  /\ UNCHANGED vars

-----------------------------------------------------------------------------
(***************************************************************************)
(* What the processor lets the current process do between system calls:    *)
(* access the pages that the PMP grants, or that an access check in the    *)
(* TLB still does.  The process may set up page tables of its own.         *)
(***************************************************************************)
accessible == pmp \cup tlb

load ==
  /\ halted = "no"
  /\ \E g \in accessible :
       /\ tlb' = tlb \cup {g}
       /\ ctx' = IF pages[g] = Public THEN ctx
                 ELSE [ctx EXCEPT !.regs = pages[g], !.csrs = pages[g]]
  /\ UNCHANGED <<proc, pages, current_pid, pmp, halted>>

store ==
  /\ halted = "no"
  /\ \E g \in accessible :
       /\ tlb' = tlb \cup {g}
       /\ pages' = [pages EXCEPT ![g] = ctx.regs]
  /\ UNCHANGED <<proc, current_pid, ctx, pmp, halted>>

(* The process computes a secret of its own.                               *)
compute ==
  /\ halted = "no"
  /\ ctx' = [ctx EXCEPT !.regs = current_pid, !.csrs = current_pid]
  /\ UNCHANGED <<proc, pages, current_pid, pmp, tlb, halted>>

Next ==
  \/ \E quota \in QuotaArg, pid \in PidArg : sys_spawn(quota, pid)
  \/ sys_yield
  \/ sys_no_effect
  \/ load
  \/ store
  \/ compute
  \/ shutdown
  \/ wait_for_interrupt

Spec == Init /\ [][Next]_vars

(* The processes of user/ end in a loop that yields for ever.              *)
FairSpec == Spec /\ WF_vars(sys_yield)

-----------------------------------------------------------------------------
(* The state variables have their types.                                   *)
TypeOK ==
  /\ state \in [Pid -> {"FREE", "RUN"}]
  /\ owner \in [Pid -> Nat]
  /\ next \in [Pid -> Pid]
  /\ lower \in [Pid -> 0 .. NR_PAGES]
  /\ upper \in [Pid -> 0 .. NR_PAGES]
  /\ saved \in [Pid -> Context]
  /\ pages \in [Page -> Pid]
  /\ current_pid \in Pid \ {0}
  /\ ctx \in Context
  /\ pmp \in SUBSET Page
  /\ tlb \in SUBSET Page
  /\ halted \in {"no", "shutdown", "bug"}

running == {p \in Pid : state[p] = "RUN"}

(* Every page is in the range of exactly one process, and that one runs:   *)
(* sys_spawn neither loses a page nor gives one to two processes.          *)
Partition ==
  /\ \A g \in Page : \E p \in running : g \in holds(p)
  /\ \A p, q \in Pid : p # q => holds(p) \cap holds(q) = {}
  /\ \A p \in Pid : lower[p] <= upper[p]
  /\ \A p \in Pid \ running : lower[p] = 0 /\ upper[p] = 0

(* The `next' fields link all running processes into one ring: whoever     *)
(* follows them comes past every process before it is back.                *)
Ring ==
  /\ \A p \in running : next[p] \in running
  /\ \A S \in SUBSET running :
       S # {} /\ (\A p \in S : next[p] \in S) => S = running

(* The PMP, and what the TLB remembers of it, is that of the process that  *)
(* runs.                                                                   *)
PmpCurrent ==
  /\ current_pid \in running
  /\ pmp = holds(current_pid)
  /\ tlb \subseteq pmp

(* What a process computed is nowhere but in its own pages, in its saved   *)
(* context, and in the registers while it runs: neither the pages a child  *)
(* inherits nor the registers give it away.                                *)
may_hold(p, v) == v \in {Public, p}

Confined ==
  /\ \A p \in running : \A g \in holds(p) : may_hold(p, pages[g])
  /\ \A p \in Pid : may_hold(p, saved[p].regs) /\ may_hold(p, saved[p].csrs)
  /\ may_hold(current_pid, ctx.regs) /\ may_hold(current_pid, ctx.csrs)

(* A process that is not running its turn keeps its pages and what they    *)
(* hold, its saved context and its place in the ring.                      *)
Integrity ==
  [][\A p \in running \ {current_pid} :
       /\ p \in running'
       /\ lower'[p] = lower[p]
       /\ upper'[p] = upper[p]
       /\ next'[p] = next[p]
       /\ saved'[p] = saved[p]
       /\ \A g \in holds(p) : pages'[g] = pages[g]]_vars

(* Every process gets its turn again and again, as long as the others      *)
(* yield and the machine is not shut down: the ring never ends in a BUG_ON *)
(* or in a loop that leaves somebody out.                                  *)
EveryoneRuns ==
  \A p \in Pid : p \in running ~> (current_pid = p \/ halted = "shutdown")
=============================================================================
