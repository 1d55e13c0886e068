---------------------------- MODULE CertikosSpec ----------------------------
(***************************************************************************)
(* What CertiKOS promises (monitors/certikos/verif/spec.rkt), free of its  *)
(* mechanism: every process has registers and pages of its own, which only *)
(* it can touch, and gives pages away only when it spawns a process.       *)
(* There are no saved and live registers, no page ranges, no PMP, no TLB.  *)
(***************************************************************************)
EXTENDS Integers

CONSTANTS Pid, Page, PID_IDLE, Public, Fresh

VARIABLES
  running,   \* the processes that exist
  parent,    \* proc.owner: who may create which process
  succ,      \* proc.next
  regs,      \* the registers and CSRs of each process
  owner,     \* page.owner
  pages,     \* what the pages hold
  turn,      \* current-pid
  on         \* FALSE once the machine is off

vars == <<running, parent, succ, regs, owner, pages, turn, on>>

Init ==
  /\ running = {PID_IDLE}
  /\ parent \in [Pid -> Nat]
  /\ succ = [p \in Pid |-> IF p = PID_IDLE THEN PID_IDLE ELSE 0]
  /\ regs = [p \in Pid |-> Fresh]
  /\ owner = [g \in Page |-> PID_IDLE]
  /\ pages = [g \in Page |-> Public]
  /\ turn = PID_IDLE
  /\ on = TRUE

own == {g \in Page : owner[g] = turn}

(* mepc is moved past the ecall first.                                     *)
after_ecall == [regs EXCEPT ![turn].mepc = "after"]

(* A new process gets some pages of its parent, with nothing in them, and  *)
(* comes next.                                                             *)
spawn ==
  \E pid \in Pid \ running, gift \in SUBSET own :
    /\ on
    /\ pid # 0
    /\ parent[pid] = turn
    /\ running' = running \cup {pid}
    /\ succ' = [succ EXCEPT ![pid] = succ[turn], ![turn] = pid]
    /\ regs' = [after_ecall EXCEPT ![pid] = Fresh]
    /\ owner' = [g \in Page |-> IF g \in gift THEN pid ELSE owner[g]]
    /\ pages' = [g \in Page |-> IF g \in gift THEN Public ELSE pages[g]]
    /\ UNCHANGED <<parent, turn, on>>

yield ==
  /\ on
  /\ regs' = after_ecall
  /\ turn' = succ[turn]
  /\ UNCHANGED <<running, parent, succ, owner, pages, on>>

(* get_quota, getpid, refused and unknown calls.                           *)
no_effect ==
  /\ on
  /\ regs' = after_ecall
  /\ UNCHANGED <<running, parent, succ, owner, pages, turn, on>>

read ==
  /\ on
  /\ \E g \in own :
       regs' = [regs EXCEPT ![turn].regs = pages[g], ![turn].csrs = pages[g]]
  /\ UNCHANGED <<running, parent, succ, owner, pages, turn, on>>

write ==
  /\ on
  /\ \E g \in own : pages' = [pages EXCEPT ![g] = regs[turn].regs]
  /\ UNCHANGED <<running, parent, succ, regs, owner, turn, on>>

write_regs ==
  /\ on
  /\ regs' = [regs EXCEPT ![turn].regs = turn, ![turn].csrs = turn]
  /\ UNCHANGED <<running, parent, succ, owner, pages, turn, on>>

off ==
  /\ on' = FALSE
  /\ UNCHANGED <<running, parent, succ, regs, owner, pages, turn>>

Next == spawn \/ yield \/ no_effect \/ read \/ write \/ write_regs \/ off

Spec == Init /\ [][Next]_vars
=============================================================================
