------------------------- MODULE CertikosRefinement -------------------------
(***************************************************************************)
(* CertiKOS implements what it promises: a process's registers are the     *)
(* live ones while it runs and the saved ones while it does not; the owner *)
(* of a page is the process whose range it is in.                          *)
(***************************************************************************)
EXTENDS Certikos

abs_regs == [p \in Pid |-> IF p = current_pid THEN ctx ELSE saved[p]]

abs_owner == [g \in Page |-> CHOOSE p \in Pid : g \in holds(p)]

Promise == INSTANCE CertikosSpec WITH
  running <- running, parent <- owner, succ <- next, regs <- abs_regs,
  owner <- abs_owner, pages <- pages, turn <- current_pid, on <- (halted = "no")

(* Every system call and memory access is one that verif/spec.rkt allows,  *)
(* or changes nothing that it can see.                                     *)
Refinement == Promise!Spec
=============================================================================
