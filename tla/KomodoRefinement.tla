-------------------------- MODULE KomodoRefinement --------------------------
(***************************************************************************)
(* The monitor implements what it promises: the refinement mapping from    *)
(* the variables of Komodo to those of KomodoSpec.                         *)
(***************************************************************************)
EXTENDS Komodo

abs_owner ==
  [p \in Page |-> IF type[p] = "FREE" THEN NoPage ELSE addrspace_page[p]]

abs_state ==
  [p \in Page |-> IF type[p] = "ADDRSPACE" THEN secure_pages[p].state ELSE "NONE"]

abs_regs(c) == [args |-> c.args, gprs |-> c.regs, csrs |-> c.csrs]

abs_thread(c) == [entered |-> c.entered, regs |-> abs_regs(c.saved)]

abs_threads ==
  [p \in Page |->
     IF type[p] = "DISPATCHER" THEN abs_thread(secure_pages[p])
     ELSE [entered |-> FALSE, regs |-> abs_regs(filled(Public, HostRoot))]]

abs_data ==
  [p \in Page |-> IF type[p] = "DATA" THEN secure_pages[p].val ELSE Public]

abs_running == IF enclave_mode THEN g_cur_dispatcher_pageno ELSE NoPage

Promise == INSTANCE KomodoSpec WITH
  owner <- abs_owner, state <- abs_state, threads <- abs_threads,
  data <- abs_data, insecure <- insecure_pages, running <- abs_running,
  regs <- abs_regs(ctx), host_regs <- abs_regs(host_state.saved), answer <- a0

(* Every call, trap and memory access that the monitor's code and the      *)
(* processor perform is one that verif/spec.rkt allows, or changes nothing *)
(* it can see.                                                             *)
Refinement == Promise!Spec
=============================================================================
