---------------------------- MODULE KomodoDriver ----------------------------
(***************************************************************************)
(* The host driver of monitors/komodo/kernel on top of the monitor: test() *)
(* of main.c builds one enclave, runs it with kom_smc_execute of smc.S,    *)
(* which resumes it as often as it is interrupted, and takes it down.      *)
(***************************************************************************)
EXTENDS Komodo

CONSTANTS
  addrspace, l1pt, l2pt, l3pt, disp, code, data,  \* from pgalloc_alloc
  test_shared,                                    \* the insecure page
  CodeIndex, DataIndex, SharedIndex               \* ENTRYPOINT / PAGE_SIZE + ...

ASSUME DriverAssumption ==
  /\ {addrspace, l1pt, l2pt, l3pt, disp, code, data} \subseteq Page
  /\ addrspace \notin {l1pt, l2pt, l3pt, disp, code, data}
  /\ l1pt \notin {l2pt, l3pt, disp, code, data}
  /\ l2pt \notin {l3pt, disp, code, data}
  /\ l3pt \notin {disp, code, data}
  /\ disp \notin {code, data}
  /\ code # data
  /\ {CodeIndex, DataIndex, SharedIndex} \subseteq Index
  /\ CodeIndex \notin {DataIndex, SharedIndex}
  /\ DataIndex # SharedIndex
  /\ {{"R", "X"}, {"R", "W"}} \subseteq Mapping
  /\ test_shared \in InsecurePage

VARIABLES
  pc,  \* the call that the driver makes next
  r    \* the result of test(): "SUCCESS", or what made it -EIO

driver_vars == <<vars, pc, r>>

DriverInit == Init /\ pc = "query" /\ r = "SUCCESS"

(* One call of test(); an error takes the driver to its cleanup label.     *)
call(from, smc, to) ==
  /\ pc = from
  /\ smc
  /\ IF a0' = "SUCCESS" THEN pc' = to /\ UNCHANGED r
                        ELSE pc' = "stop" /\ r' = a0'

build ==
  \/ call("addrspace", kom_smc_init_addrspace(addrspace, l1pt), "disp")
  \/ call("disp", kom_smc_init_dispatcher(disp, addrspace), "l2pt")
  \/ call("l2pt", kom_smc_init_l2ptable(l2pt, l1pt, CodeIndex), "l3pt")
  \/ call("l3pt", kom_smc_init_l3ptable(l3pt, l2pt, CodeIndex), "code")
  \/ call("code", kom_smc_map_secure(code, l3pt, CodeIndex, {"R", "X"}, test_shared),
          "data")
  \/ call("data", kom_smc_map_secure(data, l3pt, DataIndex, {"R", "W"}, test_shared),
          "shared")
  \/ call("shared", kom_smc_map_insecure(l3pt, SharedIndex, {"R", "W"}, test_shared),
          "finalise")
  \/ call("finalise", kom_smc_finalise(addrspace), "enter")

(* driver_init asks for the magic number and the number of pages first.    *)
driver_init ==
  \/ pc = "query" /\ pc' = "npages" /\ smc_no_effect("MAGIC") /\ UNCHANGED r
  \/ pc = "npages" /\ pc' = "addrspace" /\ smc_no_effect("NPAGES") /\ UNCHANGED r

(* Enter with three constants, then resume for as long as the answer is    *)
(* INTERRUPTED.                                                            *)
kom_smc_execute ==
  \/ /\ pc = "enter" /\ kom_smc_enter(disp, Public)
     /\ pc' = "loop" /\ UNCHANGED r
  \/ /\ pc = "loop" /\ a0 = "INTERRUPTED" /\ kom_smc_resume(disp)
     /\ UNCHANGED <<pc, r>>
  \/ /\ pc = "loop" /\ ~enclave_mode /\ a0 # "INTERRUPTED"
     /\ pc' = "stop" /\ r' = a0
     /\ UNCHANGED vars

(* cleanup: every page is removed whatever the calls before answered, and  *)
(* only the answer to stop counts.                                         *)
cleanup ==
  \/ /\ pc = "stop" /\ kom_smc_stop(addrspace) /\ pc' = "rm_disp"
     /\ r' = IF a0' = "SUCCESS" THEN r ELSE a0'
  \/ pc = "rm_disp" /\ kom_smc_remove(disp) /\ pc' = "rm_code" /\ UNCHANGED r
  \/ pc = "rm_code" /\ kom_smc_remove(code) /\ pc' = "rm_data" /\ UNCHANGED r
  \/ pc = "rm_data" /\ kom_smc_remove(data) /\ pc' = "rm_l3pt" /\ UNCHANGED r
  \/ pc = "rm_l3pt" /\ kom_smc_remove(l3pt) /\ pc' = "rm_l2pt" /\ UNCHANGED r
  \/ pc = "rm_l2pt" /\ kom_smc_remove(l2pt) /\ pc' = "rm_l1pt" /\ UNCHANGED r
  \/ pc = "rm_l1pt" /\ kom_smc_remove(l1pt) /\ pc' = "rm_addrspace" /\ UNCHANGED r
  \/ pc = "rm_addrspace" /\ kom_smc_remove(addrspace) /\ pc' = "done" /\ UNCHANGED r

driver == driver_init \/ build \/ kom_smc_execute \/ cleanup

(* The exit of the enclave, and whatever else happens: its own steps and   *)
(* the host's in between, its other calls, and traps.                      *)
exit == kom_svc_exit /\ UNCHANGED <<pc, r>>

others ==
  /\ software \/ svc_unknown \/ \E cause \in {"interrupt", "exception"} : do_trap(cause)
  /\ UNCHANGED <<pc, r>>

DriverNext == driver \/ exit \/ others

(* The host runs whenever no enclave does.  The enclave's program is       *)
(* test_enclave of test.S, which exits on every path: run over and over,   *)
(* it gets to its exit call.  Interrupts may come at any time, for ever.   *)
DriverSpec ==
  /\ DriverInit
  /\ [][DriverNext]_driver_vars
  /\ WF_driver_vars(driver)
  /\ SF_driver_vars(exit)

-----------------------------------------------------------------------------
(* BUG_ON(r) of driver_init: every call that builds, runs and stops the    *)
(* enclave succeeds, however often it was interrupted, unless it faults.   *)
TestPasses == r \in {"SUCCESS", "FAULT"}

(* The driver gets through its cleanup, and all pages end up free.         *)
Reclaimed == <>[](pc = "done" /\ \A p \in Page : type[p] = "FREE")
=============================================================================
