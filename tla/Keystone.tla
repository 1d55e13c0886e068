------------------------------ MODULE Keystone ------------------------------
(***************************************************************************)
(* The port of Keystone (monitors/keystone): the host creates enclaves out *)
(* of regions of its memory, runs and resumes them, and destroys them; the *)
(* PMP closes the region of an enclave to everyone else.                   *)
(*                                                                         *)
(* The monitor runs on one hart, in M-mode, with no interrupts enabled: a  *)
(* call is handled without interruption, so each is one action.  What      *)
(* interleaves is the calls and memory accesses of host and enclaves.      *)
(***************************************************************************)
EXTENDS Integers

CONSTANTS
  NR_ENCLAVES, MAX_PAYLOAD_SIZE,
  EidArg,      \* the eids that are passed to calls, valid or not
  SecureArg,   \* the bounds of secure regions that are passed, valid or not
  SharedArg    \* and those of shared regions

ASSUME ParamAssumption ==
  /\ NR_ENCLAVES \in Nat
  /\ MAX_PAYLOAD_SIZE \in Nat /\ MAX_PAYLOAD_SIZE % 4 = 0
  /\ EidArg \subseteq Nat
  /\ SecureArg \subseteq Nat \X Nat /\ SharedArg \subseteq Nat \X Nat

VARIABLES
  status,          \* enclaves[eid].status
  secure_lower, secure_upper, shared_lower, shared_upper,
  encl_state,      \* enclaves[eid].encl_state
  enclave_mode, current_enclave, host_state,
  payload,         \* what the granules of payload memory hold
  ctx,             \* the live registers, CSRs and mepc
  scratch,         \* what sscratch and sie hold
  pmp,             \* the granules between the two PMP addresses of an eid
  perm,            \* whether the PMP entry of an eid grants access
  last,            \* the granules of the last PMP entry, which grants access
  tlb,             \* granules whose access check may be cached
  halted

table == <<status, secure_lower, secure_upper, shared_lower, shared_upper>>
world == <<enclave_mode, current_enclave, host_state, encl_state>>
protection == <<pmp, perm, last>>
vars == <<table, world, payload, ctx, scratch, protection, tlb, halted>>

Eid == 0 .. NR_ENCLAVES - 1

(* The PMP works in granules of four bytes.                                *)
Granule == 0 .. MAX_PAYLOAD_SIZE \div 4 - 1

(* A value is abstracted to the eid it is a secret of, or Public.  Memory, *)
(* sscratch and sie may also hold what an enclave left for others to see.  *)
Public == -1
Label == Eid \cup {Public}
Shared == -2

(* The registers and the CSRs of csrs.h, mepc apart.  mepc is that of an   *)
(* enclave's entry, an ecall, the instruction after one, or else.          *)
(* sscratch and sie are not in csrs.h: no switch saves or restores them.   *)
Context == [regs: Label, csrs: Label, mepc: {"entry", "ecall", "after", "else"}]

Null == [regs |-> Public, csrs |-> Public, mepc |-> "else"]

(* The granules that have a byte in a region.                              *)
region(lo, up) == {g \in Granule : lo < 4 * g + 4 /\ 4 * g < up}

secure(e) == region(secure_lower[e], secure_upper[e])

shared(e) == region(shared_lower[e], shared_upper[e])

(* init_enclave, pmp_init and supervisor_init.                             *)
Init ==
  /\ status = [e \in Eid |-> "FREE"]
  /\ secure_lower = [e \in Eid |-> 0] /\ secure_upper = [e \in Eid |-> 0]
  /\ shared_lower = [e \in Eid |-> 0] /\ shared_upper = [e \in Eid |-> 0]
  /\ encl_state = [e \in Eid |-> Null]
  /\ enclave_mode = FALSE /\ current_enclave = 0 /\ host_state = Null
  /\ payload = [g \in Granule |-> Public]
  /\ ctx = [Null EXCEPT !.mepc = "entry"]
  /\ scratch = Public
  /\ pmp = [e \in Eid |-> {}] /\ perm = [e \in Eid |-> FALSE]
  /\ last = Granule /\ tlb = {}
  /\ halted = FALSE

-----------------------------------------------------------------------------
(***************************************************************************)
(* pmp.c.                                                                  *)
(***************************************************************************)
(* pmpaddr_write drops the two low bits of an offset.                      *)
pmp_range(lo, up) == {g \in Granule : lo \div 4 <= g /\ g < up \div 4}

free_pmp_region(e) == pmp' = [pmp EXCEPT ![e] = {}]

chmod_pmp_region(e, p) == perm' = [perm EXCEPT ![e] = p]

remap_pmp_region(e, lo, up) == pmp' = [pmp EXCEPT ![e] = pmp_range(lo, up)]

remap_os_region == last' = Granule

(* Mutation: the rest of the memory stays open while an enclave runs.      *)
remap_shared_region_open(lo, up) == UNCHANGED last

remap_shared_region(lo, up) == last' = pmp_range(lo, up)

local_flush_tlb_all == tlb' = {}

(* Mutation: a region may reach past the end of the memory.                *)
is_region_valid_past_end(lo, up) == lo % 4 = 0 /\ up % 4 = 0 /\ lo < up

(* Mutation: a region may start or end within a granule.                   *)
is_region_valid_misaligned(lo, up) == lo < up /\ up <= MAX_PAYLOAD_SIZE

is_region_valid(lo, up) ==
  lo % 4 = 0 /\ up % 4 = 0 /\ lo < up /\ up <= MAX_PAYLOAD_SIZE

(* The processor: the matching entry with the lowest number decides.       *)
granted ==
  {g \in Granule :
     \/ \E e \in Eid : g \in pmp[e] /\ perm[e] /\ \A d \in Eid : d < e => g \notin pmp[d]
     \/ g \in last /\ \A e \in Eid : g \notin pmp[e]}

accessible == granted \cup tlb

-----------------------------------------------------------------------------
(***************************************************************************)
(* Calls (traps.c, enclave.c).                                             *)
(***************************************************************************)
(* The trap puts the address of the ecall into mepc.                       *)
trapped == [ctx EXCEPT !.mepc = "ecall"]

(* do_trap_ecall_s adds 4 to mepc, whoever's mepc it is by then.           *)
past(k) == [k EXCEPT !.mepc = IF k.mepc = "ecall" THEN "after" ELSE "else"]

(* Host or enclave gets to make a call or access memory, unless it is back *)
(* at an ecall.                                                            *)
executing == ~halted /\ ctx.mepc # "ecall"

refused ==
  /\ ctx' = past(trapped)
  /\ UNCHANGED <<table, world, payload, scratch, protection, tlb, halted>>

eid_is_valid(eid) == eid < NR_ENCLAVES

(* Mutation: only a region within another one counts as overlapping it.    *)
is_region_overlap_inner(lo, up) ==
  \E e \in Eid : secure_lower[e] <= lo /\ up <= secure_upper[e]

is_region_overlap(lo, up) ==
  \E e \in Eid : secure_upper[e] > lo /\ up > secure_lower[e]

create_err(eid, slo, sup, lo, up) ==
  IF enclave_mode THEN "EINVAL"
  ELSE IF ~eid_is_valid(eid) THEN "EINVAL"
  ELSE IF \/ status[eid] # "FREE"
          \/ ~is_region_valid(slo, sup)
          \/ ~is_region_valid(lo, up)
          \/ is_region_overlap(slo, sup) THEN "EINVAL"
  ELSE "SUCCESS"

sys_create_enclave(eid, slo, sup, lo, up) ==
  /\ executing
  /\ \/ create_err(eid, slo, sup, lo, up) # "SUCCESS" /\ refused
     \/ /\ create_err(eid, slo, sup, lo, up) = "SUCCESS"
        /\ status' = [status EXCEPT ![eid] = "FRESH"]
        /\ secure_lower' = [secure_lower EXCEPT ![eid] = slo]
        /\ secure_upper' = [secure_upper EXCEPT ![eid] = sup]
        /\ shared_lower' = [shared_lower EXCEPT ![eid] = lo]
        /\ shared_upper' = [shared_upper EXCEPT ![eid] = up]
        /\ chmod_pmp_region(eid, FALSE)
        /\ remap_pmp_region(eid, slo, sup)
        /\ local_flush_tlb_all
        /\ ctx' = past(trapped)
        /\ UNCHANGED <<world, payload, scratch, last, halted>>

(* sys_destroy_enclave and sys_run_enclave make the same checks.           *)
stopped_err(eid) ==
  IF enclave_mode THEN "EINVAL"
  ELSE IF ~eid_is_valid(eid) THEN "EINVAL"
  ELSE IF status[eid] \notin {"IDLE", "FRESH"} THEN "EINVAL"
  ELSE "SUCCESS"

(* Mutation: the region is handed back as it is.                           *)
wipe_nothing(eid) == UNCHANGED payload

(* memset(offset_to_virt(secure_lower), 0, size)                           *)
wipe(eid) == payload' = [g \in Granule |-> IF g \in secure(eid) THEN Public ELSE payload[g]]

sys_destroy_enclave(eid) ==
  /\ executing
  /\ \/ stopped_err(eid) # "SUCCESS" /\ refused
     \/ /\ stopped_err(eid) = "SUCCESS"
        /\ wipe(eid)
        /\ status' = [status EXCEPT ![eid] = "FREE"]
        /\ secure_lower' = [secure_lower EXCEPT ![eid] = 0]
        /\ secure_upper' = [secure_upper EXCEPT ![eid] = 0]
        /\ free_pmp_region(eid)
        /\ local_flush_tlb_all
        /\ ctx' = past(trapped)
        /\ UNCHANGED <<shared_lower, shared_upper, world, scratch, perm, last, halted>>

(* Mutation: an enclave that never ran can be resumed.                     *)
resume_err_fresh(eid) ==
  IF enclave_mode THEN "EINVAL"
  ELSE IF ~eid_is_valid(eid) THEN "EINVAL"
  ELSE IF status[eid] \notin {"IDLE", "FRESH"} THEN "EINVAL"
  ELSE "SUCCESS"

(* Mutation: an enclave can resume another.                                *)
resume_err_nested(eid) ==
  IF ~eid_is_valid(eid) THEN "EINVAL"
  ELSE IF status[eid] # "IDLE" THEN "EINVAL"
  ELSE "SUCCESS"

resume_err(eid) ==
  IF enclave_mode THEN "EINVAL"
  ELSE IF ~eid_is_valid(eid) THEN "EINVAL"
  ELSE IF status[eid] # "IDLE" THEN "EINVAL"
  ELSE "SUCCESS"

(* What sys_resume_enclave does once it has checked the call.              *)
enter(eid) ==
  /\ enclave_mode' = TRUE
  /\ current_enclave' = eid
  /\ status' = [status EXCEPT ![eid] = "RUNNING"]
  /\ host_state' = trapped
  /\ chmod_pmp_region(eid, TRUE)
  /\ remap_shared_region(shared_lower[eid], shared_upper[eid])
  /\ local_flush_tlb_all
  /\ UNCHANGED <<secure_lower, secure_upper, shared_lower, shared_upper, payload,
                 scratch, pmp, halted>>

(* The enclave goes on after the ecall by which it had left.               *)
sys_resume_enclave(eid) ==
  /\ executing
  /\ \/ resume_err(eid) # "SUCCESS" /\ refused
     \/ /\ resume_err(eid) = "SUCCESS"
        /\ enter(eid)
        /\ ctx' = past(encl_state[eid])
        /\ UNCHANGED encl_state

(* sys_run_enclave resets registers and mepc, and resumes: the IDLE status *)
(* it sets in between lasts only until the checks of the resumption.  Its  *)
(* ecall is the one that do_trap_ecall_s does not move mepc past, not even *)
(* when the call is refused.                                               *)
sys_run_enclave(eid) ==
  \/ /\ stopped_err(eid) # "SUCCESS"
     /\ ctx' = trapped
     /\ UNCHANGED <<table, world, payload, scratch, protection, tlb, halted>>
  \/ /\ stopped_err(eid) = "SUCCESS"
     /\ encl_state' = [encl_state EXCEPT ![eid].regs = Public, ![eid].mepc = "entry"]
     /\ enter(eid)
     /\ ctx' = encl_state'[eid]

(* The ecall of a refused sys_run_enclave, again, with the -EINVAL that    *)
(* the monitor left in a0 for the eid.                                     *)
run_again ==
  /\ ~halted
  /\ ctx.mepc = "ecall"
  /\ sys_run_enclave(NR_ENCLAVES)

(* Mutation: the region of the enclave stays open.                         *)
exit_perm_open(eid) == UNCHANGED perm

exit_perm(eid) == chmod_pmp_region(eid, FALSE)

(* The host finds in sscratch and sie what the enclave left there.         *)
leave_scratch == scratch' = IF scratch = current_enclave THEN Shared ELSE scratch

sys_exit_enclave ==
  /\ executing
  /\ \/ ~enclave_mode /\ refused
     \/ /\ enclave_mode
        /\ enclave_mode' = FALSE
        /\ current_enclave' = -1
        /\ status' = [status EXCEPT ![current_enclave] = "IDLE"]
        /\ encl_state' = [encl_state EXCEPT ![current_enclave] = trapped]
        /\ ctx' = past(host_state)
        /\ exit_perm(current_enclave)
        /\ remap_os_region
        /\ local_flush_tlb_all
        /\ leave_scratch
        /\ UNCHANGED <<secure_lower, secure_upper, shared_lower, shared_upper,
                       host_state, payload, pmp, halted>>

(* Console calls of do_mcall and unknown numbers.                          *)
no_effect == executing /\ refused

(* SBI_SHUTDOWN, and die() for a trap that is not delegated, such as an    *)
(* access that the PMP forbids.                                            *)
shutdown ==
  /\ executing
  /\ halted' = TRUE
  /\ UNCHANGED <<table, world, payload, ctx, scratch, protection, tlb>>

(* while (1) wait_for_interrupt() of shutdown().                           *)
wait_for_interrupt == halted /\ UNCHANGED vars

-----------------------------------------------------------------------------
(***************************************************************************)
(* What the processor lets host and enclaves do between calls.  Any check  *)
(* that an access may succeed at may get cached.                           *)
(***************************************************************************)
load ==
  /\ executing
  /\ \E g \in accessible :
       ctx' = IF payload[g] \notin Eid THEN ctx
              ELSE [ctx EXCEPT !.regs = payload[g], !.csrs = payload[g]]
  /\ tlb' = accessible
  /\ UNCHANGED <<table, world, payload, scratch, protection, halted>>

(* What an enclave stores outside its region it means others to see.       *)
store ==
  /\ executing
  /\ \E g \in accessible :
       payload' = [payload EXCEPT ![g] =
         IF enclave_mode /\ g \notin secure(current_enclave) THEN Shared ELSE ctx.regs]
  /\ tlb' = accessible
  /\ UNCHANGED <<table, world, ctx, scratch, protection, halted>>

(* The enclave computes a secret of its own.                               *)
compute ==
  /\ executing
  /\ enclave_mode
  /\ ctx' = [ctx EXCEPT !.regs = current_enclave, !.csrs = current_enclave]
  /\ UNCHANGED <<table, world, payload, scratch, protection, tlb, halted>>

(* Host and enclaves read and write sscratch and sie as they like.         *)
csr_read ==
  /\ executing
  /\ scratch \in Eid
  /\ ctx' = [ctx EXCEPT !.regs = scratch, !.csrs = scratch]
  /\ UNCHANGED <<table, world, payload, scratch, protection, tlb, halted>>

csr_write ==
  /\ executing
  /\ scratch' \in {Public, ctx.regs}
  /\ UNCHANGED <<table, world, payload, ctx, protection, tlb, halted>>

Next ==
  \/ \E eid \in EidArg :
       \/ \E sec \in SecureArg, sha \in SharedArg :
            sys_create_enclave(eid, sec[1], sec[2], sha[1], sha[2])
       \/ sys_destroy_enclave(eid)
       \/ executing /\ sys_run_enclave(eid)
       \/ sys_resume_enclave(eid)
  \/ sys_exit_enclave
  \/ run_again
  \/ no_effect
  \/ shutdown
  \/ wait_for_interrupt
  \/ load
  \/ store
  \/ compute
  \/ csr_read
  \/ csr_write

Spec == Init /\ [][Next]_vars

(* The processor does not stop in front of an ecall.                       *)
FairSpec == Spec /\ WF_vars(run_again)

-----------------------------------------------------------------------------
(* The state variables have their types.                                   *)
TypeOK ==
  /\ status \in [Eid -> {"FREE", "FRESH", "RUNNING", "IDLE"}]
  /\ \A bound \in {secure_lower, secure_upper, shared_lower, shared_upper} :
       bound \in [Eid -> 0 .. MAX_PAYLOAD_SIZE]
  /\ encl_state \in [Eid -> Context]
  /\ enclave_mode \in BOOLEAN
  /\ current_enclave \in Int
  /\ host_state \in Context
  /\ payload \in [Granule -> Label \cup {Shared}]
  /\ ctx \in Context
  /\ scratch \in Label \cup {Shared}
  /\ pmp \in [Eid -> SUBSET Granule]
  /\ perm \in [Eid -> BOOLEAN]
  /\ last \in SUBSET Granule /\ tlb \in SUBSET Granule
  /\ halted \in BOOLEAN

(* The region checks of sys_create_enclave and the reset in                *)
(* sys_destroy_enclave keep the secure regions apart: no byte is in two,   *)
(* every enclave has one, and what is free has none.                       *)
Regions ==
  /\ \A d, e \in Eid : d # e =>
       secure_upper[d] <= secure_lower[e] \/ secure_upper[e] <= secure_lower[d]
  /\ \A e \in Eid :
       IF status[e] = "FREE" THEN secure_lower[e] = 0 /\ secure_upper[e] = 0
       ELSE secure_lower[e] < secure_upper[e]

(* The status of the enclaves says who runs: the current enclave while     *)
(* there is one, and no other, however calls are nested or refused.        *)
OneRunning ==
  /\ enclave_mode => current_enclave \in Eid
  /\ \A e \in Eid : status[e] = "RUNNING" <=> enclave_mode /\ e = current_enclave

(* The PMP agrees with the table of enclaves to the byte: what the monitor *)
(* writes into the PMP registers as it goes is what the table asks for.    *)
PmpMatches ==
  /\ \A e \in Eid : pmp[e] = secure(e)
  /\ \A e \in Eid : status[e] # "FREE" => perm[e] = (status[e] = "RUNNING")
  /\ last = IF enclave_mode THEN shared(current_enclave) ELSE Granule
  /\ tlb \subseteq granted

(* Memory of an enclave is in reach of that enclave alone, while it runs,  *)
(* even where it overlaps a shared region (comment in sys_create_enclave); *)
(* and an enclave that runs reaches nothing but its two regions.           *)
Isolated ==
  /\ \A e \in Eid : secure(e) \cap accessible # {} => enclave_mode /\ current_enclave = e
  /\ enclave_mode => accessible \subseteq secure(current_enclave) \cup shared(current_enclave)

(* What an enclave computed is nowhere but in its region, in its saved     *)
(* state, and in the registers while it runs: neither memory that goes     *)
(* back to the host nor a register that is switched gives it away to       *)
(* another eid.  What the enclave itself gives away is not counted: what   *)
(* it stores outside its region, and what it has in sscratch and sie when  *)
(* it exits, which the monitor leaves as they are.                         *)
may_hold(e, v) == v \in {Public, e}

Confined ==
  /\ \A g \in Granule : payload[g] \in Eid => g \in secure(payload[g])
  /\ \A e \in Eid : may_hold(e, encl_state[e].regs) /\ may_hold(e, encl_state[e].csrs)
  /\ host_state.regs = Public /\ host_state.csrs = Public
  /\ LET e == IF enclave_mode THEN current_enclave ELSE Public
     IN  /\ may_hold(e, ctx.regs) /\ may_hold(e, ctx.csrs)
         /\ scratch # Shared => may_hold(e, scratch)

(* Whoever runs is at an entry, behind an ecall of its own, or at one that *)
(* has not returned; and whoever waits is at the ecall it waits in.  The   *)
(* one place that moves mepc, at the end of do_trap_ecall_s, does so after *)
(* host and enclave may have changed places.                               *)
ResumePoint ==
  /\ ctx.mepc # "else"
  /\ enclave_mode => host_state.mepc = "ecall"
  /\ \A e \in Eid : status[e] = "IDLE" => encl_state[e].mepc = "ecall"

(* An enclave that does not run keeps its memory and the state it was left *)
(* in until the host runs it again or destroys it; and one that runs       *)
(* changes no memory but its own and what it shares.                       *)
Integrity ==
  [][/\ \A e \in Eid : status[e] \in {"FRESH", "IDLE"} /\ status'[e] = status[e] =>
          /\ encl_state'[e] = encl_state[e]
          /\ \A g \in secure(e) : payload'[g] = payload[g]
     /\ enclave_mode =>
          \A g \in Granule \ (secure(current_enclave) \cup shared(current_enclave)) :
            payload'[g] = payload[g]]_vars

(* A call that is refused returns -EINVAL to its caller, run_enclave as    *)
(* well (spec-sys_run_enclave; kernel/main.c checks what it returns).      *)
CallsReturn == ctx.mepc = "ecall" ~> ctx.mepc # "ecall"
=============================================================================
