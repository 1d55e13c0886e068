----------------------------- MODULE KomodoSpec -----------------------------
(***************************************************************************)
(* What the Komodo monitor promises (monitors/komodo/verif/spec.rkt), free *)
(* of its mechanism: an enclave is an address space with a set of pages;   *)
(* it reads and writes its own data pages and the insecure pages, nothing  *)
(* else.  There are no page tables, reference counts, satp, TLB or PMP.    *)
(***************************************************************************)
EXTENDS Naturals, FiniteSets

CONSTANTS Page, NoPage, InsecurePage, Public

VARIABLES
  type,       \* pagedb.type
  owner,      \* pagedb.addrspace of a page in use, NoPage for a free one
  state,      \* addrspace.state of an address space, "NONE" elsewhere
  threads,    \* dispatcher: entered, and the secrets in its saved registers
  data,       \* the secret in a data page
  insecure,   \* the secrets in insecure pages
  running,    \* current-dispatcher, NoPage when the host runs
  regs,       \* the secrets in a0 to a2, the other registers and the CSRs
  host_regs,  \* host-state
  answer      \* what the host last got in a0 from a call or an enclave

vars == <<type, owner, state, threads, data, insecure, running, regs, host_regs,
          answer>>

All(v) == [args |-> v, gprs |-> v, csrs |-> v]

NoThread == [entered |-> FALSE, regs |-> All(Public)]

Free == {p \in Page : type[p] = "FREE"}

Host == running = NoPage

In(st) == {asp \in Page : state[asp] = st}

current_addrspace == owner[running]

Init ==
  /\ type = [p \in Page |-> "FREE"]
  /\ owner = [p \in Page |-> NoPage]
  /\ state = [p \in Page |-> "NONE"]
  /\ threads = [p \in Page |-> NoThread]
  /\ data = [p \in Page |-> Public]
  /\ insecure = [f \in InsecurePage |-> Public]
  /\ running = NoPage
  /\ regs = All(Public)
  /\ host_regs = All(Public)
  /\ answer = "SUCCESS"

-----------------------------------------------------------------------------
(* A call of the host that does what it was asked for.                     *)
Done == Host /\ answer' = "SUCCESS"

(* A new address space starts with its L1 table.                           *)
init_addrspace ==
  /\ Done
  /\ \E asp \in Free : \E l1pt \in Free \ {asp} :
       /\ type' = [type EXCEPT ![asp] = "ADDRSPACE", ![l1pt] = "L1PTABLE"]
       /\ owner' = [owner EXCEPT ![asp] = asp, ![l1pt] = asp]
       /\ state' = [state EXCEPT ![asp] = "INIT"]
  /\ UNCHANGED <<threads, data, insecure, running, regs, host_regs>>

(* A free page joins an address space that is not finalised yet, with      *)
(* nothing in it but, for a data page, a copy of an insecure page.         *)
add_page ==
  /\ Done
  /\ \E p \in Free, t \in {"DISPATCHER", "L2PTABLE", "L3PTABLE", "DATA"} :
       /\ type' = [type EXCEPT ![p] = t]
       /\ \E asp \in In("INIT") : owner' = [owner EXCEPT ![p] = asp]
       /\ \/ t # "DATA" /\ UNCHANGED data
          \/ t = "DATA" /\ \E f \in InsecurePage :
                             data' = [data EXCEPT ![p] = insecure[f]]
  /\ UNCHANGED <<state, threads, insecure, running, regs, host_regs>>

(* A page leaves a stopped address space; the address space goes last.     *)
remove ==
  /\ Done
  /\ \E p \in Page \ Free :
       /\ type' = [type EXCEPT ![p] = "FREE"]
       /\ state[owner[p]] = "STOPPED"
       /\ type[p] = "ADDRSPACE" => {q \in Page : owner[q] = p} = {p}
       /\ owner' = [owner EXCEPT ![p] = NoPage]
       /\ state' = [state EXCEPT ![p] = "NONE"]
       /\ threads' = [threads EXCEPT ![p] = NoThread]
       /\ data' = [data EXCEPT ![p] = Public]
  /\ UNCHANGED <<insecure, running, regs, host_regs>>

finalise ==
  /\ Done
  /\ \E asp \in In("INIT") : state' = [state EXCEPT ![asp] = "FINAL"]
  /\ UNCHANGED <<type, owner, threads, data, insecure, running, regs, host_regs>>

stop ==
  /\ Done
  /\ \E asp \in Page \ In("NONE") : state' = [state EXCEPT ![asp] = "STOPPED"]
  /\ UNCHANGED <<type, owner, threads, data, insecure, running, regs, host_regs>>

(* Two calls may succeed and change nothing else that is seen here: a page *)
(* that is free already is removed, or an insecure page is shared with an  *)
(* address space that is not finalised yet.                                *)
no_effect ==
  /\ Done
  /\ Free # {} \/ In("INIT") # {}
  /\ UNCHANGED <<type, owner, state, threads, data, insecure, running, regs, host_regs>>

(* Any other call is refused, or asks for a number.                        *)
refuse ==
  /\ Host
  /\ answer' # "SUCCESS"
  /\ UNCHANGED <<type, owner, state, threads, data, insecure, running, regs, host_regs>>

-----------------------------------------------------------------------------
(* A thread of a finalised address space runs, with the registers r.       *)
enter_secure_world(d, r) ==
  /\ Host
  /\ type[d] = "DISPATCHER"
  /\ state[owner[d]] = "FINAL"
  /\ running' = d
  /\ host_regs' = regs
  /\ regs' = r
  /\ UNCHANGED <<type, owner, state, data, insecure, answer>>

(* A thread that was not interrupted is given arguments of the host.       *)
enter ==
  \E d \in Page, arg \in {regs.args, regs.gprs} :
    LET r == [threads[d].regs EXCEPT !.args = arg]
    IN  /\ ~threads[d].entered
        /\ threads' = [threads EXCEPT ![d].regs = r]
        /\ enter_secure_world(d, r)

(* A thread that was interrupted goes on with the registers it had.        *)
resume ==
  \E d \in Page :
    /\ threads[d].entered
    /\ enter_secure_world(d, threads[d].regs)
    /\ UNCHANGED threads

(* The host gets back the registers it had, and the enclave's are kept.    *)
leave_secure_world(entered) ==
  /\ ~Host
  /\ running' = NoPage
  /\ threads' = [threads EXCEPT ![running] = [entered |-> entered, regs |-> regs]]
  /\ regs' = host_regs
  /\ UNCHANGED <<type, owner, state, data, insecure, host_regs>>

exit == leave_secure_world(FALSE) /\ answer' = "SUCCESS"

handle_trap == leave_secure_world(TRUE) /\ answer' \in {"INTERRUPTED", "FAULT"}

own_data == {p \in Page : type[p] = "DATA" /\ owner[p] = current_addrspace}

(* A secret that is read stays in the registers until they are switched.   *)
learn(v) == regs' \in {regs, All(v)}

enclave_read ==
  /\ ~Host
  /\ \E p \in own_data : learn(data[p])
  /\ UNCHANGED <<type, owner, state, threads, data, insecure, running, host_regs,
                 answer>>

enclave_write ==
  /\ ~Host
  /\ \E p \in own_data : data' = [data EXCEPT ![p] = regs.gprs]
  /\ UNCHANGED <<type, owner, state, threads, insecure, running, regs, host_regs,
                 answer>>

(* The host's and the enclave's accesses to insecure pages; what an        *)
(* enclave writes there it gives away on purpose.                          *)
insecure_read ==
  /\ \E f \in InsecurePage : learn(insecure[f])
  /\ UNCHANGED <<type, owner, state, threads, data, insecure, running, host_regs,
                 answer>>

insecure_write ==
  /\ \E f \in InsecurePage :
       insecure' = [insecure EXCEPT ![f] = IF Host THEN regs.gprs ELSE Public]
  /\ UNCHANGED <<type, owner, state, threads, data, running, regs, host_regs,
                 answer>>

compute ==
  /\ ~Host
  /\ regs' = All(current_addrspace)
  /\ UNCHANGED <<type, owner, state, threads, data, insecure, running, host_regs,
                 answer>>

Next ==
  \/ init_addrspace \/ add_page \/ remove \/ finalise \/ stop
  \/ no_effect \/ refuse \/ enter \/ resume \/ exit \/ handle_trap
  \/ enclave_read \/ enclave_write \/ insecure_read \/ insecure_write \/ compute

Spec == Init /\ [][Next]_vars
=============================================================================
