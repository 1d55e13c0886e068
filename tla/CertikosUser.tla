---------------------------- MODULE CertikosUser ----------------------------
(***************************************************************************)
(* The library that the processes of monitors/certikos/user are linked     *)
(* with, on top of the monitor.  Its static variables exist once in every  *)
(* process.                                                                *)
(***************************************************************************)
EXTENDS Certikos

CONSTANTS
  ImagePages,   \* stack, code and data that load_elf puts at phys_start
  SetupPages    \* page tables that lib_setup allocates

VARIABLES
  user,          \* "new", "main", or "stuck" in the loop of a failed assert
  avail_quota,
  alloc_next,    \* as a page number
  next_pid

lib == <<user, avail_quota, alloc_next, next_pid>>
user_vars == <<vars, lib>>

UserInit ==
  /\ Init
  /\ user = [p \in Pid |-> "new"]
  /\ avail_quota = [p \in Pid |-> -1]
  /\ alloc_next = [p \in Pid |-> -1]
  /\ next_pid = [p \in Pid |-> -1]

me == current_pid

(* n calls of boot_alloc, each of which asserts that a page is available.  *)
boot_alloc(n, avail, from) ==
  /\ avail_quota' = [avail_quota EXCEPT ![me] = IF avail < n THEN 0 ELSE avail - n]
  /\ alloc_next' = [alloc_next EXCEPT ![me] = IF avail < n THEN from + avail ELSE from + n]
  /\ user' = [user EXCEPT ![me] = IF avail < n THEN "stuck" ELSE "main"]

(* lib_setup counts what is left behind the image and allocates the page   *)
(* tables.                                                                 *)
lib_setup(mid) == boot_alloc(SetupPages, upper[me] - mid, mid)

(* load_elf asks for the quota and asserts that the image fits; its entry  *)
(* point calls lib_setup.                                                  *)
start ==
  /\ halted = "no" /\ user[me] = "new"
  /\ LET mid == lower[me] + ImagePages
     IN  \/ /\ mid <= upper[me]
            /\ lib_setup(mid)
         \/ /\ mid > upper[me]
            /\ user' = [user EXCEPT ![me] = "stuck"]
            /\ UNCHANGED <<avail_quota, alloc_next>>
  /\ sys_no_effect
  /\ UNCHANGED next_pid

(* The page tables that vm_map may have to allocate on its way down.       *)
vm_map == 0 .. 2

(* The first access to a page of bss maps a new page.                      *)
do_page_fault ==
  /\ halted = "no" /\ user[me] = "main"
  /\ \E n \in vm_map : boot_alloc(1 + n, avail_quota[me], alloc_next[me])
  /\ UNCHANGED <<vars, next_pid>>

spawn ==
  /\ halted = "no" /\ user[me] = "main"
  /\ LET pid == IF next_pid[me] < 0 THEN me * NR_CHILDREN ELSE next_pid[me]
     IN  /\ next_pid' = [next_pid EXCEPT ![me] = pid + 1]
         /\ \E quota \in QuotaArg : sys_spawn(quota, pid)
  /\ UNCHANGED <<user, avail_quota, alloc_next>>

yield == user[me] = "main" /\ sys_yield /\ UNCHANGED lib

UserNext == start \/ do_page_fault \/ spawn \/ yield

UserSpec == UserInit /\ [][UserNext]_user_vars

-----------------------------------------------------------------------------
(* `maintain quota in user space': the pages that a process still counts   *)
(* as available are pages that it has.                                     *)
QuotaMaintained ==
  \A p \in running :
    user[p] = "main" => range(alloc_next[p], alloc_next[p] + avail_quota[p]) \subseteq holds(p)
=============================================================================
