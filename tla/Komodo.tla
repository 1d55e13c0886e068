------------------------------- MODULE Komodo -------------------------------
(***************************************************************************)
(* The Komodo enclave monitor (monitors/komodo): the page database, the    *)
(* SMC calls the host makes, the SVC call and the traps of an enclave, and *)
(* the memory accesses that the processor lets host and enclaves perform   *)
(* between two calls.                                                      *)
(*                                                                         *)
(* The monitor runs on one hart, in M-mode, with interrupts disabled: a    *)
(* call or a trap is handled without interruption, so each is one action.  *)
(* What interleaves is the calls of the host, and the accesses, calls and  *)
(* traps of the enclave that runs in between.                              *)
(***************************************************************************)
EXTENDS Naturals, FiniteSets

CONSTANTS
  Page,            \* page numbers below KOM_SECURE_NPAGES
  PageZero,        \* page number 0
  NoPage,          \* ~UINT64_C(0), and "no frame" in an empty table entry
  InsecurePage,    \* page numbers below KOM_INSECURE_NPAGES
  Index,           \* page-table indices below PTRS_PER_PTE
  Arg,             \* what callers pass, valid or not: Arg.l1pt are the page
                   \* numbers passed where the call wants an L1 table, ...
  Mapping,         \* permission sets that callers ask for
  HostRoot,        \* a satp value of the host: page tables of its own making
  Public           \* a value that reveals nothing about any enclave

ASSUME PageAssumption ==
  /\ IsFiniteSet(Page)
  /\ PageZero \in Page
  /\ NoPage \notin Page \cup InsecurePage
  /\ Page \cap InsecurePage = {}
  /\ HostRoot \notin Page
  /\ Public \notin Page
  /\ Mapping \subseteq SUBSET {"R", "W", "X"}

VARIABLES
  type,            \* g_pagedb[p].type
  addrspace_page,  \* g_pagedb[p].addrspace_page
  secure_pages,    \* the contents of the secure pages
  insecure_pages,  \* the contents of the insecure pages (_payload_start)
  host_state,      \* the registers and CSRs saved by enter_secure_world
  enclave_mode,
  g_cur_dispatcher_pageno,
  ctx,             \* the live registers and CSRs of S-mode, mepc apart
  mepc,            \* where the next mret goes, or the last one went
  tlb,             \* the page-table roots whose translations may be cached
  pmp5cfg,         \* whether pmp5cfg grants access to the secure pages
  tvm,             \* mstatus.TVM: satp is out of reach of S-mode
  deleg,           \* whether mideleg and medeleg delegate traps to S-mode
  a0               \* the last result the monitor put in the host's a0

db == <<type, addrspace_page>>
memory == <<secure_pages, insecure_pages>>
world == <<host_state, enclave_mode, g_cur_dispatcher_pageno>>
cpu == <<tlb, pmp5cfg, tvm, deleg>>
vars == <<db, memory, world, ctx, mepc, cpu, a0>>

-----------------------------------------------------------------------------
(***************************************************************************)
(* Data.  A value is abstracted to the enclave it is a secret of, named by *)
(* its address-space page, or Public.  A context is what a0, a1 and a2     *)
(* (args), the other general registers and the CSRs of csrs.h hold, with   *)
(* the two CSRs that steer execution apart: satp, and mepc, which is the   *)
(* entry point, the instruction that trapped, or the one after it.         *)
(***************************************************************************)
Val == Page \cup {Public}
Root == Page \cup {HostRoot}
Frame == Page \cup InsecurePage

Context == [args: Val, regs: Val, csrs: Val, satp: Root]
Pc == {"entry", "insn", "after"}

PageType == {"FREE", "ADDRSPACE", "DISPATCHER", "L1PTABLE", "L2PTABLE",
             "L3PTABLE", "DATA"}

AddrspaceState == {"INIT", "FINAL", "STOPPED"}

(* A secure page is 4096 bytes that the code reads through one of several  *)
(* structures; `kind' says through which one they were last written.       *)
AddrspaceContent ==
  [kind: {"addrspace"}, l1pt_page: Page, refcount: Nat, state: AddrspaceState]

DispatcherContent ==
  [kind: {"dispatcher"}, entered: BOOLEAN, saved: Context, mepc: Pc]

Entry == [frame: Frame \cup {NoPage}, prot: SUBSET {"R", "W", "X"}]

TableContent == [kind: {"table"}, entry: [Index -> Entry]]

DataContent == [kind: {"data"}, val: Val]

(* Every register holds v.                                                 *)
filled(v, root) == [args |-> v, regs |-> v, csrs |-> v, satp |-> root]

NoEntry == [frame |-> NoPage, prot |-> {}]
ZeroTable == [kind |-> "table", entry |-> [i \in Index |-> NoEntry]]
Data(v) == [kind |-> "data", val |-> v]

Error == {"SUCCESS", "INVALID_PAGENO", "PAGEINUSE", "INVALID_ADDRSPACE",
          "ALREADY_FINAL", "NOT_FINAL", "INVALID_MAPPING", "ADDRINUSE",
          "NOT_STOPPED", "INTERRUPTED", "FAULT", "ALREADY_ENTERED",
          "NOT_ENTERED", "ENOSYS"}

-----------------------------------------------------------------------------
(***************************************************************************)
(* Helpers of monitor.c.                                                   *)
(***************************************************************************)
page_is_valid(p) == p \in Page

page_is_typed(p, t) == page_is_valid(p) /\ type[p] = t

page_is_free(p) == page_is_typed(p, "FREE")

insecure_page_is_valid(f) == f \in InsecurePage

index_is_valid(i) == i \in Index

addrspace_state(p) == secure_pages[p].state

(* Mutation: a page in use is allocated again.                             *)
allocate_page_err_in_use(page, asp) ==
  IF ~page_is_valid(page) THEN "INVALID_PAGENO"
  ELSE IF addrspace_state(asp) # "INIT" THEN "ALREADY_FINAL"
  ELSE "SUCCESS"

(* The error allocate_page returns for a page wanted by address space asp. *)
allocate_page_err(page, asp) ==
  IF ~page_is_valid(page) THEN "INVALID_PAGENO"
  ELSE IF ~page_is_free(page) THEN "PAGEINUSE"
  ELSE IF addrspace_state(asp) # "INIT" THEN "ALREADY_FINAL"
  ELSE "SUCCESS"

(* What allocate_page does on success: the page is cleared, typed, owned   *)
(* and counted.  zero is the cleared page seen as a page of type t, with   *)
(* the caller's own stores into it.                                        *)
allocate_page(page, asp, t, zero) ==
  /\ type' = [type EXCEPT ![page] = t]
  /\ addrspace_page' = [addrspace_page EXCEPT ![page] = asp]
  /\ secure_pages' = [secure_pages EXCEPT ![page] = zero,
                                          ![asp].refcount = @ + 1]

(* Mutation: refcount++ is forgotten.                                      *)
allocate_and_link_uncounted(page, asp, t, zero, tbl, i, prot) ==
  /\ type' = [type EXCEPT ![page] = t]
  /\ addrspace_page' = [addrspace_page EXCEPT ![page] = asp]
  /\ secure_pages' =
       [secure_pages EXCEPT ![page] = zero,
                            ![tbl].entry[i] = [frame |-> page, prot |-> prot]]

(* The same, for a page that is also linked from entry i of table tbl.     *)
allocate_and_link(page, asp, t, zero, tbl, i, prot) ==
  /\ type' = [type EXCEPT ![page] = t]
  /\ addrspace_page' = [addrspace_page EXCEPT ![page] = asp]
  /\ secure_pages' =
       [secure_pages EXCEPT ![page] = zero,
                            ![asp].refcount = @ + 1,
                            ![tbl].entry[i] = [frame |-> page, prot |-> prot]]

(* do_smc_calls: an ecall of the host, answered with err in a0; mepc is    *)
(* moved past the ecall before the call is dispatched.                     *)
smc_return(err) ==
  /\ ~enclave_mode
  /\ a0' = err
  /\ mepc' = "after"
  /\ UNCHANGED <<insecure_pages, world, ctx, cpu>>

Init ==
  /\ type = [p \in Page |-> "FREE"]
  /\ addrspace_page = [p \in Page |-> PageZero]
  /\ secure_pages = [p \in Page |-> Data(Public)]
  /\ insecure_pages = [f \in InsecurePage |-> Public]
  /\ host_state = [saved |-> filled(Public, HostRoot), mepc |-> "entry"]
  /\ enclave_mode = FALSE
  /\ g_cur_dispatcher_pageno = PageZero
  /\ ctx = filled(Public, HostRoot)
  /\ mepc = "entry"
  /\ tlb = {HostRoot}
  /\ pmp5cfg = FALSE
  /\ tvm = FALSE
  /\ deleg = TRUE
  /\ a0 = "SUCCESS"

-----------------------------------------------------------------------------
(***************************************************************************)
(* Building an enclave.                                                    *)
(***************************************************************************)
init_addrspace_err(asp, l1pt) ==
  IF asp = l1pt \/ ~page_is_valid(asp) \/ ~page_is_valid(l1pt)
    THEN "INVALID_PAGENO"
  ELSE IF ~page_is_free(asp) \/ ~page_is_free(l1pt) THEN "PAGEINUSE"
  ELSE "SUCCESS"

kom_smc_init_addrspace(asp, l1pt) ==
  LET err == init_addrspace_err(asp, l1pt)
  IN  /\ smc_return(err)
      /\ \/ /\ err = "SUCCESS"
            /\ type' = [type EXCEPT ![asp] = "ADDRSPACE", ![l1pt] = "L1PTABLE"]
            /\ addrspace_page' = [addrspace_page EXCEPT ![asp] = asp, ![l1pt] = asp]
            /\ secure_pages' =
                 [secure_pages EXCEPT
                    ![asp] = [kind |-> "addrspace", l1pt_page |-> l1pt,
                             refcount |-> 2, state |-> "INIT"],
                    ![l1pt] = ZeroTable]
         \/ /\ err # "SUCCESS"
            /\ UNCHANGED <<db, secure_pages>>

init_dispatcher_err(page, asp) ==
  IF ~page_is_typed(asp, "ADDRSPACE") THEN "INVALID_ADDRSPACE"
  ELSE allocate_page_err(page, asp)

(* Mutation: the page is not cleared, an old dispatcher's registers stay.  *)
kom_smc_init_dispatcher_uncleared(page, asp) ==
  LET err == init_dispatcher_err(page, asp)
      old == secure_pages[page]
      zero == [kind |-> "dispatcher", entered |-> FALSE, mepc |-> "entry",
               saved |-> filled(Public, secure_pages[asp].l1pt_page)]
  IN  /\ smc_return(err)
      /\ \/ /\ err = "SUCCESS"
            /\ allocate_page(page, asp, "DISPATCHER",
                 IF old.kind = "dispatcher"
                   THEN [zero EXCEPT !.saved.regs = old.saved.regs] ELSE zero)
         \/ /\ err # "SUCCESS"
            /\ UNCHANGED <<db, secure_pages>>

kom_smc_init_dispatcher(page, asp) ==
  LET err == init_dispatcher_err(page, asp)
  IN  /\ smc_return(err)
      /\ \/ /\ err = "SUCCESS"
            /\ allocate_page(page, asp, "DISPATCHER",
                 [kind |-> "dispatcher", entered |-> FALSE, mepc |-> "entry",
                  saved |-> filled(Public, secure_pages[asp].l1pt_page)])
         \/ /\ err # "SUCCESS"
            /\ UNCHANGED <<db, secure_pages>>

(* kom_smc_init_l2ptable and kom_smc_init_l3ptable differ in the types of  *)
(* the table that is linked from (upper) and of the new one (lower).       *)
init_ptable_err(page, tbl, i, upper) ==
  IF ~index_is_valid(i) THEN "INVALID_MAPPING"
  ELSE IF ~page_is_typed(tbl, upper) THEN "INVALID_PAGENO"
  ELSE IF secure_pages[tbl].entry[i] # NoEntry THEN "ADDRINUSE"
  ELSE allocate_page_err(page, addrspace_page[tbl])

(* Mutation: the page is not cleared, an old table's entries stay.         *)
init_ptable_uncleared(page, tbl, i, upper, lower) ==
  LET err == init_ptable_err(page, tbl, i, upper)
      old == IF secure_pages[page].kind = "table" THEN secure_pages[page] ELSE ZeroTable
  IN  /\ smc_return(err)
      /\ \/ /\ err = "SUCCESS"
            /\ allocate_and_link(page, addrspace_page[tbl], lower, old, tbl, i, {})
         \/ /\ err # "SUCCESS"
            /\ UNCHANGED <<db, secure_pages>>

init_ptable(page, tbl, i, upper, lower) ==
  LET err == init_ptable_err(page, tbl, i, upper)
  IN  /\ smc_return(err)
      /\ \/ /\ err = "SUCCESS"
            /\ allocate_and_link(page, addrspace_page[tbl], lower, ZeroTable,
                                 tbl, i, {})
         \/ /\ err # "SUCCESS"
            /\ UNCHANGED <<db, secure_pages>>

kom_smc_init_l2ptable(page, l1pt, i) ==
  init_ptable(page, l1pt, i, "L1PTABLE", "L2PTABLE")

kom_smc_init_l3ptable(page, l2pt, i) ==
  init_ptable(page, l2pt, i, "L2PTABLE", "L3PTABLE")

map_secure_err(page, l3pt, i, content) ==
  IF ~index_is_valid(i) THEN "INVALID_MAPPING"
  ELSE IF ~insecure_page_is_valid(content) THEN "INVALID_PAGENO"
  ELSE IF ~page_is_typed(l3pt, "L3PTABLE") THEN "INVALID_PAGENO"
  ELSE IF secure_pages[l3pt].entry[i] # NoEntry THEN "ADDRINUSE"
  ELSE allocate_page_err(page, addrspace_page[l3pt])

(* The new page is a copy of the insecure page content.                    *)
kom_smc_map_secure(page, l3pt, i, mapping, content) ==
  LET err == map_secure_err(page, l3pt, i, content)
  IN  /\ smc_return(err)
      /\ \/ /\ err = "SUCCESS"
            /\ allocate_and_link(page, addrspace_page[l3pt], "DATA",
                                 Data(insecure_pages[content]), l3pt, i, mapping)
         \/ /\ err # "SUCCESS"
            /\ UNCHANGED <<db, secure_pages>>

(* Mutation: the state of the address space is not looked at.              *)
map_insecure_err_any_state(l3pt, i, f) ==
  IF ~insecure_page_is_valid(f) THEN "INVALID_PAGENO"
  ELSE IF ~index_is_valid(i) THEN "INVALID_MAPPING"
  ELSE IF ~page_is_typed(l3pt, "L3PTABLE") THEN "INVALID_PAGENO"
  ELSE IF secure_pages[l3pt].entry[i] # NoEntry THEN "ADDRINUSE"
  ELSE "SUCCESS"

map_insecure_err(l3pt, i, f) ==
  IF ~insecure_page_is_valid(f) THEN "INVALID_PAGENO"
  ELSE IF ~index_is_valid(i) THEN "INVALID_MAPPING"
  ELSE IF ~page_is_typed(l3pt, "L3PTABLE") THEN "INVALID_PAGENO"
  ELSE IF secure_pages[l3pt].entry[i] # NoEntry THEN "ADDRINUSE"
  ELSE IF addrspace_state(addrspace_page[l3pt]) # "INIT" THEN "ALREADY_FINAL"
  ELSE "SUCCESS"

kom_smc_map_insecure(l3pt, i, mapping, f) ==
  LET err == map_insecure_err(l3pt, i, f)
  IN  /\ smc_return(err)
      /\ UNCHANGED db
      /\ \/ /\ err = "SUCCESS"
            /\ secure_pages' =
                 [secure_pages EXCEPT
                    ![l3pt].entry[i] = [frame |-> f, prot |-> mapping]]
         \/ /\ err # "SUCCESS"
            /\ UNCHANGED secure_pages

-----------------------------------------------------------------------------
(***************************************************************************)
(* The life of an enclave: INIT until it is finalised, FINAL while it may  *)
(* run, STOPPED while its pages are taken back.                            *)
(***************************************************************************)
(* Mutation: an address space is removed whatever still refers to it.      *)
remove_err_referenced(page) ==
  IF ~page_is_valid(page) THEN "INVALID_PAGENO"
  ELSE IF type[page] = "FREE" THEN "SUCCESS"
  ELSE IF addrspace_state(addrspace_page[page]) # "STOPPED" THEN "NOT_STOPPED"
  ELSE "SUCCESS"

(* Mutation: a page is taken from an address space that is not stopped.    *)
remove_err_live(page) ==
  IF ~page_is_valid(page) THEN "INVALID_PAGENO"
  ELSE IF type[page] = "ADDRSPACE" /\ secure_pages[page].refcount # 1 THEN "PAGEINUSE"
  ELSE "SUCCESS"

remove_err(page) ==
  IF ~page_is_valid(page) THEN "INVALID_PAGENO"
  ELSE IF type[page] = "FREE" THEN "SUCCESS"
  ELSE IF type[page] = "ADDRSPACE"
    THEN IF secure_pages[page].refcount # 1 THEN "PAGEINUSE"
         ELSE IF addrspace_state(page) # "STOPPED" THEN "NOT_STOPPED"
         ELSE "SUCCESS"
  ELSE IF addrspace_state(addrspace_page[page]) # "STOPPED" THEN "NOT_STOPPED"
  ELSE "SUCCESS"

(* The bytes of the page, and the entries that point to it, stay.          *)
kom_smc_remove(page) ==
  LET err == remove_err(page)
      asp  == IF type[page] = "ADDRSPACE" THEN page ELSE addrspace_page[page]
  IN  /\ smc_return(err)
      /\ \/ /\ err = "SUCCESS" /\ ~page_is_free(page)
            /\ secure_pages' = [secure_pages EXCEPT ![asp].refcount = @ - 1]
            /\ type' = [type EXCEPT ![page] = "FREE"]
            /\ addrspace_page' = [addrspace_page EXCEPT ![page] = NoPage]
         \/ /\ ~(err = "SUCCESS" /\ ~page_is_free(page))
            /\ UNCHANGED <<db, secure_pages>>

finalise_err(asp) ==
  IF ~page_is_typed(asp, "ADDRSPACE") THEN "INVALID_ADDRSPACE"
  ELSE IF addrspace_state(asp) # "INIT" THEN "ALREADY_FINAL"
  ELSE "SUCCESS"

kom_smc_finalise(asp) ==
  LET err == finalise_err(asp)
  IN  /\ smc_return(err)
      /\ UNCHANGED db
      /\ \/ /\ err = "SUCCESS"
            /\ secure_pages' = [secure_pages EXCEPT ![asp].state = "FINAL"]
         \/ /\ err # "SUCCESS"
            /\ UNCHANGED secure_pages

stop_err(asp) ==
  IF ~page_is_typed(asp, "ADDRSPACE") THEN "INVALID_ADDRSPACE" ELSE "SUCCESS"

kom_smc_stop(asp) ==
  LET err == stop_err(asp)
  IN  /\ smc_return(err)
      /\ UNCHANGED db
      /\ \/ /\ err = "SUCCESS"
            /\ secure_pages' = [secure_pages EXCEPT ![asp].state = "STOPPED"]
         \/ /\ err # "SUCCESS"
            /\ UNCHANGED secure_pages

(* kom_smc_query, kom_smc_get_phys_pages, and any number that is no call:  *)
(* only the answer differs.                                                *)
smc_no_effect(answer) ==
  /\ smc_return(answer)
  /\ UNCHANGED <<db, secure_pages>>

-----------------------------------------------------------------------------
(***************************************************************************)
(* Entering and leaving an enclave.                                        *)
(***************************************************************************)
(* Mutation: the TLB is not flushed.                                       *)
enter_without_flush(disp, dispatcher) ==
  /\ ~enclave_mode
  /\ host_state' = [saved |-> ctx, mepc |-> "after"]
  /\ ctx' = dispatcher.saved
  /\ mepc' = dispatcher.mepc
  /\ pmp5cfg' = TRUE
  /\ tvm' = TRUE
  /\ deleg' = FALSE
  /\ tlb' = tlb \cup {dispatcher.saved.satp}
  /\ enclave_mode' = TRUE
  /\ g_cur_dispatcher_pageno' = disp

(* The host's context is kept and the one that page disp holds, dispatcher, *)
(* goes live.                                                              *)
enter_secure_world(disp, dispatcher) ==
  /\ ~enclave_mode
  /\ host_state' = [saved |-> ctx, mepc |-> "after"]
  /\ ctx' = dispatcher.saved
  /\ mepc' = dispatcher.mepc
  /\ pmp5cfg' = TRUE
  /\ tvm' = TRUE
  /\ deleg' = FALSE
  /\ tlb' = {dispatcher.saved.satp}
  /\ enclave_mode' = TRUE
  /\ g_cur_dispatcher_pageno' = disp

(* Mutation: the current dispatcher becomes ~0, not 0.                    *)
leave_to_no_page(entered, pc) ==
  /\ secure_pages' =
       [secure_pages EXCEPT
          ![g_cur_dispatcher_pageno] =
             [kind |-> "dispatcher", entered |-> entered, mepc |-> pc,
              saved |-> ctx]]
  /\ ctx' = host_state.saved
  /\ mepc' = host_state.mepc
  /\ pmp5cfg' = FALSE
  /\ tvm' = FALSE
  /\ deleg' = TRUE
  /\ tlb' = {host_state.saved.satp}
  /\ enclave_mode' = FALSE
  /\ g_cur_dispatcher_pageno' = NoPage
  /\ UNCHANGED host_state

(* The live context, stopped at pc, goes to the dispatcher and the host's  *)
(* comes back.                                                             *)
leave_secure_world(entered, pc) ==
  /\ secure_pages' =
       [secure_pages EXCEPT
          ![g_cur_dispatcher_pageno] =
             [kind |-> "dispatcher", entered |-> entered, mepc |-> pc,
              saved |-> ctx]]
  /\ ctx' = host_state.saved
  /\ mepc' = host_state.mepc
  /\ pmp5cfg' = FALSE
  /\ tvm' = FALSE
  /\ deleg' = TRUE
  /\ tlb' = {host_state.saved.satp}
  /\ enclave_mode' = FALSE
  /\ g_cur_dispatcher_pageno' = PageZero
  /\ UNCHANGED host_state

(* Mutation: an interrupted dispatcher is entered again.                   *)
enter_err_interrupted(disp) ==
  IF ~page_is_typed(disp, "DISPATCHER") THEN "INVALID_PAGENO"
  ELSE IF addrspace_state(addrspace_page[disp]) # "FINAL" THEN "NOT_FINAL"
  ELSE "SUCCESS"

enter_err(disp) ==
  IF ~page_is_typed(disp, "DISPATCHER") THEN "INVALID_PAGENO"
  ELSE IF addrspace_state(addrspace_page[disp]) # "FINAL" THEN "NOT_FINAL"
  ELSE IF secure_pages[disp].entered THEN "ALREADY_ENTERED"
  ELSE "SUCCESS"

(* Mutation: a dispatcher that was not interrupted is resumed.             *)
resume_err_any(disp) ==
  IF ~page_is_typed(disp, "DISPATCHER") THEN "INVALID_PAGENO"
  ELSE IF addrspace_state(addrspace_page[disp]) # "FINAL" THEN "NOT_FINAL"
  ELSE "SUCCESS"

resume_err(disp) ==
  IF ~page_is_typed(disp, "DISPATCHER") THEN "INVALID_PAGENO"
  ELSE IF addrspace_state(addrspace_page[disp]) # "FINAL" THEN "NOT_FINAL"
  ELSE IF ~secure_pages[disp].entered THEN "NOT_ENTERED"
  ELSE "SUCCESS"

(* The call's three arguments become the a0, a1 and a2 that the enclave    *)
(* starts with; arg is what the host had in its registers.                 *)
kom_smc_enter(disp, arg) ==
  LET err == enter_err(disp)
      dispatcher == [secure_pages[disp] EXCEPT !.saved.args = arg]
  IN  /\ UNCHANGED db
      /\ \/ /\ err = "SUCCESS"
            /\ secure_pages' = [secure_pages EXCEPT ![disp] = dispatcher]
            /\ enter_secure_world(disp, dispatcher)
            /\ UNCHANGED <<insecure_pages, a0>>
         \/ /\ err # "SUCCESS"
            /\ smc_return(err)
            /\ UNCHANGED secure_pages

kom_smc_resume(disp) ==
  LET err == resume_err(disp)
  IN  /\ UNCHANGED <<db, secure_pages>>
      /\ \/ /\ err = "SUCCESS"
            /\ enter_secure_world(disp, secure_pages[disp])
            /\ UNCHANGED <<insecure_pages, a0>>
         \/ /\ err # "SUCCESS"
            /\ smc_return(err)

(* Mutation: an enclave that exited is left as entered.                    *)
kom_svc_exit_entered ==
  /\ enclave_mode
  /\ a0' = "SUCCESS"
  /\ leave_secure_world(TRUE, "after")
  /\ UNCHANGED <<db, insecure_pages>>

(* The exit value is what the enclave chose to tell the host.              *)
kom_svc_exit ==
  /\ enclave_mode
  /\ a0' = "SUCCESS"
  /\ leave_secure_world(FALSE, "after")
  /\ UNCHANGED <<db, insecure_pages>>

(* do_svc_calls: any other ecall of an enclave is answered with -ENOSYS.   *)
svc_unknown ==
  /\ enclave_mode
  /\ mepc' = "after"
  /\ UNCHANGED <<db, memory, world, ctx, cpu, a0>>

(* Mutation: an interrupted enclave is not marked as entered.              *)
kom_handle_trap_restart(cause) ==
  /\ a0' = IF cause = "interrupt" THEN "INTERRUPTED" ELSE "FAULT"
  /\ leave_secure_world(FALSE, "insn")
  /\ UNCHANGED <<db, insecure_pages>>

kom_handle_trap(cause) ==
  /\ a0' = IF cause = "interrupt" THEN "INTERRUPTED" ELSE "FAULT"
  /\ leave_secure_world(TRUE, "insn")
  /\ UNCHANGED <<db, insecure_pages>>

(* do_trap for anything but an ecall from S-mode.  A delegated trap does   *)
(* not come here; of the others, those of the host are ignored.            *)
do_trap(cause) ==
  \/ /\ enclave_mode
     /\ ~deleg
     /\ kom_handle_trap(cause)
  \/ /\ ~enclave_mode
     /\ mepc' = "insn"
     /\ UNCHANGED <<db, memory, world, ctx, cpu, a0>>

-----------------------------------------------------------------------------
(***************************************************************************)
(* What the processor lets the running S-mode software do between two      *)
(* traps: load and store through a three-level table walk from any root    *)
(* whose translations may be in the TLB, within what the PMP grants.  Bits *)
(* that no call wrote as a table may translate to any frame.               *)
(***************************************************************************)
is_table(f) == f \in Page /\ secure_pages[f].kind = "table"

entries(f) == {secure_pages[f].entry[i] : i \in Index} \ {NoEntry}

next_tables(S) ==
  UNION {IF is_table(f) THEN {e.frame : e \in {x \in entries(f) : x.prot = {}}}
                        ELSE Frame : f \in S}

leaves(S, access) ==
  UNION {IF is_table(f)
           THEN {e.frame : e \in {x \in entries(f) : {"R", access} \subseteq x.prot}}
           ELSE Frame : f \in S}

walk(root, access) ==
  IF root = HostRoot THEN Frame
  ELSE leaves(next_tables(next_tables({root})), access)

accessible(access) ==
  {f \in UNION {walk(r, access) : r \in tlb} : f \in InsecurePage \/ pmp5cfg}

values_at(f) ==
  IF f \in InsecurePage THEN {insecure_pages[f]}
  ELSE IF secure_pages[f].kind = "data" THEN {secure_pages[f].val}
  ELSE IF secure_pages[f].kind = "dispatcher"
    THEN LET c == secure_pages[f].saved IN {c.args, c.regs, c.csrs}
  ELSE {Public}

(* Registers and CSRs keep the secret they hold when one of them gets a    *)
(* public value; software moves values between them as it likes.           *)
load ==
  \E f \in accessible("R") : \E v \in values_at(f) :
    /\ ctx' = IF v = Public THEN ctx ELSE filled(v, ctx.satp)
    /\ UNCHANGED <<db, memory, world, mepc, cpu, a0>>

(* What an enclave stores in an insecure page is meant to be shared.       *)
store ==
  \E f \in accessible("W") :
    /\ \/ /\ f \in InsecurePage
          /\ insecure_pages' = [insecure_pages EXCEPT
                                   ![f] = IF enclave_mode THEN Public ELSE ctx.regs]
          /\ UNCHANGED secure_pages
       \/ /\ f \in Page
          /\ secure_pages' = [secure_pages EXCEPT ![f] = Data(ctx.regs)]
          /\ UNCHANGED insecure_pages
    /\ UNCHANGED <<db, world, ctx, mepc, cpu, a0>>

(* An enclave computes a secret of its own.                                *)
compute ==
  /\ enclave_mode
  /\ ctx' = filled(addrspace_page[g_cur_dispatcher_pageno], ctx.satp)
  /\ UNCHANGED <<db, memory, world, mepc, cpu, a0>>

(* S-mode writes satp, unless TVM makes that trap.                         *)
write_satp ==
  /\ ~tvm
  /\ ctx' = [ctx EXCEPT !.satp = HostRoot]
  /\ tlb' = tlb \cup {HostRoot}
  /\ UNCHANGED <<db, memory, world, mepc, pmp5cfg, tvm, deleg, a0>>

-----------------------------------------------------------------------------
AnyPage == Arg.addrspace \cup Arg.dispatcher \cup Arg.l1pt \cup Arg.l2pt
             \cup Arg.l3pt \cup Arg.data

do_smc_calls ==
  \/ \E answer \in {"MAGIC", "NPAGES", "ENOSYS"} : smc_no_effect(answer)
  \/ \E asp \in Arg.addrspace, l1pt \in Arg.l1pt : kom_smc_init_addrspace(asp, l1pt)
  \/ \E p \in Arg.dispatcher, asp \in Arg.addrspace : kom_smc_init_dispatcher(p, asp)
  \/ \E p \in Arg.l2pt, l1pt \in Arg.l1pt, i \in Arg.index :
       kom_smc_init_l2ptable(p, l1pt, i)
  \/ \E p \in Arg.l3pt, l2pt \in Arg.l2pt, i \in Arg.index :
       kom_smc_init_l3ptable(p, l2pt, i)
  \/ \E p \in Arg.data, l3pt \in Arg.l3pt, i \in Arg.index, m \in Mapping,
        f \in Arg.insecure : kom_smc_map_secure(p, l3pt, i, m, f)
  \/ \E l3pt \in Arg.l3pt, i \in Arg.index, m \in Mapping, f \in Arg.insecure :
       kom_smc_map_insecure(l3pt, i, m, f)
  \/ \E p \in AnyPage : kom_smc_remove(p)
  \/ \E asp \in Arg.addrspace : kom_smc_finalise(asp) \/ kom_smc_stop(asp)
  \/ \E p \in Arg.dispatcher, arg \in {ctx.args, ctx.regs} : kom_smc_enter(p, arg)
  \/ \E p \in Arg.dispatcher : kom_smc_resume(p)

do_svc_calls == kom_svc_exit \/ svc_unknown

software == load \/ store \/ compute \/ write_satp

Next ==
  \/ do_smc_calls
  \/ do_svc_calls
  \/ \E cause \in {"interrupt", "exception"} : do_trap(cause)
  \/ software

Spec == Init /\ [][Next]_vars

-----------------------------------------------------------------------------
(* The state variables have their types, and a page holds the structure    *)
(* that its type in the page database promises.                            *)
TypeOK ==
  /\ type \in [Page -> PageType]
  /\ addrspace_page \in [Page -> Page \cup {NoPage}]
  /\ secure_pages \in [Page -> AddrspaceContent \cup DispatcherContent
                              \cup TableContent \cup DataContent]
  /\ insecure_pages \in [InsecurePage -> Val]
  /\ host_state \in [saved: Context, mepc: Pc]
  /\ enclave_mode \in BOOLEAN
  /\ g_cur_dispatcher_pageno \in Page
  /\ ctx \in Context
  /\ mepc \in Pc
  /\ tlb \in SUBSET Root
  /\ pmp5cfg \in BOOLEAN
  /\ tvm \in BOOLEAN
  /\ deleg \in BOOLEAN
  /\ a0 \in Error \cup {"MAGIC", "NPAGES"}
-----------------------------------------------------------------------------
(***************************************************************************)
(* Invariants.                                                             *)
(***************************************************************************)
owned(asp) == {p \in Page : type[p] # "FREE" /\ addrspace_page[p] = asp}

is_addrspace(p) == page_is_typed(p, "ADDRSPACE")

is_dispatcher(p) == page_is_typed(p, "DISPATCHER")

is_ptable(p) == page_is_valid(p) /\ type[p] \in {"L1PTABLE", "L2PTABLE", "L3PTABLE"}

cur_addrspace == addrspace_page[g_cur_dispatcher_pageno]

(* Every page in use belongs to an address space that is itself in use     *)
(* (what the `#if 0' of allocate_page wonders about), holds the structure  *)
(* its type promises, and, if it is a dispatcher, translates through the   *)
(* L1 table of its own address space; that table is there until the        *)
(* address space is stopped.                                               *)
Ownership ==
  /\ \A p \in Page : type[p] # "FREE" => is_addrspace(addrspace_page[p])
  /\ \A p \in Page : is_addrspace(p) =>
       /\ addrspace_page[p] = p
       /\ secure_pages[p] \in AddrspaceContent
       /\ addrspace_state(p) # "STOPPED" =>
            /\ page_is_typed(secure_pages[p].l1pt_page, "L1PTABLE")
            /\ addrspace_page[secure_pages[p].l1pt_page] = p
  /\ \A p \in Page : is_dispatcher(p) =>
       /\ secure_pages[p] \in DispatcherContent
       /\ secure_pages[p].saved.satp = secure_pages[addrspace_page[p]].l1pt_page
  /\ \A p \in Page : is_ptable(p) => secure_pages[p] \in TableContent
  /\ \A p \in Page : page_is_typed(p, "DATA") => secure_pages[p] \in DataContent

(* The reference count of an address space is the number of pages it owns, *)
(* itself included: an address space is removed exactly when nothing else  *)
(* refers to it.                                                           *)
Refcount ==
  \A asp \in Page :
    is_addrspace(asp) => secure_pages[asp].refcount = Cardinality(owned(asp))

(* Until its address space is stopped, a table links only to pages of that *)
(* address space, of the type of the next level, or from the last level to *)
(* its data pages and to insecure pages.                                   *)
live(p) == addrspace_state(addrspace_page[p]) # "STOPPED"

links_to(p, e, t) ==
  page_is_typed(e.frame, t) /\ addrspace_page[e.frame] = addrspace_page[p]

well_linked(p, e) ==
  \/ e = NoEntry
  \/ type[p] = "L1PTABLE" /\ e.prot = {} /\ links_to(p, e, "L2PTABLE")
  \/ type[p] = "L2PTABLE" /\ e.prot = {} /\ links_to(p, e, "L3PTABLE")
  \/ type[p] = "L3PTABLE" /\ links_to(p, e, "DATA")
  \/ type[p] = "L3PTABLE" /\ insecure_page_is_valid(e.frame)

PageTables ==
  \A p \in Page : is_ptable(p) /\ live(p) =>
    \A i \in Index : well_linked(p, secure_pages[p].entry[i])

(* No page is mapped twice in an address space that is not stopped.        *)
NoAlias ==
  \A p, q \in Page : \A i, j \in Index :
    /\ is_ptable(p) /\ is_ptable(q)
    /\ live(p) /\ live(q)
    /\ secure_pages[p].entry[i].frame \in Page
    /\ secure_pages[p].entry[i].frame = secure_pages[q].entry[j].frame
    => p = q /\ i = j

(* The processor is set up for the world that runs: an enclave runs from a *)
(* dispatcher of a finalised address space, with that address space's      *)
(* translations only, satp out of its reach and no trap delegated; the     *)
(* host runs with its own translations and without the secure pages.       *)
WorldSwitch ==
  \/ /\ enclave_mode
     /\ is_dispatcher(g_cur_dispatcher_pageno)
     /\ addrspace_state(cur_addrspace) = "FINAL"
     /\ ctx.satp = secure_pages[cur_addrspace].l1pt_page
     /\ tlb = {ctx.satp}
     /\ pmp5cfg /\ tvm /\ ~deleg
     /\ host_state.saved.satp = HostRoot
  \/ /\ ~enclave_mode
     /\ ctx.satp = HostRoot
     /\ tlb = {HostRoot}
     /\ ~pmp5cfg /\ ~tvm /\ deleg

(* Through its page tables an enclave reaches, among the secure pages,     *)
(* only data pages of its own address space; the host reaches none.        *)
WalkConfined ==
  \A f \in accessible("R") \cap Page :
    enclave_mode /\ page_is_typed(f, "DATA") /\ addrspace_page[f] = cur_addrspace

(* What an enclave computed is nowhere but in its own data pages and       *)
(* dispatchers, and in the registers while it runs, however pages, the     *)
(* dispatcher and the registers have been reused before.                   *)
may_hold(asp, v) == v \in {Public, asp}

context_holds(asp, c) ==
  may_hold(asp, c.args) /\ may_hold(asp, c.regs) /\ may_hold(asp, c.csrs)

Confined ==
  /\ \A f \in InsecurePage : insecure_pages[f] = Public
  /\ context_holds(Public, host_state.saved)
  /\ \A p \in Page : page_is_typed(p, "DATA") =>
       may_hold(addrspace_page[p], secure_pages[p].val)
  /\ \A p \in Page : is_dispatcher(p) =>
       context_holds(addrspace_page[p], secure_pages[p].saved)
  /\ context_holds(IF enclave_mode THEN cur_addrspace ELSE Public, ctx)

(* A dispatcher marked entered was stopped in the middle of the enclave's  *)
(* code and continues there; any other one starts at the entry point or    *)
(* after its exit call.  The host continues after its call.                *)
ResumePoint ==
  /\ \A p \in Page : is_dispatcher(p) =>
       (secure_pages[p].entered <=> secure_pages[p].mepc = "insn")
  /\ enclave_mode => host_state.mepc = "after"

-----------------------------------------------------------------------------
(***************************************************************************)
(* Action properties.                                                      *)
(***************************************************************************)
runs(asp) == enclave_mode /\ cur_addrspace = asp

(* kom_smc_enter hands what the host's registers hold to the dispatcher p  *)
(* that it starts, as its arguments.                                       *)
handed_over(p) ==
  /\ is_dispatcher(p) /\ addrspace_state(addrspace_page[p]) = "FINAL"
  /\ ~secure_pages[p].entered
  /\ ~enclave_mode /\ enclave_mode' /\ g_cur_dispatcher_pageno' = p
  /\ \E arg \in {ctx.args, ctx.regs} :
       secure_pages'[p] = [secure_pages[p] EXCEPT !.saved.args = arg]

(* The data and the saved context of an enclave change only while that     *)
(* enclave runs.  The one exception are a0, a1 and a2 of a dispatcher that *)
(* kom_smc_enter starts: those of one that was interrupted, and all its    *)
(* other registers, are out of the host's reach.                           *)
Integrity ==
  [][\A p \in Page :
       /\ type[p] \in {"DATA", "DISPATCHER"} /\ type'[p] = type[p]
       /\ secure_pages'[p] # secure_pages[p]
       => runs(addrspace_page[p]) \/ handed_over(p)]_vars

(* A finalised address space keeps its pages, their types and its page     *)
(* tables; it can only be stopped, and a stopped one only be removed, when *)
(* no page is left that names it as its owner.                             *)
frozen(asp) ==
  /\ addrspace_state(asp) = "FINAL" =>
       /\ owned(asp)' = owned(asp)
       /\ \A p \in owned(asp) :
            /\ type'[p] = type[p]
            /\ is_ptable(p) => secure_pages'[p] = secure_pages[p]
       /\ addrspace_state(asp)' \in {"FINAL", "STOPPED"}
  /\ addrspace_state(asp) = "STOPPED" =>
       \/ /\ is_addrspace(asp)' /\ addrspace_state(asp)' = "STOPPED"
          /\ owned(asp)' \subseteq owned(asp)
       \/ page_is_free(asp)' /\ owned(asp) = {asp}

(* No call of the host and no step of an enclave adds to or relinks an     *)
(* address space that kom_smc_finalise closed, or brings one back that     *)
(* kom_smc_stop stopped.                                                   *)
FinalFrozen ==
  [][\A asp \in Page : is_addrspace(asp) => frozen(asp)]_vars
=============================================================================
