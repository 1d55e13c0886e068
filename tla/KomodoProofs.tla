---------------------------- MODULE KomodoProofs ----------------------------
(***************************************************************************)
(* Proofs about the Komodo monitor, for any number of pages, indices and   *)
(* arguments: the world switches, what software does, and the theorems;    *)
(* then what each step does, page by page, given the inductive invariant.  *)
(***************************************************************************)
EXTENDS KomodoCallProofs

(* The steps below carry long contexts: Zenon, which needs no translation  *)
(* of them, goes first, and the provers get more time.                     *)
USE ZenonT(1), SMTT(30), ZenonT(20)

(***************************************************************************)
(* Steps that change no more than the saved context of a dispatcher and    *)
(* the value of a data page.                                               *)
(***************************************************************************)
KeepsStructure ==
  /\ UNCHANGED db
  /\ secure_pages' \in [Page -> Content]
  /\ \A p \in Page : is_addrspace(p) \/ is_ptable(p) =>
       secure_pages'[p] = secure_pages[p]
  /\ \A p \in Page : is_dispatcher(p) =>
       /\ secure_pages'[p] \in DispatcherContent
       /\ secure_pages'[p].saved.satp = secure_pages[p].saved.satp
  /\ \A p \in Page : page_is_typed(p, "DATA") => secure_pages'[p] \in DataContent

LEMMA StructureInv ==
  ASSUME TypeOK, Ownership, Refcount, PageTables, KeepsStructure
  PROVE  Ownership' /\ Refcount' /\ PageTables'
  <1> USE DEF KeepsStructure, db, is_addrspace, is_dispatcher, is_ptable,
              page_is_typed, page_is_valid, addrspace_state
  <1>1. Ownership'
    BY SMTT(30) DEF Ownership
  <1>2. Refcount'
    BY DEF Refcount, owned
  <1>3. PageTables'
    <2>1. SUFFICES ASSUME NEW p \in Page, is_ptable(p)', live(p)', NEW i \in Index
                   PROVE  well_linked(p, secure_pages[p].entry[i])'
      BY DEF PageTables
    <2>2. live(p) /\ secure_pages'[p] = secure_pages[p]
      BY Zenon, <2>1 DEF live, Ownership
    <2>3. well_linked(p, secure_pages[p].entry[i])
      BY <2>1, <2>2 DEF PageTables
    <2> QED
      BY Zenon, <2>2, <2>3 DEF well_linked, links_to, insecure_page_is_valid
  <1> QED
    BY <1>1, <1>2, <1>3

(* kom_smc_enter and kom_smc_resume: the dispatcher's satp is the L1 table *)
(* of a finalised address space.                                           *)
LEMMA EnterInv ==
  ASSUME Inv, NEW disp, NEW dispatcher \in DispatcherContent,
         page_is_typed(disp, "DISPATCHER"),
         addrspace_state(addrspace_page[disp]) = "FINAL",
         dispatcher.saved.satp = secure_pages[disp].saved.satp,
         secure_pages' = [secure_pages EXCEPT ![disp] = dispatcher],
         enter_secure_world(disp, dispatcher),
         UNCHANGED <<db, insecure_pages, a0>>
  PROVE  Inv'
  <1> USE DEF is_dispatcher, page_is_typed, page_is_valid
  <1>1. /\ disp \in Page /\ type[disp] = "DISPATCHER"
        /\ is_addrspace(addrspace_page[disp]) /\ addrspace_page[disp] # disp
        /\ dispatcher.saved.satp = secure_pages[addrspace_page[disp]].l1pt_page
    BY DEF Inv, Ownership, is_addrspace
  <1>2. /\ dispatcher.saved \in Context
        /\ dispatcher.mepc \in Pc
        /\ dispatcher.saved.satp \in Root
    BY DEF DispatcherContent, Context
  <1>3. /\ secure_pages' \in [Page -> Content]
        /\ secure_pages'[disp] = dispatcher
        /\ \A q \in Page \ {disp} : secure_pages'[q] = secure_pages[q]
    BY <1>1 DEF Inv, TypeOK, Content
  <1>4. KeepsStructure
    BY SMTT(30), <1>1, <1>3 DEF KeepsStructure, Inv, Ownership, is_addrspace, is_ptable
  <1>5. TypeOK'
    BY Zenon, <1>1, <1>2, <1>3 DEF Inv, TypeOK, Content, enter_secure_world, db, Pc
  <1>6. WorldSwitch'
    <2>1. secure_pages'[addrspace_page[disp]] = secure_pages[addrspace_page[disp]]
      BY <1>1, <1>3 DEF is_addrspace
    <2> QED
      BY Zenon, <1>1, <2>1 DEF Inv, WorldSwitch, enter_secure_world, db, cur_addrspace,
         addrspace_state
  <1> QED
    BY <1>4, <1>5, <1>6, StructureInv DEF Inv

LEMMA KomEnterInv ==
  ASSUME Inv, NEW disp, NEW arg \in Val, kom_smc_enter(disp, arg)
  PROVE  Inv'
  <1> DEFINE dispatcher == [secure_pages[disp] EXCEPT !.saved.args = arg]
  <1>1. CASE enter_err(disp) # "SUCCESS"
    BY <1>1, SmcNoEffect, ErrorTypes DEF kom_smc_enter
  <1>2. CASE enter_err(disp) = "SUCCESS"
    <2>1. /\ page_is_typed(disp, "DISPATCHER")
          /\ addrspace_state(addrspace_page[disp]) = "FINAL"
      BY <1>2 DEF enter_err
    <2>2. secure_pages[disp] \in DispatcherContent
      BY <2>1 DEF Inv, Ownership, is_dispatcher, page_is_typed, page_is_valid
    <2>3. /\ dispatcher \in DispatcherContent
          /\ dispatcher.saved.satp = secure_pages[disp].saved.satp
      BY <2>2 DEF DispatcherContent, Context
    <2>4. /\ secure_pages' = [secure_pages EXCEPT ![disp] = dispatcher]
          /\ enter_secure_world(disp, dispatcher)
          /\ UNCHANGED <<db, insecure_pages, a0>>
      BY Zenon, <1>2 DEF kom_smc_enter
    <2> HIDE DEF dispatcher
    <2> QED
      BY Zenon, <2>1, <2>3, <2>4, EnterInv
  <1> QED
    BY <1>1, <1>2

LEMMA KomResumeInv ==
  ASSUME Inv, NEW disp, kom_smc_resume(disp)
  PROVE  Inv'
  <1>1. CASE resume_err(disp) # "SUCCESS"
    BY <1>1, SmcNoEffect, ErrorTypes DEF kom_smc_resume
  <1>2. CASE resume_err(disp) = "SUCCESS"
    <2>1. /\ page_is_typed(disp, "DISPATCHER")
          /\ addrspace_state(addrspace_page[disp]) = "FINAL"
      BY <1>2 DEF resume_err
    <2>2. secure_pages[disp] \in DispatcherContent
      BY <2>1 DEF Inv, Ownership, is_dispatcher, page_is_typed, page_is_valid
    <2>3. /\ UNCHANGED secure_pages
          /\ enter_secure_world(disp, secure_pages[disp])
          /\ UNCHANGED <<db, insecure_pages, a0>>
      BY Zenon, <1>2 DEF kom_smc_resume
    <2>4. secure_pages' = [secure_pages EXCEPT ![disp] = secure_pages[disp]]
      BY <2>3 DEF Inv, TypeOK
    <2> QED
      BY Zenon, <2>1, <2>2, <2>3, <2>4, EnterInv
  <1> QED
    BY <1>1, <1>2

(* leave_secure_world: the dispatcher gets back the satp it had.           *)
LEMMA LeaveInv ==
  ASSUME Inv, enclave_mode, NEW entered \in BOOLEAN, NEW pc \in Pc,
         leave_secure_world(entered, pc), a0' \in Error,
         UNCHANGED <<db, insecure_pages>>
  PROVE  Inv'
  <1> DEFINE disp == g_cur_dispatcher_pageno
             left == [kind |-> "dispatcher", entered |-> entered, mepc |-> pc,
                      saved |-> ctx]
  <1>1. /\ disp \in Page /\ type[disp] = "DISPATCHER"
        /\ ctx.satp = secure_pages[disp].saved.satp
        /\ host_state.saved.satp = HostRoot
    BY Zenon DEF Inv, TypeOK, WorldSwitch, Ownership, cur_addrspace, is_dispatcher,
           page_is_typed, page_is_valid
  <1>2. /\ left \in DispatcherContent
        /\ left.saved = ctx
    BY DEF Inv, TypeOK, DispatcherContent
  <1>3. secure_pages' = [secure_pages EXCEPT ![disp] = left]
    BY DEF leave_secure_world
  <1> HIDE DEF left
  <1>4. KeepsStructure
    BY SMTT(30), <1>1, <1>2, <1>3 DEF KeepsStructure, Inv, TypeOK, Ownership, Content,
       is_addrspace, is_dispatcher, is_ptable, page_is_typed, page_is_valid
  <1>5. TypeOK'
    <2>1. host_state.saved \in Context /\ host_state.mepc \in Pc
      BY DEF Inv, TypeOK
    <2>2. /\ ctx' \in Context /\ mepc' \in Pc /\ tlb' \in SUBSET Root
          /\ host_state' \in [saved: Context, mepc: Pc]
          /\ g_cur_dispatcher_pageno' \in Page
      BY Zenon, <1>1, <2>1, PageAssumption DEF Inv, TypeOK, leave_secure_world, Root
    <2>3. /\ enclave_mode' \in BOOLEAN /\ pmp5cfg' \in BOOLEAN
          /\ tvm' \in BOOLEAN /\ deleg' \in BOOLEAN
      BY Zenon DEF leave_secure_world
    <2>4. /\ type' \in [Page -> PageType]
          /\ addrspace_page' \in [Page -> Page \cup {NoPage}]
          /\ insecure_pages' \in [InsecurePage -> Val]
          /\ secure_pages' \in [Page -> Content]
      BY <1>4 DEF Inv, TypeOK, KeepsStructure, db
    <2> QED
      BY <2>2, <2>3, <2>4 DEF TypeOK, Content
  <1>6. WorldSwitch'
    BY <1>1 DEF leave_secure_world, WorldSwitch
  <1> QED
    BY <1>4, <1>5, <1>6, StructureInv DEF Inv

(* Steps of an enclave that only touch registers, and ignored traps.       *)
LEMMA QuietInv ==
  ASSUME Inv, UNCHANGED <<db, memory, world, cpu, a0>>,
         ctx' \in Context, ctx'.satp = ctx.satp, mepc' \in Pc
  PROVE  Inv'
  <1>1. KeepsStructure
    BY Zenon DEF KeepsStructure, Inv, TypeOK, Ownership, Content, memory
  <1>2. TypeOK'
    BY DEF Inv, TypeOK, db, memory, world, cpu
  <1>3. WorldSwitch'
    BY Zenon DEF Inv, WorldSwitch, db, memory, world, cpu, cur_addrspace, is_dispatcher,
           page_is_typed, page_is_valid, addrspace_state
  <1> QED
    BY <1>1, <1>2, <1>3, StructureInv DEF Inv

(* do_svc_calls and do_trap.                                               *)
LEMMA SvcInv ==
  ASSUME Inv, do_svc_calls
  PROVE  Inv'
  <1>1. CASE kom_svc_exit
    BY Zenon, <1>1, LeaveInv DEF kom_svc_exit, Error, Pc
  <1>2. CASE svc_unknown
    <2>1. ctx' \in Context /\ ctx'.satp = ctx.satp /\ mepc' \in Pc
      BY <1>2 DEF svc_unknown, Inv, TypeOK, Pc
    <2> QED
      BY <1>2, <2>1, QuietInv DEF svc_unknown
  <1> QED
    BY <1>1, <1>2 DEF do_svc_calls

LEMMA TrapInv ==
  ASSUME Inv, NEW cause, do_trap(cause)
  PROVE  Inv'
  <1>1. CASE enclave_mode /\ kom_handle_trap(cause)
    BY Zenon, <1>1, LeaveInv DEF kom_handle_trap, Error, Pc
  <1>2. CASE mepc' = "insn" /\ UNCHANGED <<db, memory, world, ctx, cpu, a0>>
    <2>1. ctx' \in Context /\ ctx'.satp = ctx.satp /\ mepc' \in Pc
      BY <1>2 DEF Inv, TypeOK, Pc
    <2> QED
      BY <1>2, <2>1, QuietInv
  <1> QED
    BY <1>1, <1>2 DEF do_trap

-----------------------------------------------------------------------------
(***************************************************************************)
(* What software reaches.                                                  *)
(***************************************************************************)
LEMMA TableEntries ==
  ASSUME Inv, NEW p \in Page, is_ptable(p), live(p), NEW e \in entries(p)
  PROVE  /\ is_table(p)
         /\ e # NoEntry /\ well_linked(p, e)
  <1>1. secure_pages[p] \in TableContent
    BY DEF Inv, Ownership
  <1> QED
    BY <1>1, Kinds DEF is_table, entries, Inv, PageTables

(* One level of the walk.                                                  *)
LEMMA NextLevel ==
  ASSUME Inv, NEW asp, addrspace_state(asp) = "FINAL", NEW S, NEW upper, NEW lower,
         \/ upper = "L1PTABLE" /\ lower = "L2PTABLE"
         \/ upper = "L2PTABLE" /\ lower = "L3PTABLE",
         \A t \in S : page_is_typed(t, upper) /\ addrspace_page[t] = asp
  PROVE  \A t \in next_tables(S) :
           page_is_typed(t, lower) /\ addrspace_page[t] = asp
  <1>1. SUFFICES ASSUME NEW t \in next_tables(S)
                 PROVE  page_is_typed(t, lower) /\ addrspace_page[t] = asp
    OBVIOUS
  <1>2. \A p \in S : p \in Page /\ is_ptable(p) /\ live(p) /\ is_table(p)
    BY SMTT(30), Kinds DEF page_is_typed, page_is_valid, is_ptable, live, is_table, Inv, Ownership
  <1>3. PICK p \in S : t \in {e.frame : e \in {x \in entries(p) : x.prot = {}}}
    BY <1>1, <1>2 DEF next_tables
  <1>4. PICK e \in entries(p) : t = e.frame
    BY <1>3
  <1>5. e # NoEntry /\ well_linked(p, e)
    BY <1>2, <1>4, TableEntries
  <1> QED
    BY <1>4, <1>5 DEF well_linked, links_to, page_is_typed

LEMMA Reach ==
  ASSUME Inv, NEW access, NEW f \in accessible(access), f \notin InsecurePage
  PROVE  /\ enclave_mode
         /\ page_is_typed(f, "DATA") /\ addrspace_page[f] = cur_addrspace
  <1> DEFINE l1pt == secure_pages[cur_addrspace].l1pt_page
  <1>1. /\ enclave_mode /\ is_dispatcher(g_cur_dispatcher_pageno)
        /\ addrspace_state(cur_addrspace) = "FINAL"
        /\ tlb = {l1pt}
    BY PageAssumption DEF Inv, WorldSwitch, accessible
  <1>2. is_addrspace(cur_addrspace)
    BY <1>1 DEF Inv, Ownership, is_dispatcher, page_is_typed, page_is_valid,
                cur_addrspace
  <1>3. page_is_typed(l1pt, "L1PTABLE") /\ addrspace_page[l1pt] = cur_addrspace
    BY <1>1, <1>2 DEF Inv, Ownership, is_addrspace, page_is_typed, page_is_valid
  <1>4. f \in leaves(next_tables(next_tables({l1pt})), access)
    BY <1>1, <1>3, PageAssumption DEF accessible, walk, page_is_typed, page_is_valid
  <1> HIDE DEF l1pt
  <1>5. \A t \in next_tables({l1pt}) :
          page_is_typed(t, "L2PTABLE") /\ addrspace_page[t] = cur_addrspace
    <2>1. \A t \in {l1pt} :
            page_is_typed(t, "L1PTABLE") /\ addrspace_page[t] = cur_addrspace
      BY <1>3
    <2> QED
      BY <1>1, <2>1, NextLevel
  <1>6. \A t \in next_tables(next_tables({l1pt})) :
          page_is_typed(t, "L3PTABLE") /\ addrspace_page[t] = cur_addrspace
    BY <1>1, <1>5, NextLevel
  <1>7. \A t \in next_tables(next_tables({l1pt})) :
          t \in Page /\ is_ptable(t) /\ live(t) /\ is_table(t)
    BY <1>1, <1>6, Kinds DEF page_is_typed, page_is_valid, is_ptable, live, is_table,
       Inv, Ownership
  <1>8. PICK p \in next_tables(next_tables({l1pt})) :
          f \in {e.frame : e \in {x \in entries(p) : {"R", access} \subseteq x.prot}}
    BY Zenon, <1>4, <1>7 DEF leaves
  <1>9. PICK e \in entries(p) : f = e.frame
    BY <1>8
  <1>10. e # NoEntry /\ well_linked(p, e)
    BY <1>7, <1>9, TableEntries
  <1> QED
    BY Zenon, <1>1, <1>6, <1>9, <1>10, PageAssumption
       DEF well_linked, links_to, page_is_typed, insecure_page_is_valid

LEMMA SoftwareInv ==
  ASSUME Inv, software
  PROVE  Inv'
  <1>1. CASE load
    <2>0. PICK f \in accessible("R") : \E v \in values_at(f) :
            ctx' = IF v = Public THEN ctx ELSE filled(v, ctx.satp)
      BY Zenon, <1>1 DEF load
    <2>1. PICK v \in values_at(f) :
            ctx' = IF v = Public THEN ctx ELSE filled(v, ctx.satp)
      BY Zenon, <2>0
    <2>2. v \in Val
      <3>1. CASE f \in InsecurePage
        BY <2>1, <3>1 DEF values_at, Inv, TypeOK
      <3>2. CASE f \notin InsecurePage
        <4>1. secure_pages[f] \in DataContent
          BY SMTT(30), <3>2, Reach DEF Inv, Ownership, page_is_typed, page_is_valid
        <4> QED
          BY <2>1, <3>2, <4>1 DEF values_at, DataContent
      <3> QED
        BY <3>1, <3>2
    <2>3. ctx' \in Context /\ ctx'.satp = ctx.satp
      <3>1. ctx \in Context /\ ctx.satp \in Root
        BY DEF Inv, TypeOK, Context
      <3> QED
        BY Zenon, <2>1, <2>2, <3>1, Filled
    <2>4. UNCHANGED <<db, memory, world, cpu, a0>> /\ mepc' \in Pc
      BY <1>1 DEF load, Inv, TypeOK
    <2> QED
      BY <2>3, <2>4, QuietInv
  <1>2. CASE compute
    <2>1. enclave_mode /\ cur_addrspace \in Page
      BY <1>2 DEF compute, Inv, WorldSwitch, Ownership, is_dispatcher, is_addrspace,
                  page_is_typed, page_is_valid, cur_addrspace
    <2>2. ctx' = filled(cur_addrspace, ctx.satp)
      BY <1>2 DEF compute, cur_addrspace
    <2>3. ctx' \in Context /\ ctx'.satp = ctx.satp
      <3>1. cur_addrspace \in Val /\ ctx.satp \in Root
        BY <2>1 DEF Inv, TypeOK, Context, Val
      <3> QED
        BY Zenon, <2>2, <3>1, Filled
    <2>4. UNCHANGED <<db, memory, world, cpu, a0>> /\ mepc' \in Pc
      BY <1>2 DEF compute, Inv, TypeOK
    <2> QED
      BY <2>3, <2>4, QuietInv
  <1>3. CASE write_satp
    <2>1. ctx.satp = HostRoot /\ tlb = {HostRoot}
      BY <1>3 DEF write_satp, Inv, WorldSwitch
    <2>2. ctx' \in Context /\ ctx'.satp = ctx.satp
      BY <1>3, <2>1 DEF write_satp, Inv, TypeOK, Context
    <2>3. UNCHANGED <<db, memory, world, cpu, a0>> /\ mepc' \in Pc
      BY <1>3, <2>1 DEF write_satp, cpu, Inv, TypeOK
    <2> QED
      BY <2>2, <2>3, QuietInv
  <1>4. CASE store
    <2>1. PICK f \in accessible("W") :
            \/ /\ f \in InsecurePage
               /\ insecure_pages' = [insecure_pages EXCEPT
                                       ![f] = IF enclave_mode THEN Public ELSE ctx.regs]
               /\ UNCHANGED secure_pages
            \/ /\ f \in Page
               /\ secure_pages' = [secure_pages EXCEPT ![f] = Data(ctx.regs)]
               /\ UNCHANGED insecure_pages
      BY <1>4 DEF store
    <2>2. ctx.regs \in Val /\ Public \in Val
      BY DEF Inv, TypeOK, Context, Val
    <2>3. f \in Page => type[f] = "DATA"
      BY Reach, PageAssumption DEF page_is_typed
    <2>4. KeepsStructure
      <3>1. UNCHANGED db
        BY <1>4 DEF store
      <3>2. Data(ctx.regs) \in DataContent
        BY <2>2, Contents
      <3>3. secure_pages \in [Page -> Content] /\ DataContent \subseteq Content
        BY DEF Inv, TypeOK, Content
      <3>4. secure_pages' \in [Page -> Content]
        BY <2>1, <3>2, <3>3
      <3>5. \A p \in Page : ~page_is_typed(p, "DATA") => secure_pages'[p] = secure_pages[p]
        BY <2>1, <2>3, <3>3 DEF page_is_typed, page_is_valid
      <3>6. \A p \in Page : page_is_typed(p, "DATA") => secure_pages[p] \in DataContent
        BY DEF Inv, Ownership, page_is_typed, page_is_valid
      <3>7. \A p \in Page : page_is_typed(p, "DATA") => secure_pages'[p] \in DataContent
        BY <2>1, <3>2, <3>3, <3>6
      <3>8. \A p \in Page : is_dispatcher(p) => secure_pages[p] \in DispatcherContent
        BY DEF Inv, Ownership, is_dispatcher, page_is_typed, page_is_valid
      <3> QED
        BY <3>1, <3>4, <3>5, <3>7, <3>8 DEF KeepsStructure, is_addrspace, is_dispatcher,
           is_ptable, page_is_typed
    <2>5. TypeOK'
      <3>1. insecure_pages' \in [InsecurePage -> Val]
        BY <2>1, <2>2 DEF Inv, TypeOK
      <3> QED
        BY <1>4, <2>4, <3>1 DEF store, Inv, TypeOK, db, world, cpu, KeepsStructure, Content
    <2>6. WorldSwitch'
      <3>1. UNCHANGED <<db, world, ctx, cpu>>
        BY <1>4 DEF store
      <3>2. enclave_mode => is_addrspace(cur_addrspace)
        BY DEF Inv, Ownership, WorldSwitch, is_dispatcher, page_is_typed, page_is_valid,
               cur_addrspace
      <3>3. enclave_mode => secure_pages'[cur_addrspace] = secure_pages[cur_addrspace]
        BY <2>4, <3>2 DEF KeepsStructure, is_addrspace, page_is_typed, page_is_valid
      <3> QED
        BY Zenon, <3>1, <3>3 DEF Inv, WorldSwitch, db, world, cpu, cur_addrspace,
           is_dispatcher, page_is_typed, page_is_valid, addrspace_state
    <2> QED
      BY <2>4, <2>5, <2>6, StructureInv DEF Inv
  <1> QED
    BY <1>1, <1>2, <1>3, <1>4 DEF software

-----------------------------------------------------------------------------
LEMMA InitInv == Init => Inv
  <1> SUFFICES ASSUME Init PROVE Inv
    OBVIOUS
  <1>1. TypeOK
    <2>1. Data(Public) \in DataContent
      BY Contents DEF Val
    <2> QED
      BY Zenon, <2>1, PageAssumption DEF Init, TypeOK, PageType, Val, Context, Root, Pc, Error,
         filled
  <1>2. \A p \in Page : type[p] = "FREE"
    BY DEF Init
  <1>3. Ownership /\ Refcount /\ PageTables
    BY Zenon, <1>2 DEF Ownership, Refcount, PageTables, is_addrspace, is_dispatcher, is_ptable,
                page_is_typed, page_is_valid
  <1>4. WorldSwitch
    BY DEF Init, WorldSwitch, filled
  <1> QED
    BY <1>1, <1>3, <1>4 DEF Inv

LEMMA SmcInv ==
  ASSUME Inv, do_smc_calls
  PROVE  Inv'
  <1>1. CASE \E answer \in {"MAGIC", "NPAGES", "ENOSYS"} : smc_no_effect(answer)
    BY <1>1, SmcNoEffect DEF smc_no_effect, Error
  <1>2. CASE \E asp \in Arg.addrspace, l1pt \in Arg.l1pt :
               kom_smc_init_addrspace(asp, l1pt)
    BY <1>2, InitAddrspaceInv
  <1>3. CASE \E p \in Arg.dispatcher, asp \in Arg.addrspace :
               kom_smc_init_dispatcher(p, asp)
    BY Zenon, <1>3, InitDispatcherInv
  <1>4. CASE \E p \in Arg.l2pt, l1pt \in Arg.l1pt, i \in Arg.index :
               kom_smc_init_l2ptable(p, l1pt, i)
    BY Zenon, <1>4, InitPtableInv DEF kom_smc_init_l2ptable
  <1>5. CASE \E p \in Arg.l3pt, l2pt \in Arg.l2pt, i \in Arg.index :
               kom_smc_init_l3ptable(p, l2pt, i)
    BY Zenon, <1>5, InitPtableInv DEF kom_smc_init_l3ptable
  <1>6. CASE \E p \in Arg.data, l3pt \in Arg.l3pt, i \in Arg.index, m \in Mapping,
                f \in Arg.insecure : kom_smc_map_secure(p, l3pt, i, m, f)
    BY Zenon, <1>6, MapSecureInv
  <1>7. CASE \E l3pt \in Arg.l3pt, i \in Arg.index, m \in Mapping, f \in Arg.insecure :
               kom_smc_map_insecure(l3pt, i, m, f)
    BY Zenon, <1>7, MapInsecureInv
  <1>8. CASE \E p \in AnyPage : kom_smc_remove(p)
    BY <1>8, RemoveInv
  <1>9. CASE \E asp \in Arg.addrspace : kom_smc_finalise(asp) \/ kom_smc_stop(asp)
    BY Zenon, <1>9, FinaliseInv, StopInv
  <1>10. CASE \E p \in Arg.dispatcher, arg \in {ctx.args, ctx.regs} : kom_smc_enter(p, arg)
    <2>1. ctx.args \in Val /\ ctx.regs \in Val
      BY DEF Inv, TypeOK, Context
    <2> QED
      BY Zenon, <1>10, <2>1, KomEnterInv
  <1>11. CASE \E p \in Arg.dispatcher : kom_smc_resume(p)
    BY Zenon, <1>11, KomResumeInv
  <1> QED
    BY Zenon, <1>1, <1>2, <1>3, <1>4, <1>5, <1>6, <1>7, <1>8, <1>9, <1>10, <1>11
       DEF do_smc_calls

LEMMA NextInv == Inv /\ [Next]_vars => Inv'
  <1> SUFFICES ASSUME Inv, [Next]_vars PROVE Inv'
    OBVIOUS
  <1>1. CASE do_smc_calls
    BY <1>1, SmcInv
  <1>2. CASE do_svc_calls
    BY <1>2, SvcInv
  <1>3. CASE \E cause \in {"interrupt", "exception"} : do_trap(cause)
    BY <1>3, TrapInv
  <1>4. CASE software
    BY <1>4, SoftwareInv
  <1>5. CASE UNCHANGED vars
    <2>1. /\ UNCHANGED <<db, memory, world, cpu, a0>>
          /\ ctx' \in Context /\ ctx'.satp = ctx.satp /\ mepc' \in Pc
      BY <1>5 DEF vars, Inv, TypeOK
    <2> QED
      BY <2>1, QuietInv
  <1> QED
    BY <1>1, <1>2, <1>3, <1>4, <1>5 DEF Next

(* The inductive invariant holds whatever the host calls and whatever the  *)
(* enclaves do.                                                            *)
THEOREM InductiveInvariant == Spec => []Inv
  BY InitInv, NextInv, PTL DEF Spec

(* The variables of the monitor keep their types.                          *)
THEOREM TypeCorrect == Spec => []TypeOK
  <1>1. Inv => TypeOK
    BY DEF Inv
  <1> QED
    BY <1>1, InductiveInvariant, PTL

(* The page database never names an owner that is not an address space,    *)
(* and every page holds what its type promises to the code that reads it.  *)
THEOREM OwnershipHolds == Spec => []Ownership
  <1>1. Inv => Ownership
    BY DEF Inv
  <1> QED
    BY <1>1, InductiveInvariant, PTL

(* The reference counts allocate_page and kom_smc_remove keep are exact.   *)
THEOREM RefcountExact == Spec => []Refcount
  <1>1. Inv => Refcount
    BY DEF Inv
  <1> QED
    BY <1>1, InductiveInvariant, PTL

(* The tables that the kom_smc_init_* and kom_smc_map_* calls build stay   *)
(* within their address space until it is stopped.                         *)
THEOREM PageTablesConfined == Spec => []PageTables
  <1>1. Inv => PageTables
    BY DEF Inv
  <1> QED
    BY <1>1, InductiveInvariant, PTL

(* enter_secure_world and leave_secure_world leave the processor set up    *)
(* for the world that runs next.                                           *)
THEOREM WorldSwitchSafe == Spec => []WorldSwitch
  <1>1. Inv => WorldSwitch
    BY DEF Inv
  <1> QED
    BY <1>1, InductiveInvariant, PTL

(* The page walks of the processor reach only what the running world owns: *)
(* page tables, dispatcher, satp, TLB and PMP taken together.              *)
THEOREM WalksAreConfined == Spec => []WalkConfined
  <1>1. Inv => WalkConfined
    <2> SUFFICES ASSUME Inv, NEW f \in accessible("R") \cap Page
                 PROVE  /\ enclave_mode /\ page_is_typed(f, "DATA")
                        /\ addrspace_page[f] = cur_addrspace
      BY DEF WalkConfined
    <2>1. f \notin InsecurePage
      BY PageAssumption
    <2> QED
      BY <2>1, Reach
  <1> QED
    BY <1>1, InductiveInvariant, PTL

-----------------------------------------------------------------------------
(* What each step does, page by page.                                     *)

(* A call of the host turns two free pages into an address space and its   *)
(* L1 table.                                                               *)
Builds(asp, l1pt) ==
  /\ asp \in Page /\ l1pt \in Page /\ asp # l1pt
  /\ type[asp] = "FREE" /\ type[l1pt] = "FREE"
  /\ \A q \in Page :
       /\ type'[q] = IF q = asp THEN "ADDRSPACE"
                     ELSE IF q = l1pt THEN "L1PTABLE" ELSE type[q]
       /\ addrspace_page'[q] = IF q \in {asp, l1pt} THEN asp ELSE addrspace_page[q]
       /\ q \notin {asp, l1pt} => secure_pages'[q] = secure_pages[q]
  /\ secure_pages'[asp].state = "INIT"
  /\ secure_pages'[l1pt] = ZeroTable

(* A call turns a free page into one of address space asp, with nothing of *)
(* any enclave in it.                                                      *)
Blank(c, t) ==
  \/ /\ t = "DISPATCHER"
     /\ c.entered = FALSE /\ c.mepc = "entry"
     /\ c.saved.args = Public /\ c.saved.regs = Public /\ c.saved.csrs = Public
  \/ t \in {"L2PTABLE", "L3PTABLE"} /\ c = ZeroTable
  \/ t = "DATA" /\ \E f \in InsecurePage : c = Data(insecure_pages[f])

(* It is linked from entry i of tbl, unless tbl is the address space.      *)
Adds(page, asp, t, tbl, i) ==
  /\ page \in Page /\ asp \in Page /\ tbl \in Page
  /\ type[page] = "FREE" /\ type[asp] = "ADDRSPACE"
  /\ secure_pages[asp].state = "INIT"
  /\ \A q \in Page :
       /\ type'[q] = IF q = page THEN t ELSE type[q]
       /\ addrspace_page'[q] = IF q = page THEN asp ELSE addrspace_page[q]
       /\ q \notin {page, asp, tbl} => secure_pages'[q] = secure_pages[q]
  /\ Blank(secure_pages'[page], t)
  /\ secure_pages'[asp].state = "INIT"
  /\ tbl # asp =>
       /\ is_ptable(tbl) /\ addrspace_page[tbl] = asp
       /\ secure_pages'[tbl].entry[i].frame = page
       /\ \A j \in Index \ {i} : secure_pages'[tbl].entry[j] = secure_pages[tbl].entry[j]

(* A call links an insecure page.                                          *)
Shares(l3pt, i) ==
  /\ UNCHANGED db
  /\ l3pt \in Page /\ type[l3pt] = "L3PTABLE"
  /\ addrspace_state(addrspace_page[l3pt]) = "INIT"
  /\ \A q \in Page \ {l3pt} : secure_pages'[q] = secure_pages[q]
  /\ secure_pages'[l3pt].entry[i].frame \in InsecurePage
  /\ \A j \in Index \ {i} : secure_pages'[l3pt].entry[j] = secure_pages[l3pt].entry[j]

(* A call moves an address space on.                                       *)
Moves(asp, s) ==
  /\ UNCHANGED db
  /\ asp \in Page /\ type[asp] = "ADDRSPACE"
  /\ s = "STOPPED" \/ (s = "FINAL" /\ secure_pages[asp].state = "INIT")
  /\ \A q \in Page \ {asp} : secure_pages'[q] = secure_pages[q]
  /\ secure_pages'[asp].state = s

(* A call takes a page from a stopped address space, itself last.          *)
Removes(page, asp) ==
  /\ page \in Page /\ asp \in Page
  /\ type[page] # "FREE" /\ type[asp] = "ADDRSPACE" /\ addrspace_page[page] = asp
  /\ secure_pages[asp].state = "STOPPED"
  /\ page = asp => owned(asp) = {asp}
  /\ \A q \in Page :
       /\ type'[q] = IF q = page THEN "FREE" ELSE type[q]
       /\ addrspace_page'[q] = IF q = page THEN NoPage ELSE addrspace_page[q]
       /\ q # asp => secure_pages'[q] = secure_pages[q]
  /\ secure_pages'[asp].state = "STOPPED"

HostCalls ==
  /\ ~enclave_mode
  /\ UNCHANGED <<insecure_pages, world, ctx>>
  /\ \/ UNCHANGED <<db, secure_pages>> /\ a0' # "SUCCESS"
     \/ /\ a0' = "SUCCESS"
        /\ \/ UNCHANGED <<db, secure_pages>> /\ \E p \in Page : type[p] = "FREE"
           \/ \E asp, l1pt \in Page : Builds(asp, l1pt)
           \/ \E page, asp, tbl \in Page : \E i, t : Adds(page, asp, t, tbl, i)
           \/ \E l3pt \in Page, i \in Index : Shares(l3pt, i)
           \/ \E asp \in Page : \E s : Moves(asp, s)
           \/ \E page, asp \in Page : Removes(page, asp)

(* Dispatcher disp of a finalised address space goes live as it is or, if  *)
(* it was not interrupted, with new arguments from the host's registers.   *)
Enters(disp) ==
  /\ ~enclave_mode
  /\ disp \in Page /\ type[disp] = "DISPATCHER"
  /\ addrspace_state(addrspace_page[disp]) = "FINAL"
  /\ UNCHANGED <<db, insecure_pages, a0>>
  /\ \A q \in Page \ {disp} : secure_pages'[q] = secure_pages[q]
  /\ \/ /\ secure_pages[disp].entered
        /\ secure_pages'[disp] = secure_pages[disp]
     \/ /\ ~secure_pages[disp].entered
        /\ \E arg \in {ctx.args, ctx.regs} :
             secure_pages'[disp] = [secure_pages[disp] EXCEPT !.saved.args = arg]
  /\ enclave_mode' = TRUE /\ g_cur_dispatcher_pageno' = disp
  /\ host_state' = [saved |-> ctx, mepc |-> "after"]
  /\ ctx' = secure_pages'[disp].saved

(* The enclave gives way to the host.                                      *)
Leaves(entered) ==
  /\ enclave_mode
  /\ UNCHANGED <<db, insecure_pages, host_state>>
  /\ \A q \in Page \ {g_cur_dispatcher_pageno} : secure_pages'[q] = secure_pages[q]
  /\ secure_pages'[g_cur_dispatcher_pageno].saved = ctx
  /\ secure_pages'[g_cur_dispatcher_pageno].entered = entered
  /\ secure_pages'[g_cur_dispatcher_pageno].mepc = IF entered THEN "insn" ELSE "after"
  /\ ~enclave_mode'
  /\ ctx' = host_state.saved

(* What the running software has in its registers, satp apart.             *)
SameRegs == ctx'.args = ctx.args /\ ctx'.regs = ctx.regs /\ ctx'.csrs = ctx.csrs

AllRegs(v) == ctx'.args = v /\ ctx'.regs = v /\ ctx'.csrs = v

(* The software that runs learns v, or nothing.                            *)
Learns(v) ==
  /\ UNCHANGED <<db, memory, world>>
  /\ SameRegs \/ AllRegs(v)

own_data(p) ==
  enclave_mode /\ page_is_typed(p, "DATA") /\ addrspace_page[p] = cur_addrspace

Runs ==
  \/ UNCHANGED <<db, memory, world>> /\ SameRegs
  \/ \E f \in InsecurePage : Learns(insecure_pages[f])
  \/ \E p \in Page : own_data(p) /\ Learns(secure_pages[p].val)
  \/ enclave_mode /\ UNCHANGED <<db, memory, world>> /\ AllRegs(cur_addrspace)
  \/ /\ UNCHANGED <<db, secure_pages, world, ctx>>
     /\ \E f \in InsecurePage :
          insecure_pages' = [insecure_pages EXCEPT
                               ![f] = IF enclave_mode THEN Public ELSE ctx.regs]
  \/ /\ UNCHANGED <<db, insecure_pages, world, ctx>>
     /\ \E p \in Page :
          /\ own_data(p)
          /\ secure_pages' = [secure_pages EXCEPT ![p] = Data(ctx.regs)]

Step ==
  \/ HostCalls
  \/ \E disp \in Page : Enters(disp)
  \/ Leaves(FALSE) /\ a0' = "SUCCESS"
  \/ Leaves(TRUE) /\ a0' \in {"INTERRUPTED", "FAULT"}
  \/ Runs /\ UNCHANGED a0

-----------------------------------------------------------------------------
(***************************************************************************)
(* Each action is one of these steps; a call that succeeds, the one named. *)
(***************************************************************************)
LEMMA InitAddrspaceStep ==
  ASSUME Inv, NEW asp, NEW l1pt, kom_smc_init_addrspace(asp, l1pt)
  PROVE  /\ HostCalls
         /\ init_addrspace_err(asp, l1pt) = "SUCCESS" => Builds(asp, l1pt)
  <1> DEFINE err == init_addrspace_err(asp, l1pt)
             zero == [kind |-> "addrspace", l1pt_page |-> l1pt,
                      refcount |-> 2, state |-> "INIT"]
  <1>1. ~enclave_mode /\ a0' = err /\ UNCHANGED <<insecure_pages, world, ctx>>
    BY DEF kom_smc_init_addrspace, smc_return
  <1>2. CASE err # "SUCCESS"
    BY <1>1, <1>2 DEF kom_smc_init_addrspace, HostCalls
  <1>3. CASE err = "SUCCESS"
    <2>1. /\ asp \in Page /\ l1pt \in Page /\ asp # l1pt
          /\ type[asp] = "FREE" /\ type[l1pt] = "FREE"
      BY <1>3 DEF init_addrspace_err, page_is_valid, page_is_free, page_is_typed
    <2>2. /\ type' = [type EXCEPT ![asp] = "ADDRSPACE", ![l1pt] = "L1PTABLE"]
          /\ addrspace_page' = [addrspace_page EXCEPT ![asp] = asp, ![l1pt] = asp]
          /\ secure_pages' = [secure_pages EXCEPT ![asp] = zero, ![l1pt] = ZeroTable]
      BY <1>3 DEF kom_smc_init_addrspace
    <2>3. zero.state = "INIT"
      OBVIOUS
    <2> HIDE DEF zero
    <2>4. Builds(asp, l1pt)
      BY <2>1, <2>2, <2>3 DEF Builds, Inv, TypeOK
    <2> QED
      BY <1>1, <1>3, <2>1, <2>4 DEF HostCalls
  <1> QED
    BY <1>2, <1>3

LEMMA InitDispatcherStep ==
  ASSUME Inv, NEW page, NEW asp, kom_smc_init_dispatcher(page, asp)
  PROVE  /\ HostCalls
         /\ init_dispatcher_err(page, asp) = "SUCCESS" =>
              Adds(page, asp, "DISPATCHER", asp, PageZero)
  <1> DEFINE err == init_dispatcher_err(page, asp)
             zero == [kind |-> "dispatcher", entered |-> FALSE, mepc |-> "entry",
                      saved |-> filled(Public, secure_pages[asp].l1pt_page)]
             counted == [secure_pages[asp] EXCEPT !.refcount = @ + 1]
  <1>1. ~enclave_mode /\ a0' = err /\ UNCHANGED <<insecure_pages, world, ctx>>
    BY DEF kom_smc_init_dispatcher, smc_return
  <1>2. CASE err # "SUCCESS"
    BY <1>1, <1>2 DEF kom_smc_init_dispatcher, HostCalls
  <1>3. CASE err = "SUCCESS"
    <2>1. /\ page \in Page /\ asp \in Page /\ type[page] = "FREE"
          /\ type[asp] = "ADDRSPACE" /\ secure_pages[asp].state = "INIT"
          /\ page # asp
      BY <1>3 DEF init_dispatcher_err, allocate_page_err, page_is_valid, page_is_free,
                  page_is_typed, addrspace_state
    <2>2. allocate_page(page, asp, "DISPATCHER", zero)
      BY <1>3 DEF kom_smc_init_dispatcher
    <2>3. Blank(zero, "DISPATCHER")
      BY DEF Blank, filled
    <2>4. counted.state = "INIT"
      BY <2>1, SetRefcount DEF Inv, Ownership, AddrspaceContent, is_addrspace, page_is_typed,
         page_is_valid
    <2> HIDE DEF zero
    <2>5. \A q \in Page :
             secure_pages'[q] = IF q = page THEN zero
                                ELSE IF q = asp THEN counted ELSE secure_pages[q]
      BY <2>1, <2>2 DEF allocate_page, Inv, TypeOK
    <2> HIDE DEF counted
    <2>6. Adds(page, asp, "DISPATCHER", asp, PageZero)
      BY <2>1, <2>2, <2>3, <2>4, <2>5 DEF Adds, allocate_page, Inv, TypeOK
    <2> QED
      BY <1>1, <1>3, <2>1, <2>6 DEF HostCalls
  <1> QED
    BY <1>2, <1>3

(* A page is allocated and linked.                                         *)
LEMMA AllocateAndLinkAdds ==
  ASSUME Inv, NEW page, NEW tbl, NEW t, NEW zero,
         NEW i \in Index, NEW prot \in SUBSET {"R", "W", "X"},
         is_ptable(tbl), page_is_free(page), Blank(zero, t),
         addrspace_state(addrspace_page[tbl]) = "INIT",
         allocate_and_link(page, addrspace_page[tbl], t, zero, tbl, i, prot)
  PROVE  /\ page \in Page /\ tbl \in Page /\ addrspace_page[tbl] \in Page
         /\ Adds(page, addrspace_page[tbl], t, tbl, i)
  <1> DEFINE asp == addrspace_page[tbl]
             e == [frame |-> page, prot |-> prot]
             counted == [secure_pages[asp] EXCEPT !.refcount = @ + 1]
             linked == [secure_pages[tbl] EXCEPT !.entry[i] = e]
  <1>1. /\ page \in Page /\ asp \in Page /\ tbl \in Page
        /\ page # asp /\ page # tbl /\ tbl # asp
        /\ type[page] = "FREE" /\ type[asp] = "ADDRSPACE"
        /\ secure_pages[asp].state = "INIT"
        /\ secure_pages[asp] \in AddrspaceContent
        /\ secure_pages[tbl] \in TableContent
    BY DEF Inv, Ownership, is_addrspace, is_ptable, page_is_typed, page_is_valid,
           page_is_free, addrspace_state
  <1>2. counted.state = "INIT"
    BY <1>1, SetRefcount DEF AddrspaceContent
  <1>3. e \in Entry /\ e.frame = page
    BY <1>1, PageAssumption DEF Entry, Frame
  <1>4. /\ linked \in TableContent
        /\ \A j \in Index :
             linked.entry[j] = IF j = i THEN e ELSE secure_pages[tbl].entry[j]
    BY <1>1, <1>3, TableUpdate
  <1>5. \A q \in Page :
          secure_pages'[q] = IF q = page THEN zero
                             ELSE IF q = asp THEN counted
                             ELSE IF q = tbl THEN linked ELSE secure_pages[q]
    BY <1>1 DEF allocate_and_link, Inv, TypeOK
  <1>6. /\ type' = [type EXCEPT ![page] = t]
        /\ addrspace_page' = [addrspace_page EXCEPT ![page] = asp]
    BY DEF allocate_and_link
  <1>7. \A q \in Page :
          /\ type'[q] = IF q = page THEN t ELSE type[q]
          /\ addrspace_page'[q] = IF q = page THEN asp ELSE addrspace_page[q]
    BY <1>6 DEF Inv, TypeOK
  <1> HIDE DEF counted, linked, e
  <1>8. /\ is_ptable(tbl) /\ addrspace_page[tbl] = asp
        /\ secure_pages'[tbl].entry[i].frame = page
        /\ \A j \in Index \ {i} : secure_pages'[tbl].entry[j] = secure_pages[tbl].entry[j]
    BY <1>1, <1>3, <1>4, <1>5
  <1> HIDE DEF asp
  <1>9. Adds(page, asp, t, tbl, i)
    BY <1>1, <1>2, <1>5, <1>7, <1>8 DEF Adds
  <1> QED
    BY <1>1, <1>9 DEF asp

LEMMA InitPtableStep ==
  ASSUME Inv, NEW page, NEW tbl, NEW i, NEW upper, NEW lower,
         \/ upper = "L1PTABLE" /\ lower = "L2PTABLE"
         \/ upper = "L2PTABLE" /\ lower = "L3PTABLE",
         init_ptable(page, tbl, i, upper, lower)
  PROVE  /\ HostCalls
         /\ init_ptable_err(page, tbl, i, upper) = "SUCCESS" =>
              Adds(page, addrspace_page[tbl], lower, tbl, i)
  <1> DEFINE err == init_ptable_err(page, tbl, i, upper)
  <1>1. ~enclave_mode /\ a0' = err /\ UNCHANGED <<insecure_pages, world, ctx>>
    BY DEF init_ptable, smc_return
  <1>2. CASE err # "SUCCESS"
    BY <1>1, <1>2 DEF init_ptable, HostCalls
  <1>3. CASE err = "SUCCESS"
    <2>1. /\ i \in Index /\ is_ptable(tbl) /\ page_is_free(page)
          /\ addrspace_state(addrspace_page[tbl]) = "INIT"
      BY <1>3 DEF init_ptable_err, allocate_page_err, is_ptable, page_is_typed,
                  index_is_valid
    <2>2. Blank(ZeroTable, lower)
      BY DEF Blank
    <2>3. allocate_and_link(page, addrspace_page[tbl], lower, ZeroTable, tbl, i, {})
      BY <1>3 DEF init_ptable
    <2>4. /\ page \in Page /\ tbl \in Page /\ addrspace_page[tbl] \in Page
          /\ Adds(page, addrspace_page[tbl], lower, tbl, i)
      BY Zenon, <2>1, <2>2, <2>3, AllocateAndLinkAdds
    <2> QED
      BY Zenon, <1>1, <1>3, <2>4 DEF HostCalls
  <1> QED
    BY <1>2, <1>3

LEMMA MapSecureStep ==
  ASSUME Inv, NEW page, NEW l3pt, NEW i, NEW mapping \in Mapping, NEW content,
         kom_smc_map_secure(page, l3pt, i, mapping, content)
  PROVE  /\ HostCalls
         /\ map_secure_err(page, l3pt, i, content) = "SUCCESS" =>
              Adds(page, addrspace_page[l3pt], "DATA", l3pt, i)
  <1> DEFINE err == map_secure_err(page, l3pt, i, content)
             copy == Data(insecure_pages[content])
  <1>1. ~enclave_mode /\ a0' = err /\ UNCHANGED <<insecure_pages, world, ctx>>
    BY DEF kom_smc_map_secure, smc_return
  <1>2. CASE err # "SUCCESS"
    BY <1>1, <1>2 DEF kom_smc_map_secure, HostCalls
  <1>3. CASE err = "SUCCESS"
    <2>1. /\ i \in Index /\ is_ptable(l3pt) /\ content \in InsecurePage
          /\ page_is_free(page) /\ addrspace_state(addrspace_page[l3pt]) = "INIT"
      BY <1>3 DEF map_secure_err, allocate_page_err, is_ptable, page_is_typed,
                  index_is_valid, insecure_page_is_valid
    <2>2. Blank(copy, "DATA")
      BY Zenon, <2>1 DEF Blank
    <2>3. allocate_and_link(page, addrspace_page[l3pt], "DATA", copy, l3pt, i, mapping)
      BY <1>3 DEF kom_smc_map_secure
    <2>4. mapping \in SUBSET {"R", "W", "X"}
      BY PageAssumption
    <2> HIDE DEF copy
    <2>5. /\ page \in Page /\ l3pt \in Page /\ addrspace_page[l3pt] \in Page
          /\ Adds(page, addrspace_page[l3pt], "DATA", l3pt, i)
      BY Zenon, <2>1, <2>2, <2>3, <2>4, AllocateAndLinkAdds
    <2> QED
      BY Zenon, <1>1, <1>3, <2>5 DEF HostCalls
  <1> QED
    BY <1>2, <1>3

LEMMA MapInsecureStep ==
  ASSUME Inv, NEW l3pt, NEW i, NEW mapping \in Mapping, NEW f,
         kom_smc_map_insecure(l3pt, i, mapping, f)
  PROVE  /\ HostCalls
         /\ map_insecure_err(l3pt, i, f) = "SUCCESS" => Shares(l3pt, i)
  <1> DEFINE err == map_insecure_err(l3pt, i, f)
             e == [frame |-> f, prot |-> mapping]
             linked == [secure_pages[l3pt] EXCEPT !.entry[i] = e]
  <1>1. ~enclave_mode /\ a0' = err /\ UNCHANGED <<insecure_pages, world, ctx>>
    BY DEF kom_smc_map_insecure, smc_return
  <1>2. CASE err # "SUCCESS"
    BY <1>1, <1>2 DEF kom_smc_map_insecure, HostCalls
  <1>3. CASE err = "SUCCESS"
    <2>1. /\ l3pt \in Page /\ type[l3pt] = "L3PTABLE"
          /\ i \in Index /\ f \in InsecurePage
          /\ addrspace_state(addrspace_page[l3pt]) = "INIT"
      BY <1>3 DEF map_insecure_err, index_is_valid, insecure_page_is_valid,
         page_is_typed, page_is_valid
    <2>2. e \in Entry /\ e.frame = f
      BY <2>1, PageAssumption DEF Entry, Frame
    <2>3. \A j \in Index :
            linked.entry[j] = IF j = i THEN e ELSE secure_pages[l3pt].entry[j]
      <3>1. secure_pages[l3pt] \in TableContent
        BY <2>1 DEF Inv, Ownership, is_ptable, page_is_valid
      <3> QED
        BY Zenon, <2>1, <2>2, <3>1, TableUpdate
    <2>4. secure_pages' = [secure_pages EXCEPT ![l3pt] = linked] /\ UNCHANGED db
      BY <1>3 DEF kom_smc_map_insecure
    <2> HIDE DEF e, linked
    <2>5. \A q \in Page :
            secure_pages'[q] = IF q = l3pt THEN linked ELSE secure_pages[q]
      BY <2>1, <2>4 DEF Inv, TypeOK
    <2>6. Shares(l3pt, i)
      BY <2>1, <2>2, <2>3, <2>4, <2>5 DEF Shares
    <2> QED
      BY <1>1, <1>3, <2>1, <2>6 DEF HostCalls
  <1> QED
    BY <1>2, <1>3

LEMMA SetStateMoves ==
  ASSUME Inv, NEW asp, NEW s \in {"FINAL", "STOPPED"}, UNCHANGED db, is_addrspace(asp),
         s = "STOPPED" \/ addrspace_state(asp) = "INIT",
         secure_pages' = [secure_pages EXCEPT ![asp].state = s]
  PROVE  asp \in Page /\ Moves(asp, s)
  <1> DEFINE a == [secure_pages[asp] EXCEPT !.state = s]
  <1>1. /\ asp \in Page /\ type[asp] = "ADDRSPACE"
        /\ secure_pages[asp] \in AddrspaceContent
        /\ s \in AddrspaceState
    BY DEF Inv, Ownership, AddrspaceState, is_addrspace, page_is_typed, page_is_valid
  <1>2. a.state = s
    BY <1>1, SetState
  <1>3. secure_pages' = [secure_pages EXCEPT ![asp] = a]
    OBVIOUS
  <1> HIDE DEF a
  <1>4. \A q \in Page : secure_pages'[q] = IF q = asp THEN a ELSE secure_pages[q]
    BY <1>1, <1>3 DEF Inv, TypeOK
  <1>5. s = "STOPPED" \/ (s = "FINAL" /\ secure_pages[asp].state = "INIT")
    BY DEF addrspace_state
  <1>6. \A q \in Page \ {asp} : secure_pages'[q] = secure_pages[q]
    BY <1>4
  <1>7. secure_pages'[asp].state = s
    BY <1>1, <1>2, <1>4
  <1> QED
    BY Zenon, <1>1, <1>5, <1>6, <1>7 DEF Moves

LEMMA FinaliseStep ==
  ASSUME Inv, NEW asp, kom_smc_finalise(asp)
  PROVE  /\ HostCalls
         /\ finalise_err(asp) = "SUCCESS" => Moves(asp, "FINAL")
  <1>1. ~enclave_mode /\ a0' = finalise_err(asp) /\ UNCHANGED <<insecure_pages, world, ctx>>
    BY DEF kom_smc_finalise, smc_return
  <1>2. CASE finalise_err(asp) # "SUCCESS"
    BY <1>1, <1>2 DEF kom_smc_finalise, HostCalls
  <1>3. CASE finalise_err(asp) = "SUCCESS"
    <2>1. asp \in Page /\ Moves(asp, "FINAL")
      BY <1>3, SetStateMoves DEF kom_smc_finalise, finalise_err, is_addrspace
    <2> QED
      BY <1>1, <1>3, <2>1 DEF HostCalls
  <1> QED
    BY <1>2, <1>3

LEMMA StopStep ==
  ASSUME Inv, NEW asp, kom_smc_stop(asp)
  PROVE  /\ HostCalls
         /\ stop_err(asp) = "SUCCESS" => Moves(asp, "STOPPED")
  <1>1. ~enclave_mode /\ a0' = stop_err(asp) /\ UNCHANGED <<insecure_pages, world, ctx>>
    BY DEF kom_smc_stop, smc_return
  <1>2. CASE stop_err(asp) # "SUCCESS"
    BY <1>1, <1>2 DEF kom_smc_stop, HostCalls
  <1>3. CASE stop_err(asp) = "SUCCESS"
    <2>1. asp \in Page /\ Moves(asp, "STOPPED")
      BY <1>3, SetStateMoves DEF kom_smc_stop, stop_err, is_addrspace
    <2> QED
      BY <1>1, <1>3, <2>1 DEF HostCalls
  <1> QED
    BY <1>2, <1>3

LEMMA RemoveStep ==
  ASSUME Inv, NEW page, kom_smc_remove(page)
  PROVE  HostCalls
  <1> DEFINE err == remove_err(page)
             asp == IF type[page] = "ADDRSPACE" THEN page ELSE addrspace_page[page]
             counted == [secure_pages[asp] EXCEPT !.refcount = @ - 1]
  <1>1. ~enclave_mode /\ a0' = err /\ UNCHANGED <<insecure_pages, world, ctx>>
    BY DEF kom_smc_remove, smc_return
  <1>2. CASE ~(err = "SUCCESS" /\ ~page_is_free(page))
    <2>1. err = "SUCCESS" => page \in Page /\ type[page] = "FREE"
      BY <1>2 DEF remove_err, page_is_free, page_is_valid, page_is_typed
    <2> QED
      BY Zenon, <1>1, <1>2, <2>1 DEF kom_smc_remove, HostCalls
  <1>3. CASE err = "SUCCESS" /\ ~page_is_free(page)
    <2> USE DEF is_addrspace, page_is_typed, page_is_valid, page_is_free, addrspace_state
    <2>1. page \in Page /\ type[page] # "FREE"
      BY <1>3 DEF remove_err
    <2>2. /\ asp = addrspace_page[page] /\ asp \in Page
          /\ type[asp] = "ADDRSPACE" /\ page \in owned(asp)
      BY <2>1 DEF Inv, Ownership, owned
    <2> HIDE DEF asp
    <2>3. /\ secure_pages[asp].state = "STOPPED"
          /\ page = asp => secure_pages[asp].refcount = 1
      BY <1>3, <2>1, <2>2 DEF remove_err, asp
    <2>4. /\ secure_pages' = [secure_pages EXCEPT ![asp] = counted]
          /\ type' = [type EXCEPT ![page] = "FREE"]
          /\ addrspace_page' = [addrspace_page EXCEPT ![page] = NoPage]
      BY <1>3 DEF kom_smc_remove, asp
    <2>5. /\ secure_pages[asp] \in AddrspaceContent
          /\ secure_pages[asp].refcount = Cardinality(owned(asp))
      BY <2>2 DEF Inv, Ownership, Refcount
    <2>6. /\ IsFiniteSet(owned(asp) \ {page})
          /\ Cardinality(owned(asp) \ {page}) = Cardinality(owned(asp)) - 1
          /\ Cardinality(owned(asp) \ {page}) \in Nat
      BY <2>2, OwnedFinite, FS_RemoveElement, FS_CardinalityType
    <2>7. counted.state = "STOPPED"
      BY <2>3, <2>5, <2>6, SetRefcount
    <2> HIDE DEF counted
    <2>8. page = asp => owned(asp) = {asp}
      <3>1. page = asp => owned(asp) \ {page} = {}
        BY <2>3, <2>5, <2>6, FS_EmptySet
      <3> QED
        BY <2>2, <3>1
    <2>9. Removes(page, asp)
      BY <2>1, <2>2, <2>3, <2>4, <2>7, <2>8 DEF Removes, Inv, TypeOK
    <2> QED
      BY Zenon, <1>1, <1>3, <2>1, <2>2, <2>9 DEF HostCalls
  <1> QED
    BY <1>2, <1>3

(* A call to enter goes in with new arguments, a call to resume without.   *)
LEMMA EnterStep ==
  ASSUME Inv, NEW disp, NEW arg \in {ctx.args, ctx.regs}, kom_smc_enter(disp, arg)
  PROVE  HostCalls \/ (disp \in Page /\ Enters(disp))
  <1> DEFINE dispatcher == [secure_pages[disp] EXCEPT !.saved.args = arg]
  <1>1. CASE enter_err(disp) # "SUCCESS"
    BY <1>1 DEF kom_smc_enter, smc_return, HostCalls
  <1>2. CASE enter_err(disp) = "SUCCESS"
    <2>1. /\ disp \in Page /\ type[disp] = "DISPATCHER"
          /\ addrspace_state(addrspace_page[disp]) = "FINAL"
          /\ ~secure_pages[disp].entered
      BY <1>2 DEF enter_err, page_is_typed, page_is_valid
    <2>2. /\ secure_pages' = [secure_pages EXCEPT ![disp] = dispatcher]
          /\ enter_secure_world(disp, dispatcher)
          /\ UNCHANGED <<db, insecure_pages, a0>>
      BY Zenon, <1>2 DEF kom_smc_enter
    <2>3. /\ secure_pages'[disp] = dispatcher
          /\ \A q \in Page \ {disp} : secure_pages'[q] = secure_pages[q]
      BY <2>1, <2>2 DEF Inv, TypeOK
    <2>4. \E v \in {ctx.args, ctx.regs} :
            secure_pages'[disp] = [secure_pages[disp] EXCEPT !.saved.args = v]
      BY Zenon, <2>3
    <2> HIDE DEF dispatcher
    <2> QED
      BY Zenon, <2>1, <2>2, <2>3, <2>4 DEF Enters, enter_secure_world
  <1> QED
    BY <1>1, <1>2

LEMMA ResumeStep ==
  ASSUME Inv, NEW disp, kom_smc_resume(disp)
  PROVE  HostCalls \/ (disp \in Page /\ Enters(disp))
  <1>1. CASE resume_err(disp) # "SUCCESS"
    BY <1>1 DEF kom_smc_resume, smc_return, HostCalls
  <1>2. CASE resume_err(disp) = "SUCCESS"
    <2>1. /\ disp \in Page /\ type[disp] = "DISPATCHER"
          /\ addrspace_state(addrspace_page[disp]) = "FINAL"
          /\ secure_pages[disp].entered
      BY <1>2 DEF resume_err, page_is_typed, page_is_valid
    <2>2. /\ UNCHANGED secure_pages
          /\ enter_secure_world(disp, secure_pages[disp])
          /\ UNCHANGED <<db, insecure_pages, a0>>
      BY Zenon, <1>2 DEF kom_smc_resume
    <2> QED
      BY Zenon, <2>1, <2>2 DEF Enters, enter_secure_world
  <1> QED
    BY <1>1, <1>2

LEMMA SmcStep ==
  ASSUME Inv, do_smc_calls
  PROVE  HostCalls \/ \E disp \in Page : Enters(disp)
  <1>1. CASE \E answer \in {"MAGIC", "NPAGES", "ENOSYS"} : smc_no_effect(answer)
    BY <1>1 DEF smc_no_effect, smc_return, HostCalls
  <1>2. CASE \E asp \in Arg.addrspace, l1pt \in Arg.l1pt :
               kom_smc_init_addrspace(asp, l1pt)
    BY Zenon, <1>2, InitAddrspaceStep
  <1>3. CASE \E p \in Arg.dispatcher, asp \in Arg.addrspace :
               kom_smc_init_dispatcher(p, asp)
    BY Zenon, <1>3, InitDispatcherStep
  <1>4. CASE \E p \in Arg.l2pt, l1pt \in Arg.l1pt, i \in Arg.index :
               kom_smc_init_l2ptable(p, l1pt, i)
    BY Zenon, <1>4, InitPtableStep DEF kom_smc_init_l2ptable
  <1>5. CASE \E p \in Arg.l3pt, l2pt \in Arg.l2pt, i \in Arg.index :
               kom_smc_init_l3ptable(p, l2pt, i)
    BY Zenon, <1>5, InitPtableStep DEF kom_smc_init_l3ptable
  <1>6. CASE \E p \in Arg.data, l3pt \in Arg.l3pt, i \in Arg.index, m \in Mapping,
                f \in Arg.insecure : kom_smc_map_secure(p, l3pt, i, m, f)
    BY Zenon, <1>6, MapSecureStep
  <1>7. CASE \E l3pt \in Arg.l3pt, i \in Arg.index, m \in Mapping, f \in Arg.insecure :
               kom_smc_map_insecure(l3pt, i, m, f)
    BY Zenon, <1>7, MapInsecureStep
  <1>8. CASE \E p \in AnyPage : kom_smc_remove(p)
    BY Zenon, <1>8, RemoveStep
  <1>9. CASE \E asp \in Arg.addrspace : kom_smc_finalise(asp) \/ kom_smc_stop(asp)
    BY Zenon, <1>9, FinaliseStep, StopStep
  <1>10. CASE \E p \in Arg.dispatcher, arg \in {ctx.args, ctx.regs} : kom_smc_enter(p, arg)
    BY Zenon, <1>10, EnterStep
  <1>11. CASE \E p \in Arg.dispatcher : kom_smc_resume(p)
    BY Zenon, <1>11, ResumeStep
  <1> QED
    BY Zenon, <1>1, <1>2, <1>3, <1>4, <1>5, <1>6, <1>7, <1>8, <1>9, <1>10, <1>11
       DEF do_smc_calls

LEMMA LeaveStep ==
  ASSUME Inv, enclave_mode, NEW entered \in BOOLEAN, NEW pc,
         pc = IF entered THEN "insn" ELSE "after",
         leave_secure_world(entered, pc), UNCHANGED <<db, insecure_pages>>
  PROVE  Leaves(entered)
  <1> DEFINE left == [kind |-> "dispatcher", entered |-> entered, mepc |-> pc,
                      saved |-> ctx]
  <1>1. secure_pages' = [secure_pages EXCEPT ![g_cur_dispatcher_pageno] = left]
    BY DEF leave_secure_world
  <1>2. left.saved = ctx /\ left.entered = entered /\ left.mepc = pc
    OBVIOUS
  <1> HIDE DEF left
  <1>3. \A q \in Page :
          secure_pages'[q] = IF q = g_cur_dispatcher_pageno THEN left ELSE secure_pages[q]
    BY <1>1 DEF Inv, TypeOK
  <1>4. g_cur_dispatcher_pageno \in Page
    BY DEF Inv, TypeOK
  <1>5. secure_pages'[g_cur_dispatcher_pageno] = left
    BY <1>3, <1>4
  <1>6. \A q \in Page \ {g_cur_dispatcher_pageno} : secure_pages'[q] = secure_pages[q]
    BY <1>3
  <1> QED
    BY <1>2, <1>5, <1>6 DEF Leaves, leave_secure_world

LEMMA LoadStep ==
  ASSUME Inv, load
  PROVE  Runs
  <1>0. PICK f \in accessible("R") : \E v \in values_at(f) :
          ctx' = IF v = Public THEN ctx ELSE filled(v, ctx.satp)
    BY Zenon DEF load
  <1>1. PICK v \in values_at(f) :
          ctx' = IF v = Public THEN ctx ELSE filled(v, ctx.satp)
    BY Zenon, <1>0
  <1>2. Learns(v)
    <2>1. UNCHANGED <<db, memory, world>>
      BY DEF load
    <2> QED
      BY <1>1, <2>1 DEF Learns, SameRegs, AllRegs, filled
  <1>3. CASE f \in InsecurePage
    BY <1>1, <1>2, <1>3 DEF values_at, Runs
  <1>4. CASE f \notin InsecurePage
    <2>1. own_data(f) /\ f \in Page
      BY <1>4, Reach DEF own_data, page_is_typed, page_is_valid
    <2>2. secure_pages[f] \in DataContent
      BY <2>1 DEF own_data, Inv, Ownership
    <2>3. v = secure_pages[f].val
      BY <1>1, <1>4, <2>2, Kinds DEF values_at
    <2> QED
      BY <1>2, <2>1, <2>3 DEF Runs
  <1> QED
    BY <1>3, <1>4

LEMMA StoreStep ==
  ASSUME Inv, store
  PROVE  Runs
  <1>1. PICK f \in accessible("W") :
          \/ /\ f \in InsecurePage
             /\ insecure_pages' = [insecure_pages EXCEPT
                                     ![f] = IF enclave_mode THEN Public ELSE ctx.regs]
             /\ UNCHANGED secure_pages
          \/ /\ f \in Page
             /\ secure_pages' = [secure_pages EXCEPT ![f] = Data(ctx.regs)]
             /\ UNCHANGED insecure_pages
    BY DEF store
  <1>2. UNCHANGED <<db, world, ctx>>
    BY DEF store
  <1>3. f \in Page => own_data(f)
    BY Reach, PageAssumption DEF own_data
  <1> QED
    BY Zenon, <1>1, <1>2, <1>3 DEF Runs

LEMMA NextStep == Inv /\ [Next]_vars => Step
  <1> SUFFICES ASSUME Inv, [Next]_vars PROVE Step
    OBVIOUS
  <1>1. CASE do_smc_calls
    BY <1>1, SmcStep DEF Step
  <1>2. CASE kom_svc_exit
    BY Zenon, <1>2, LeaveStep DEF kom_svc_exit, Step
  <1>3. CASE svc_unknown
    BY <1>3 DEF svc_unknown, Step, Runs, SameRegs
  <1>4. CASE \E cause \in {"interrupt", "exception"} : do_trap(cause)
    <2>1. PICK cause : do_trap(cause)
      BY <1>4
    <2>2. CASE enclave_mode /\ kom_handle_trap(cause)
      <3>1. Leaves(TRUE)
        BY Zenon, <2>2, LeaveStep DEF kom_handle_trap
      <3>2. a0' \in {"INTERRUPTED", "FAULT"}
        BY <2>2 DEF kom_handle_trap
      <3> QED
        BY <3>1, <3>2 DEF Step
    <2>3. CASE UNCHANGED <<db, memory, world, ctx, cpu, a0>>
      BY <2>3 DEF Step, Runs, SameRegs
    <2> QED
      BY <2>1, <2>2, <2>3 DEF do_trap
  <1>5. CASE load
    BY <1>5, LoadStep DEF Step, load
  <1>6. CASE store
    BY <1>6, StoreStep DEF Step, store
  <1>7. CASE compute
    BY <1>7 DEF compute, cur_addrspace, filled, AllRegs, Step, Runs
  <1>8. CASE write_satp
    <2>1. ctx \in Context
      BY DEF Inv, TypeOK
    <2> QED
      BY <1>8, <2>1 DEF write_satp, Context, Step, Runs, SameRegs
  <1>9. CASE UNCHANGED vars
    BY <1>9 DEF vars, Step, Runs, SameRegs
  <1> QED
    BY <1>1, <1>2, <1>3, <1>4, <1>5, <1>6, <1>7, <1>8, <1>9
       DEF Next, do_svc_calls, software

LEMMA OwnerInUse ==
  ASSUME Inv, NEW p \in Page, type[p] # "FREE"
  PROVE  addrspace_page[p] \in Page /\ type[addrspace_page[p]] = "ADDRSPACE"
  BY DEF Inv, Ownership, is_addrspace, page_is_typed, page_is_valid

=============================================================================
