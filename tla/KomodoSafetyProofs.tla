------------------------- MODULE KomodoSafetyProofs -------------------------
(***************************************************************************)
(* What follows from the steps of the Komodo monitor for secrets, resume   *)
(* points, aliases, the pages of others and finalised address spaces; and  *)
(* that the monitor implements what it promises, for every number of       *)
(* pages, table entries and address spaces: each step of the monitor, the  *)
(* enclaves and the host is a step of KomodoSpec under the mapping of      *)
(* KomodoRefinement, or changes nothing that KomodoSpec can see.           *)
(***************************************************************************)
EXTENDS KomodoRefinement, KomodoProofs

(* The steps below carry long contexts: Zenon, which needs no translation  *)
(* of them, goes first, and the provers get more time.                     *)
USE ZenonT(1), SMTT(30), ZenonT(20)

(***************************************************************************)
(* Secrets.  A page that joins an address space is blank, software learns  *)
(* only what its own pages hold, and a switch of worlds exchanges all      *)
(* registers.                                                              *)
(***************************************************************************)
LEMMA HostCallsConfined ==
  ASSUME Inv, Confined, HostCalls
  PROVE  Confined'
  <1> USE DEF page_is_typed, page_is_valid, is_dispatcher, may_hold
  <1>1. /\ ~enclave_mode /\ ~enclave_mode'
        /\ UNCHANGED <<insecure_pages, host_state, ctx>>
    BY DEF HostCalls, world
  <1>2. SUFFICES
          /\ \A p \in Page : page_is_typed(p, "DATA")' =>
               may_hold(addrspace_page'[p], secure_pages'[p].val)
          /\ \A p \in Page : is_dispatcher(p)' =>
               context_holds(addrspace_page'[p], secure_pages'[p].saved)
    BY <1>1 DEF Confined
  <1>3. ASSUME NEW p \in Page, type[p] \in {"DATA", "DISPATCHER"},
               type'[p] = type[p], addrspace_page'[p] = addrspace_page[p],
               secure_pages'[p] = secure_pages[p]
        PROVE  /\ type[p] = "DATA" => may_hold(addrspace_page'[p], secure_pages'[p].val)
               /\ type[p] = "DISPATCHER" =>
                    context_holds(addrspace_page'[p], secure_pages'[p].saved)
    BY <1>3 DEF Confined
  <1>4. CASE UNCHANGED <<db, secure_pages>>
    BY <1>3, <1>4 DEF db
  <1>5. CASE \E asp, l1pt \in Page : Builds(asp, l1pt)
    BY <1>3, <1>5 DEF Builds
  <1>6. CASE \E page, asp, tbl \in Page : \E i, t : Adds(page, asp, t, tbl, i)
    <2>0. PICK page \in Page, asp \in Page, tbl \in Page :
            \E i, t : Adds(page, asp, t, tbl, i)
      BY Zenon, <1>6
    <2>1. PICK i, t : Adds(page, asp, t, tbl, i)
      BY Zenon, <2>0
    <2>2. Blank(secure_pages'[page], t) /\ type'[page] = t
      BY <2>1 DEF Adds
    <2>3. t = "DATA" => secure_pages'[page].val = Public
      BY <2>2, Contents DEF Blank, Confined, Inv, TypeOK
    <2>4. t = "DISPATCHER" =>
            context_holds(addrspace_page'[page], secure_pages'[page].saved)
      BY <2>2 DEF Blank, context_holds
    <2>5. \A p \in Page \ {page} :
            /\ type'[p] = type[p] /\ addrspace_page'[p] = addrspace_page[p]
            /\ type[p] \in {"DATA", "DISPATCHER"} => secure_pages'[p] = secure_pages[p]
      BY <2>1 DEF Adds, is_ptable
    <2> QED
      BY <1>3, <2>2, <2>3, <2>4, <2>5
  <1>7. CASE \E l3pt \in Page, i \in Index : Shares(l3pt, i)
    BY <1>3, <1>7 DEF Shares, db
  <1>8. CASE \E asp \in Page : \E s : Moves(asp, s)
    BY <1>3, <1>8 DEF Moves, db
  <1>9. CASE \E page, asp \in Page : Removes(page, asp)
    BY <1>3, <1>9 DEF Removes
  <1> QED
    BY <1>4, <1>5, <1>6, <1>7, <1>8, <1>9 DEF HostCalls

LEMMA StepConfined ==
  ASSUME Inv, Confined, Step
  PROVE  Confined'
  <1> USE DEF page_is_typed, page_is_valid, is_dispatcher, may_hold
  <1>1. CASE HostCalls
    BY <1>1, HostCallsConfined
  <1>2. CASE \E disp \in Page : Enters(disp)
    <2>1. PICK disp \in Page : Enters(disp)
      BY <1>2
    <2>2. /\ UNCHANGED <<type, addrspace_page, insecure_pages>>
          /\ cur_addrspace' = addrspace_page[disp] /\ enclave_mode'
          /\ ctx' = secure_pages'[disp].saved
          /\ host_state'.saved = ctx
          /\ ~enclave_mode /\ type[disp] = "DISPATCHER"
          /\ \A q \in Page \ {disp} : secure_pages'[q] = secure_pages[q]
      BY <2>1 DEF Enters, db, cur_addrspace
    <2>3. context_holds(Public, ctx)
      BY <2>2 DEF Confined
    <2>4. context_holds(addrspace_page[disp], secure_pages[disp].saved)
      BY <2>2 DEF Confined
    <2>5. context_holds(addrspace_page[disp], secure_pages'[disp].saved)
      <3>1. CASE secure_pages'[disp] = secure_pages[disp]
        BY <2>4, <3>1
      <3>2. CASE \E arg \in {ctx.args, ctx.regs} :
                   secure_pages'[disp] = [secure_pages[disp] EXCEPT !.saved.args = arg]
        <4>1. PICK arg \in {ctx.args, ctx.regs} :
                secure_pages'[disp] = [secure_pages[disp] EXCEPT !.saved.args = arg]
          BY Zenon, <3>2
        <4>2. secure_pages[disp] \in DispatcherContent
          BY <2>2 DEF Inv, Ownership
        <4>3. arg = Public /\ arg \in Val
          BY <2>3 DEF context_holds, Val
        <4>4. /\ secure_pages'[disp].saved.args = Public
              /\ secure_pages'[disp].saved.regs = secure_pages[disp].saved.regs
              /\ secure_pages'[disp].saved.csrs = secure_pages[disp].saved.csrs
          BY <4>1, <4>2, <4>3 DEF DispatcherContent, Context
        <4> QED
          BY <2>4, <4>4 DEF context_holds
      <3> QED
        BY <2>1, <3>1, <3>2 DEF Enters
    <2>6. \A p \in Page : type[p] = "DATA" =>
            may_hold(addrspace_page[p], secure_pages'[p].val)
      BY <2>2 DEF Confined
    <2>7. \A p \in Page : type[p] = "DISPATCHER" =>
            context_holds(addrspace_page[p], secure_pages'[p].saved)
      BY <2>2, <2>5 DEF Confined
    <2> HIDE DEF may_hold
    <2> QED
      BY <2>2, <2>3, <2>5, <2>6, <2>7 DEF Confined
  <1>3. CASE \E entered \in BOOLEAN : Leaves(entered)
    <2> DEFINE disp == g_cur_dispatcher_pageno
    <2>1. PICK entered \in BOOLEAN : Leaves(entered)
      BY <1>3
    <2>2. /\ UNCHANGED <<type, addrspace_page, insecure_pages, host_state>>
          /\ enclave_mode /\ ~enclave_mode'
          /\ ctx' = host_state.saved
          /\ secure_pages'[disp].saved = ctx
          /\ \A q \in Page \ {disp} : secure_pages'[q] = secure_pages[q]
      BY <2>1 DEF Leaves, db
    <2>3. disp \in Page /\ type[disp] = "DISPATCHER"
      BY <2>2 DEF Inv, WorldSwitch
    <2>4. context_holds(addrspace_page[disp], ctx)
      BY <2>2 DEF Confined, cur_addrspace
    <2> HIDE DEF disp
    <2>5. \A p \in Page : type[p] = "DATA" =>
            may_hold(addrspace_page[p], secure_pages'[p].val)
      BY <2>2, <2>3 DEF Confined
    <2>6. \A p \in Page : type[p] = "DISPATCHER" =>
            context_holds(addrspace_page[p], secure_pages'[p].saved)
      BY <2>2, <2>4 DEF Confined
    <2> QED
      BY <2>2, <2>5, <2>6 DEF Confined
  <1>4. CASE Runs
    <2> DEFINE asp == IF enclave_mode THEN cur_addrspace ELSE Public
    <2>1. context_holds(asp, ctx)
      BY DEF Confined
    <2>2. ASSUME UNCHANGED <<db, memory, world>>, context_holds(asp, ctx')
          PROVE  Confined'
      BY <2>2 DEF Confined, db, memory, world, cur_addrspace
    <2>3. CASE UNCHANGED <<db, memory, world>> /\ SameRegs
      BY <2>1, <2>2, <2>3 DEF SameRegs, context_holds
    <2>4. ASSUME NEW v, may_hold(asp, v), Learns(v)
          PROVE  Confined'
      BY <2>1, <2>2, <2>4 DEF Learns, SameRegs, AllRegs, context_holds
    <2>5. CASE \E f \in InsecurePage : Learns(insecure_pages[f])
      BY <2>4, <2>5 DEF Confined
    <2>6. CASE \E p \in Page : own_data(p) /\ Learns(secure_pages[p].val)
      BY <2>4, <2>6 DEF own_data, Confined
    <2>9. CASE enclave_mode /\ UNCHANGED <<db, memory, world>> /\ AllRegs(cur_addrspace)
      BY <2>2, <2>9 DEF AllRegs, context_holds
    <2>7. CASE /\ UNCHANGED <<db, secure_pages, world, ctx>>
               /\ \E f \in InsecurePage :
                    insecure_pages' = [insecure_pages EXCEPT
                                         ![f] = IF enclave_mode THEN Public ELSE ctx.regs]
      <3>1. \A f \in InsecurePage : insecure_pages'[f] = Public
        BY <2>1, <2>7 DEF Confined, context_holds, Inv, TypeOK
      <3> QED
        BY <2>7, <3>1 DEF Confined, db, world, cur_addrspace
    <2>8. CASE /\ UNCHANGED <<db, insecure_pages, world, ctx>>
               /\ \E p \in Page :
                    /\ own_data(p)
                    /\ secure_pages' = [secure_pages EXCEPT ![p] = Data(ctx.regs)]
      <3>1. PICK p \in Page :
              /\ own_data(p)
              /\ secure_pages' = [secure_pages EXCEPT ![p] = Data(ctx.regs)]
        BY Zenon, <2>8
      <3>2. /\ type[p] = "DATA" /\ addrspace_page[p] = asp
            /\ secure_pages'[p].val = ctx.regs
            /\ \A q \in Page \ {p} : secure_pages'[q] = secure_pages[q]
        BY <3>1 DEF own_data, Data, Inv, TypeOK
      <3>3. UNCHANGED <<type, addrspace_page, insecure_pages, host_state, enclave_mode,
                        g_cur_dispatcher_pageno, ctx>>
        BY <2>8 DEF db, world
      <3>4. \A q \in Page : type[q] = "DATA" =>
              may_hold(addrspace_page[q], secure_pages'[q].val)
        BY <2>1, <3>2 DEF Confined, context_holds
      <3>5. \A q \in Page : type[q] = "DISPATCHER" => secure_pages'[q] = secure_pages[q]
        BY <3>2
      <3> QED
        BY <3>3, <3>4, <3>5 DEF Confined, cur_addrspace
    <2> QED
      BY <1>4, <2>3, <2>5, <2>6, <2>7, <2>8, <2>9 DEF Runs
  <1> QED
    BY <1>1, <1>2, <1>3, <1>4 DEF Step

(* What an enclave computes stays in its own pages, dispatchers and        *)
(* registers: the calls that allocate pages, the world switches and the    *)
(* page tables leave no way out, whichever pages are reused.               *)
THEOREM SecretsConfined == Spec => []Confined
  <1>1. Init => Confined
    BY DEF Init, Confined, context_holds, filled, may_hold, page_is_typed, is_dispatcher
  <1>2. Inv /\ Confined /\ [Next]_vars => Confined'
    BY NextStep, StepConfined
  <1> QED
    BY <1>1, <1>2, InductiveInvariant, PTL DEF Spec

-----------------------------------------------------------------------------
(* A dispatcher is resumed exactly where kom_handle_trap or kom_svc_exit   *)
(* left it, and the host after its call.                                   *)
LEMMA StepResumes ==
  ASSUME Inv, ResumePoint, Step
  PROVE  ResumePoint'
  <1> USE DEF page_is_typed, page_is_valid, is_dispatcher
  <1>1. ASSUME NEW p \in Page, type[p] = "DISPATCHER", secure_pages'[p] = secure_pages[p]
        PROVE  secure_pages'[p].entered <=> secure_pages'[p].mepc = "insn"
    BY <1>1 DEF ResumePoint
  <1>2. CASE HostCalls
    <2>1. ~enclave_mode /\ ~enclave_mode'
      BY <1>2 DEF HostCalls, world
    <2>2. SUFFICES ASSUME NEW p \in Page, type'[p] = "DISPATCHER"
                   PROVE  secure_pages'[p].entered <=> secure_pages'[p].mepc = "insn"
      BY <2>1 DEF ResumePoint
    <2>3. CASE UNCHANGED <<db, secure_pages>>
      BY <1>1, <2>2, <2>3 DEF db
    <2>4. CASE \E asp, l1pt \in Page : Builds(asp, l1pt)
      BY <1>1, <2>2, <2>4 DEF Builds
    <2>5. CASE \E page, asp, tbl \in Page : \E i, t : Adds(page, asp, t, tbl, i)
      <3>0. PICK page \in Page, asp \in Page, tbl \in Page :
              \E i, t : Adds(page, asp, t, tbl, i)
        BY Zenon, <2>5
      <3>1. PICK i, t : Adds(page, asp, t, tbl, i)
        BY Zenon, <3>0
      <3>2. CASE p = page
        BY <2>2, <3>1, <3>2 DEF Adds, Blank
      <3>3. CASE p # page
        BY <1>1, <2>2, <3>1, <3>3 DEF Adds, is_ptable
      <3> QED
        BY <3>2, <3>3
    <2>6. CASE \E l3pt \in Page, i \in Index : Shares(l3pt, i)
      BY <1>1, <2>2, <2>6 DEF Shares, db
    <2>7. CASE \E asp \in Page : \E s : Moves(asp, s)
      BY <1>1, <2>2, <2>7 DEF Moves, db
    <2>8. CASE \E page, asp \in Page : Removes(page, asp)
      BY <1>1, <2>2, <2>8 DEF Removes
    <2> QED
      BY <1>2, <2>3, <2>4, <2>5, <2>6, <2>7, <2>8 DEF HostCalls
  <1>3. CASE \E disp \in Page : Enters(disp)
    <2>1. PICK disp \in Page : Enters(disp)
      BY <1>3
    <2>2. secure_pages[disp] \in DispatcherContent /\ ctx.args \in Val /\ ctx.regs \in Val
      BY <2>1 DEF Enters, Inv, Ownership, TypeOK, Context
    <2>3. /\ secure_pages'[disp].entered = secure_pages[disp].entered
          /\ secure_pages'[disp].mepc = secure_pages[disp].mepc
      <3>1. CASE secure_pages'[disp] = secure_pages[disp]
        BY <3>1
      <3>2. CASE \E arg \in {ctx.args, ctx.regs} :
                   secure_pages'[disp] = [secure_pages[disp] EXCEPT !.saved.args = arg]
        <4>1. PICK arg \in Val :
                secure_pages'[disp] = [secure_pages[disp] EXCEPT !.saved.args = arg]
          BY Zenon, <2>2, <3>2
        <4> QED
          BY <2>2, <4>1 DEF DispatcherContent, Context
      <3> QED
        BY Zenon, <2>1, <3>1, <3>2 DEF Enters
    <2>4. \A p \in Page : type[p] = "DISPATCHER" =>
            (secure_pages'[p].entered <=> secure_pages'[p].mepc = "insn")
      BY <2>1, <2>3 DEF Enters, ResumePoint
    <2> QED
      BY <2>1, <2>4 DEF Enters, db, ResumePoint
  <1>4. CASE \E entered \in BOOLEAN : Leaves(entered)
    BY <1>1, <1>4 DEF Leaves, db, ResumePoint
  <1>5. CASE Runs
    <2>1. UNCHANGED <<type, host_state, enclave_mode>>
      BY <1>5 DEF Runs, Learns, db, world
    <2>2. \A p \in Page : type[p] = "DISPATCHER" => secure_pages'[p] = secure_pages[p]
      BY <1>5 DEF Runs, Learns, memory, own_data, Inv, TypeOK
    <2> QED
      BY <1>1, <2>1, <2>2 DEF ResumePoint
  <1> QED
    BY <1>2, <1>3, <1>4, <1>5 DEF Step

(* However an enclave and its dispatchers are interrupted, exit and are    *)
(* entered again, `entered' tells kom_smc_enter and kom_smc_resume where   *)
(* it stopped.                                                             *)
THEOREM ResumesWhereItLeft == Spec => []ResumePoint
  <1>1. Init => ResumePoint
    BY DEF Init, ResumePoint, page_is_typed, is_dispatcher
  <1>2. Inv /\ ResumePoint /\ [Next]_vars => ResumePoint'
    BY NextStep, StepResumes
  <1> QED
    BY <1>1, <1>2, InductiveInvariant, PTL DEF Spec
-----------------------------------------------------------------------------
(***************************************************************************)
(* Aliases.  Every link of a live table is an old one, or the one a call   *)
(* made to a page that was free; and no live table links a free page.      *)
(***************************************************************************)
frame(p, i) == secure_pages[p].entry[i].frame

linked(p, i) == is_ptable(p) /\ live(p) /\ frame(p, i) \in Page

LEMMA LinkedInUse ==
  ASSUME Inv, NEW p \in Page, NEW i \in Index, linked(p, i)
  PROVE  type[frame(p, i)] # "FREE"
  <1> DEFINE e == secure_pages[p].entry[i]
  <1>1. well_linked(p, e)
    BY DEF Inv, PageTables, linked
  <1>2. frame(p, i) = e.frame /\ e.frame \in Page
    BY DEF linked, frame
  <1> HIDE DEF e
  <1>3. e # NoEntry /\ e.frame \notin InsecurePage
    <2>1. NoEntry.frame = NoPage
      BY DEF NoEntry
    <2> QED
      BY <1>2, <2>1, PageAssumption
  <1>4. \E t \in {"L2PTABLE", "L3PTABLE", "DATA"} : page_is_typed(e.frame, t)
    BY <1>1, <1>3 DEF well_linked, links_to, insecure_page_is_valid
  <1> QED
    BY <1>2, <1>4 DEF page_is_typed

LEMMA OldLinks ==
  ASSUME NoAlias,
         \A p \in Page, i \in Index :
           linked(p, i)' => linked(p, i) /\ frame(p, i)' = frame(p, i)
  PROVE  NoAlias'
  BY DEF NoAlias, linked, frame

LEMMA StepNoAlias ==
  ASSUME Inv, NoAlias, Step
  PROVE  NoAlias'
  <1> USE DEF is_ptable, page_is_valid, live, addrspace_state
  <1>1. ASSUME UNCHANGED db, NEW t \in Page, type[t] \in {"DATA", "DISPATCHER"},
               \A q \in Page \ {t} : secure_pages'[q] = secure_pages[q]
        PROVE  NoAlias'
    <2>1. ASSUME NEW p \in Page, NEW i \in Index, linked(p, i)'
          PROVE  linked(p, i) /\ frame(p, i)' = frame(p, i)
      BY <1>1, <2>1, OwnerInUse DEF linked, frame, db
    <2> QED
      BY <2>1, OldLinks
  <1>2. ASSUME UNCHANGED <<db, secure_pages>>
        PROVE  NoAlias'
    BY <1>2 DEF NoAlias, db
  <1>3. CASE \E asp, l1pt \in Page : Builds(asp, l1pt)
    <2>1. PICK asp \in Page, l1pt \in Page : Builds(asp, l1pt)
      BY <1>3
    <2>2. ASSUME NEW p \in Page, NEW i \in Index, linked(p, i)'
          PROVE  linked(p, i) /\ frame(p, i)' = frame(p, i)
      <3>1. p # l1pt
        BY <2>1, <2>2, Contents, PageAssumption DEF Builds, linked, frame, NoEntry
      <3>2. p # asp /\ type[p] = type'[p] /\ addrspace_page'[p] = addrspace_page[p]
            /\ secure_pages'[p] = secure_pages[p]
        BY <2>1, <2>2, <3>1 DEF Builds, linked
      <3>3. secure_pages'[addrspace_page[p]] = secure_pages[addrspace_page[p]]
        BY <2>1, <2>2, <3>2, OwnerInUse DEF Builds, linked
      <3> QED
        BY <2>2, <3>2, <3>3 DEF linked, frame
    <2> QED
      BY <2>2, OldLinks
  <1>4. CASE \E page, asp, tbl \in Page : \E i, t : Adds(page, asp, t, tbl, i)
    <2>0. PICK page \in Page, asp \in Page, tbl \in Page :
            \E i, t : Adds(page, asp, t, tbl, i)
      BY Zenon, <1>4
    <2>1. PICK k, t : Adds(page, asp, t, tbl, k)
      BY Zenon, <2>0
    <2>2. ASSUME NEW p \in Page, NEW i \in Index, linked(p, i)'
          PROVE  \/ linked(p, i) /\ frame(p, i)' = frame(p, i)
                 \/ p = tbl /\ i = k /\ frame(p, i)' = page
      <3>1. p # page
        BY <2>1, <2>2, Contents, PageAssumption DEF Adds, Blank, linked, frame, NoEntry
      <3>2. p # asp /\ type[p] = type'[p] /\ addrspace_page'[p] = addrspace_page[p]
        BY <2>1, <2>2, <3>1 DEF Adds, linked
      <3>3. secure_pages'[addrspace_page[p]].state = secure_pages[addrspace_page[p]].state
        BY <2>1, <2>2, <3>2, OwnerInUse DEF Adds, linked
      <3>4. CASE p = tbl
        BY <2>1, <2>2, <3>2, <3>3, <3>4 DEF Adds, linked, frame
      <3>5. CASE p # tbl
        BY <2>1, <2>2, <3>1, <3>2, <3>3, <3>5 DEF Adds, linked, frame
      <3> QED
        BY <3>4, <3>5
    <2>3. \A p \in Page, i \in Index : linked(p, i) => frame(p, i) # page
      BY <2>1, LinkedInUse DEF Adds
    <2>4. SUFFICES ASSUME NEW p \in Page, NEW q \in Page, NEW i \in Index, NEW j \in Index,
                          linked(p, i)', linked(q, j)', frame(p, i)' = frame(q, j)'
                   PROVE  p = q /\ i = j
      BY DEF NoAlias, linked, frame
    <2>5. CASE frame(p, i)' = page
      BY Zenon, <2>2, <2>3, <2>4, <2>5
    <2>6. CASE frame(p, i)' # page
      <3>1. linked(p, i) /\ linked(q, j) /\ frame(p, i) = frame(q, j)
        BY <2>2, <2>4, <2>6
      <3> QED
        BY <3>1 DEF NoAlias, linked, frame
    <2> QED
      BY <2>5, <2>6
  <1>5. CASE \E l3pt \in Page, i \in Index : Shares(l3pt, i)
    <2>1. PICK l3pt \in Page, k \in Index : Shares(l3pt, k)
      BY <1>5
    <2>2. ASSUME NEW p \in Page, NEW i \in Index, linked(p, i)'
          PROVE  linked(p, i) /\ frame(p, i)' = frame(p, i)
      <3>1. /\ type[p] = type'[p] /\ addrspace_page'[p] = addrspace_page[p]
            /\ secure_pages'[addrspace_page[p]] = secure_pages[addrspace_page[p]]
        BY <2>1, <2>2, OwnerInUse DEF Shares, linked, db
      <3>2. secure_pages'[p].entry[i] = secure_pages[p].entry[i]
        BY <2>1, <2>2, PageAssumption DEF Shares, linked, frame
      <3> QED
        BY <2>2, <3>1, <3>2 DEF linked, frame
    <2> QED
      BY <2>2, OldLinks
  <1>6. CASE \E asp \in Page : \E s : Moves(asp, s)
    <2>1. PICK asp \in Page : \E s : Moves(asp, s)
      BY <1>6
    <2>2. ASSUME NEW p \in Page, NEW i \in Index, linked(p, i)'
          PROVE  linked(p, i) /\ frame(p, i)' = frame(p, i)
      BY <2>1, <2>2, OwnerInUse DEF Moves, linked, frame, db
    <2> QED
      BY <2>2, OldLinks
  <1>7. CASE \E page, asp \in Page : Removes(page, asp)
    <2>1. PICK page \in Page, asp \in Page : Removes(page, asp)
      BY <1>7
    <2>2. ASSUME NEW p \in Page, NEW i \in Index, linked(p, i)'
          PROVE  linked(p, i) /\ frame(p, i)' = frame(p, i)
      BY <2>1, <2>2, OwnerInUse DEF Removes, linked, frame
    <2> QED
      BY <2>2, OldLinks
  <1>8. CASE HostCalls
    BY <1>2, <1>3, <1>4, <1>5, <1>6, <1>7, <1>8 DEF HostCalls
  <1>9. CASE \E disp \in Page : Enters(disp)
    BY <1>1, <1>9 DEF Enters
  <1>10. CASE \E entered \in BOOLEAN : Leaves(entered)
    BY <1>1, <1>10 DEF Leaves, Inv, WorldSwitch, is_dispatcher, page_is_typed
  <1>11. CASE Runs
    <2>1. CASE UNCHANGED <<db, secure_pages>>
      BY <1>2, <2>1
    <2>2. CASE /\ UNCHANGED <<db, insecure_pages, world, ctx>>
               /\ \E p \in Page :
                    /\ own_data(p)
                    /\ secure_pages' = [secure_pages EXCEPT ![p] = Data(ctx.regs)]
      BY <1>1, <2>2 DEF own_data, page_is_typed, Inv, TypeOK
    <2> QED
      BY <1>11, <2>1, <2>2 DEF Runs, Learns, memory
  <1> QED
    BY <1>8, <1>9, <1>10, <1>11 DEF Step

(* kom_smc_init_l2ptable, kom_smc_init_l3ptable and kom_smc_map_secure     *)
(* link only pages they have just allocated, so no secure page is ever     *)
(* mapped twice by address spaces that are not stopped.                    *)
THEOREM MappedOnce == Spec => []NoAlias
  <1>1. Init => NoAlias
    BY DEF Init, NoAlias, is_ptable
  <1>2. Inv /\ NoAlias /\ [Next]_vars => NoAlias'
    BY NextStep, StepNoAlias
  <1> QED
    BY <1>1, <1>2, InductiveInvariant, PTL DEF Spec

-----------------------------------------------------------------------------
(***************************************************************************)
(* Pages of others.                                                        *)
(***************************************************************************)
LEMMA StepIntegrity ==
  ASSUME Inv, Step, NEW p \in Page,
         type[p] \in {"DATA", "DISPATCHER"}, type'[p] = type[p],
         secure_pages'[p] # secure_pages[p]
  PROVE  runs(addrspace_page[p]) \/ handed_over(p)
  <1>1. ~HostCalls
    <2>1. ~\E asp, l1pt \in Page : Builds(asp, l1pt)
      BY DEF Builds
    <2>2. ~\E page, asp, tbl \in Page : \E i, t : Adds(page, asp, t, tbl, i)
      BY DEF Adds, is_ptable
    <2>3. ~\E l3pt \in Page, i \in Index : Shares(l3pt, i)
      BY DEF Shares
    <2>4. ~\E asp \in Page : \E s : Moves(asp, s)
      BY DEF Moves
    <2>5. ~\E page, asp \in Page : Removes(page, asp)
      BY DEF Removes
    <2> QED
      BY <2>1, <2>2, <2>3, <2>4, <2>5 DEF HostCalls
  <1>2. CASE \E disp \in Page : Enters(disp)
    BY <1>2 DEF Enters, handed_over, is_dispatcher, page_is_typed, page_is_valid
  <1>3. CASE \E entered \in BOOLEAN : Leaves(entered)
    BY <1>3 DEF Leaves, runs, cur_addrspace
  <1>4. CASE Runs
    BY <1>4 DEF Runs, Learns, memory, own_data, runs, Inv, TypeOK
  <1> QED
    BY <1>1, <1>2, <1>3, <1>4 DEF Step

(* No call of the host and no other enclave writes the data or the saved   *)
(* context of an enclave: they change only while that enclave runs, or     *)
(* with the type of the page.  kom_smc_enter alone hands the enclave three *)
(* registers, and only when it starts a dispatcher that had not been       *)
(* interrupted.                                                            *)
THEOREM OnlyOwnerWrites == Spec => Integrity
  <1> DEFINE Kept == \A p \in Page :
               /\ type[p] \in {"DATA", "DISPATCHER"} /\ type'[p] = type[p]
               /\ secure_pages'[p] # secure_pages[p]
               => runs(addrspace_page[p]) \/ handed_over(p)
  <1>1. Inv /\ [Next]_vars => [Kept]_vars
    BY NextStep, StepIntegrity
  <1> QED
    BY <1>1, InductiveInvariant, PTL DEF Spec, Integrity

(* Address space asp keeps its pages, their types, its page tables and its *)
(* state.                                                                  *)
Keeps(asp) ==
  /\ owned(asp)' = owned(asp)
  /\ \A p \in owned(asp) :
       /\ type'[p] = type[p]
       /\ is_ptable(p) => secure_pages'[p] = secure_pages[p]
  /\ secure_pages'[asp].state = secure_pages[asp].state

LEMMA StepFrozen ==
  ASSUME Inv, Step, NEW asp \in Page, is_addrspace(asp)
  PROVE  frozen(asp)
  <1> USE DEF page_is_typed, page_is_valid, is_addrspace, addrspace_state
  <1>1. addrspace_page[asp] = asp /\ asp \in owned(asp)
    BY DEF Inv, Ownership, owned
  <1>2. ASSUME Keeps(asp)
        PROVE  frozen(asp)
    BY <1>1, <1>2 DEF Keeps, frozen
  <1>3. ASSUME UNCHANGED db,
               \A q \in Page : is_ptable(q) /\ addrspace_page[q] = asp =>
                 secure_pages'[q] = secure_pages[q],
               secure_pages'[asp].state = secure_pages[asp].state
        PROVE  frozen(asp)
    <2>1. Keeps(asp)
      BY <1>3 DEF Keeps, owned, db
    <2> QED
      BY <1>2, <2>1
  <1>4. SUFFICES ASSUME secure_pages[asp].state # "INIT"
                 PROVE  frozen(asp)
    BY DEF frozen
  <1>5. CASE \E a, l1pt \in Page : Builds(a, l1pt)
    <2>1. Keeps(asp)
      BY <1>5 DEF Builds, Keeps, owned, is_ptable
    <2> QED
      BY <1>2, <2>1
  <1>6. CASE \E page, a, tbl \in Page : \E i, t : Adds(page, a, t, tbl, i)
    <2>0. PICK page \in Page, a \in Page, tbl \in Page :
            \E i, t : Adds(page, a, t, tbl, i)
      BY Zenon, <1>6
    <2>1. PICK i, t : Adds(page, a, t, tbl, i)
      BY Zenon, <2>0
    <2>2. asp \notin {page, a, tbl} /\ (is_ptable(tbl) => addrspace_page[tbl] # asp)
      BY <1>4, <2>1 DEF Adds, is_ptable
    <2>3. owned(asp)' = owned(asp)
      BY <2>1, <2>2 DEF Adds, owned
    <2>4. Keeps(asp)
      BY <2>1, <2>2, <2>3 DEF Adds, Keeps, owned, is_ptable
    <2> QED
      BY <1>2, <2>4
  <1>7. CASE \E l3pt \in Page, i \in Index : Shares(l3pt, i)
    BY <1>3, <1>4, <1>7 DEF Shares
  <1>8. CASE \E a \in Page : \E s : Moves(a, s)
    <2>1. PICK a \in Page : \E s : Moves(a, s)
      BY <1>8
    <2>2. CASE a # asp
      BY <1>3, <2>1, <2>2 DEF Moves, is_ptable
    <2>3. CASE a = asp
      BY <1>1, <1>4, <2>1, <2>3 DEF Moves, frozen, owned, db, is_ptable
    <2> QED
      BY <2>2, <2>3
  <1>9. CASE \E page, a \in Page : Removes(page, a)
    <2>1. PICK page \in Page, a \in Page : Removes(page, a)
      BY <1>9
    <2>2. CASE a # asp
      <3>1. page # asp /\ addrspace_page[page] # asp
        BY <1>1, <2>1, <2>2 DEF Removes
      <3>2. owned(asp)' = owned(asp)
        BY <2>1, <3>1, PageAssumption DEF Removes, owned
      <3>3. Keeps(asp)
        BY <2>1, <2>2, <3>1, <3>2 DEF Removes, Keeps, owned, is_ptable
      <3> QED
        BY <1>2, <3>3
    <2>3. CASE a = asp /\ page # asp
      <3>1. owned(asp)' \subseteq owned(asp)
        BY <2>1, PageAssumption DEF Removes, owned
      <3> QED
        BY <2>1, <2>3, <3>1 DEF Removes, frozen
    <2>4. CASE a = asp /\ page = asp
      BY <2>1, <2>4 DEF Removes, frozen, page_is_free
    <2> QED
      BY <2>2, <2>3, <2>4
  <1>10. CASE HostCalls
    BY Zenon, <1>3, <1>5, <1>6, <1>7, <1>8, <1>9, <1>10 DEF HostCalls
  <1>11. CASE \E disp \in Page : Enters(disp)
    BY <1>3, <1>11 DEF Enters, is_ptable
  <1>12. CASE \E entered \in BOOLEAN : Leaves(entered)
    BY <1>3, <1>12 DEF Leaves, is_ptable, Inv, WorldSwitch, is_dispatcher
  <1>13. CASE Runs
    <2>1. UNCHANGED db
      BY <1>13 DEF Runs, Learns
    <2>2. \A q \in Page : type[q] # "DATA" => secure_pages'[q] = secure_pages[q]
      BY <1>13 DEF Runs, Learns, memory, own_data, Inv, TypeOK
    <2> QED
      BY <1>3, <2>1, <2>2 DEF is_ptable
  <1> QED
    BY <1>10, <1>11, <1>12, <1>13 DEF Step

(* kom_smc_finalise is final: which pages an address space has, what they  *)
(* are used for and its page tables do not change until kom_smc_stop, and  *)
(* from then on kom_smc_remove only takes pages away, itself last.         *)
THEOREM FinalisedFrozen == Spec => FinalFrozen
  <1> DEFINE AllFrozen == \A asp \in Page : is_addrspace(asp) => frozen(asp)
  <1>1. Inv /\ [Next]_vars => [AllFrozen]_vars
    BY NextStep, StepFrozen
  <1> QED
    BY <1>1, InductiveInvariant, PTL DEF Spec, FinalFrozen

-----------------------------------------------------------------------------
(* The mapping, page by page.                                              *)
LEMMA Mapped ==
  /\ \A p \in Page :
       /\ abs_owner[p] = IF type[p] = "FREE" THEN NoPage ELSE addrspace_page[p]
       /\ abs_state[p] = IF type[p] = "ADDRSPACE" THEN secure_pages[p].state ELSE "NONE"
       /\ abs_data[p] = IF type[p] = "DATA" THEN secure_pages[p].val ELSE Public
       /\ abs_threads[p] = IF type[p] = "DISPATCHER" THEN abs_thread(secure_pages[p])
                           ELSE Promise!NoThread
  /\ abs_owner = [p \in Page |-> abs_owner[p]]
  /\ abs_state = [p \in Page |-> abs_state[p]]
  /\ abs_data = [p \in Page |-> abs_data[p]]
  /\ abs_threads = [p \in Page |-> abs_threads[p]]
  BY DEF abs_owner, abs_state, abs_data, abs_threads, Promise!NoThread,
         Promise!All, abs_regs, filled

LEMMA MappedPrime ==
  /\ \A p \in Page :
       /\ abs_owner'[p] = IF type'[p] = "FREE" THEN NoPage ELSE addrspace_page'[p]
       /\ abs_state'[p] = IF type'[p] = "ADDRSPACE" THEN secure_pages'[p].state ELSE "NONE"
       /\ abs_data'[p] = IF type'[p] = "DATA" THEN secure_pages'[p].val ELSE Public
       /\ abs_threads'[p] = IF type'[p] = "DISPATCHER" THEN abs_thread(secure_pages'[p])
                            ELSE Promise!NoThread
  /\ abs_owner' = [p \in Page |-> abs_owner'[p]]
  /\ abs_state' = [p \in Page |-> abs_state'[p]]
  /\ abs_data' = [p \in Page |-> abs_data'[p]]
  /\ abs_threads' = [p \in Page |-> abs_threads'[p]]
  BY DEF abs_owner, abs_state, abs_data, abs_threads, abs_thread, Promise!NoThread,
         Promise!All, abs_regs, filled

(* The host runs in the one exactly when it runs in the other.             *)
LEMMA HostMapped ==
  ASSUME Inv
  PROVE  /\ Promise!Host <=> ~enclave_mode
         /\ enclave_mode => /\ abs_running = g_cur_dispatcher_pageno
                            /\ g_cur_dispatcher_pageno \in Page
                            /\ type[g_cur_dispatcher_pageno] = "DISPATCHER"
                            /\ Promise!current_addrspace = cur_addrspace
  BY Mapped, PageAssumption
     DEF Promise!Host, Promise!current_addrspace, abs_running, Inv, WorldSwitch,
         is_dispatcher, page_is_typed, page_is_valid, cur_addrspace

(* A call of the host leaves these alone.                                  *)
HostOnly ==
  /\ ~enclave_mode
  /\ UNCHANGED <<insecure_pages, world, ctx>>

LEMMA HostOnlyMapped ==
  ASSUME Inv, HostOnly
  PROVE  /\ Promise!Host
         /\ a0' = "SUCCESS" => Promise!Done
         /\ UNCHANGED <<insecure_pages, abs_running, abs_regs(ctx),
                        abs_regs(host_state.saved)>>
  BY HostMapped DEF HostOnly, world, abs_running, Promise!Done

LEMMA BuildsRefines ==
  ASSUME Inv, Inv', HostOnly, NEW asp \in Page, NEW l1pt \in Page, Builds(asp, l1pt), a0' = "SUCCESS"
  PROVE  Promise!init_addrspace
  <1>1. asp \in Promise!Free /\ l1pt \in Promise!Free \ {asp}
    BY DEF Builds, Promise!Free
  <1>2. type' = [type EXCEPT ![asp] = "ADDRSPACE", ![l1pt] = "L1PTABLE"]
    BY DEF Builds, Inv, TypeOK
  <1>3. \A p \in Page :
          /\ abs_owner'[p] = IF p \in {asp, l1pt} THEN asp ELSE abs_owner[p]
          /\ abs_state'[p] = IF p = asp THEN "INIT" ELSE abs_state[p]
          /\ abs_data'[p] = abs_data[p]
          /\ abs_threads'[p] = abs_threads[p]
    BY Mapped, MappedPrime DEF Builds
  <1>4. abs_owner' = [abs_owner EXCEPT ![asp] = asp, ![l1pt] = asp]
    BY <1>3, Mapped, MappedPrime DEF Builds
  <1>5. abs_state' = [abs_state EXCEPT ![asp] = "INIT"]
    BY <1>3, Mapped, MappedPrime
  <1>6. UNCHANGED <<abs_data, abs_threads>>
    BY <1>3, Mapped, MappedPrime
  <1> QED
    BY Zenon, <1>1, <1>2, <1>4, <1>5, <1>6, HostOnlyMapped DEF Promise!init_addrspace

LEMMA AddsRefines ==
  ASSUME Inv, Inv', HostOnly, NEW page \in Page, NEW asp \in Page, NEW tbl \in Page,
         NEW i, NEW t, Adds(page, asp, t, tbl, i), a0' = "SUCCESS"
  PROVE  Promise!add_page
  <1>1. /\ page \in Promise!Free
        /\ t \in {"DISPATCHER", "L2PTABLE", "L3PTABLE", "DATA"}
        /\ asp \in Promise!In("INIT")
    BY Mapped DEF Adds, Blank, Promise!Free, Promise!In
  <1>2. type' = [type EXCEPT ![page] = t]
    BY DEF Adds, Inv, TypeOK
  <1>3. \A p \in Page \ {page, asp, tbl} :
          /\ type'[p] = type[p] /\ addrspace_page'[p] = addrspace_page[p]
          /\ secure_pages'[p] = secure_pages[p]
    BY DEF Adds
  <1>4. /\ type'[asp] = "ADDRSPACE" /\ type[asp] = "ADDRSPACE"
        /\ secure_pages'[asp].state = secure_pages[asp].state
        /\ addrspace_page'[asp] = addrspace_page[asp]
    BY DEF Adds
  <1>5. tbl # page /\ (tbl # asp =>
          /\ type[tbl] \in {"L1PTABLE", "L2PTABLE", "L3PTABLE"}
          /\ type'[tbl] = type[tbl] /\ addrspace_page'[tbl] = addrspace_page[tbl])
    BY DEF Adds, is_ptable
  <1>6. /\ type[page] = "FREE" /\ type'[page] = t
        /\ addrspace_page'[page] = asp
    BY DEF Adds
  <1>7. \A p \in Page : abs_owner'[p] = IF p = page THEN asp ELSE abs_owner[p]
    BY <1>1, <1>3, <1>4, <1>5, <1>6, Mapped, MappedPrime
  <1>8. abs_owner' = [abs_owner EXCEPT ![page] = asp]
    BY <1>7, Mapped, MappedPrime
  <1>9. \A p \in Page : abs_state'[p] = abs_state[p]
    BY <1>1, <1>3, <1>4, <1>5, <1>6, Mapped, MappedPrime
  <1>10. t = "DISPATCHER" => abs_thread(secure_pages'[page]) = Promise!NoThread
    BY Zenon DEF Adds, Blank, abs_thread, abs_regs, Promise!NoThread, Promise!All
  <1>11. \A p \in Page : abs_threads'[p] = abs_threads[p]
    BY <1>1, <1>3, <1>4, <1>5, <1>6, <1>10, Mapped, MappedPrime
  <1>12. \A p \in Page \ {page} : abs_data'[p] = abs_data[p]
    BY <1>3, <1>4, <1>5, Mapped, MappedPrime
  <1>13. UNCHANGED <<abs_state, abs_threads>>
    BY <1>9, <1>11, Mapped, MappedPrime
  <1>14. \/ t # "DATA" /\ UNCHANGED abs_data
         \/ t = "DATA" /\ \E f \in InsecurePage :
                            abs_data' = [abs_data EXCEPT ![page] = insecure_pages[f]]
    <2>1. CASE t # "DATA"
      <3>1. abs_data'[page] = abs_data[page]
        BY <1>6, <2>1, Mapped, MappedPrime
      <3> QED
        BY <1>12, <2>1, <3>1, Mapped, MappedPrime
    <2>2. CASE t = "DATA"
      <3>1. PICK f \in InsecurePage : secure_pages'[page] = Data(insecure_pages[f])
        BY <2>2 DEF Adds, Blank
      <3>2. abs_data'[page] = insecure_pages[f]
        BY <1>6, <2>2, <3>1, Mapped, MappedPrime DEF Data
      <3>3. abs_data' = [abs_data EXCEPT ![page] = insecure_pages[f]]
        BY <1>12, <3>2, Mapped, MappedPrime
      <3> QED
        BY Zenon, <2>2, <3>3
    <2> QED
      BY <2>1, <2>2
  <1> QED
    BY Zenon, <1>1, <1>2, <1>8, <1>13, <1>14, HostOnlyMapped DEF Promise!add_page

LEMMA MovesRefines ==
  ASSUME Inv, Inv', HostOnly, NEW asp \in Page, NEW s, Moves(asp, s), a0' = "SUCCESS"
  PROVE  Promise!finalise \/ Promise!stop
  <1>1. UNCHANGED <<type, addrspace_page>>
    BY DEF Moves, db
  <1>2. type[asp] = "ADDRSPACE" /\ secure_pages[asp].state \in {"INIT", "FINAL", "STOPPED"}
    BY DEF Moves, Inv, Ownership, is_addrspace, page_is_typed, page_is_valid,
           AddrspaceContent, AddrspaceState
  <1>3. \A p \in Page :
          /\ abs_owner'[p] = abs_owner[p]
          /\ abs_state'[p] = IF p = asp THEN s ELSE abs_state[p]
          /\ abs_data'[p] = abs_data[p]
          /\ abs_threads'[p] = abs_threads[p]
    BY <1>1, <1>2, Mapped, MappedPrime DEF Moves
  <1>4. abs_state' = [abs_state EXCEPT ![asp] = s]
    BY <1>3, Mapped, MappedPrime
  <1>5. UNCHANGED <<abs_owner, abs_data, abs_threads>>
    BY <1>3, Mapped, MappedPrime
  <1>6. asp \in Page \ Promise!In("NONE") /\
        (secure_pages[asp].state = "INIT" => asp \in Promise!In("INIT"))
    BY <1>2, Mapped DEF Promise!In
  <1>7. s = "STOPPED" \/ (s = "FINAL" /\ secure_pages[asp].state = "INIT")
    BY DEF Moves
  <1> QED
    BY Zenon, <1>1, <1>4, <1>5, <1>6, <1>7, HostOnlyMapped DEF Promise!finalise, Promise!stop

LEMMA RemovesRefines ==
  ASSUME Inv, Inv', HostOnly, NEW page \in Page, NEW asp \in Page, Removes(page, asp), a0' = "SUCCESS"
  PROVE  Promise!remove
  <1>1. page \in Page \ Promise!Free
    BY DEF Removes, Promise!Free
  <1>2. type' = [type EXCEPT ![page] = "FREE"]
    BY DEF Removes, Inv, TypeOK
  <1>3. abs_state[abs_owner[page]] = "STOPPED"
    BY Mapped DEF Removes
  <1>4. type[page] = "ADDRSPACE" => {q \in Page : abs_owner[q] = page} = {page}
    <2>1. SUFFICES ASSUME type[page] = "ADDRSPACE"
                   PROVE  {q \in Page : abs_owner[q] = page} = {page}
      OBVIOUS
    <2>2. page = asp
      BY <2>1 DEF Removes, Inv, Ownership, is_addrspace, page_is_typed, page_is_valid
    <2>3. {q \in Page : abs_owner[q] = page} = owned(page)
      BY Mapped, PageAssumption DEF owned
    <2> QED
      BY <2>2, <2>3 DEF Removes
  <1>5. \A p \in Page :
          /\ abs_owner'[p] = IF p = page THEN NoPage ELSE abs_owner[p]
          /\ abs_state'[p] = IF p = page THEN "NONE" ELSE abs_state[p]
          /\ abs_data'[p] = IF p = page THEN Public ELSE abs_data[p]
          /\ abs_threads'[p] = IF p = page THEN Promise!NoThread ELSE abs_threads[p]
    BY Mapped, MappedPrime DEF Removes
  <1>6. /\ abs_owner' = [abs_owner EXCEPT ![page] = NoPage]
        /\ abs_state' = [abs_state EXCEPT ![page] = "NONE"]
        /\ abs_data' = [abs_data EXCEPT ![page] = Public]
        /\ abs_threads' = [abs_threads EXCEPT ![page] = Promise!NoThread]
    BY <1>5, Mapped, MappedPrime
  <1> QED
    BY Zenon, <1>1, <1>2, <1>3, <1>4, <1>6, HostOnlyMapped DEF Promise!remove

(* Sharing an insecure page with an enclave is not seen.                   *)
LEMMA SharesRefines ==
  ASSUME Inv, Inv', HostOnly, NEW l3pt \in Page, NEW i, Shares(l3pt, i), a0' = "SUCCESS"
  PROVE  Promise!no_effect
  <1>1. UNCHANGED <<type, addrspace_page>>
    BY DEF Shares, db
  <1>2. \A p \in Page :
          /\ abs_owner'[p] = abs_owner[p] /\ abs_state'[p] = abs_state[p]
          /\ abs_data'[p] = abs_data[p] /\ abs_threads'[p] = abs_threads[p]
    BY <1>1, Mapped, MappedPrime DEF Shares
  <1>3. UNCHANGED <<abs_owner, abs_state, abs_data, abs_threads>>
    BY <1>2, Mapped, MappedPrime
  <1>4. Promise!In("INIT") # {}
    BY Mapped, OwnerInUse DEF Shares, addrspace_state, Promise!In
  <1> QED
    BY <1>1, <1>3, <1>4, HostOnlyMapped DEF Promise!no_effect

LEMMA SameMemory ==
  ASSUME UNCHANGED <<db, secure_pages>>
  PROVE  UNCHANGED <<type, abs_owner, abs_state, abs_data, abs_threads>>
  BY DEF db, abs_owner, abs_state, abs_data, abs_threads, abs_thread, abs_regs

LEMMA HostCallsRefine ==
  ASSUME Inv, Inv', HostCalls
  PROVE  [Promise!Next]_(Promise!vars)
  <1> USE DEF Promise!Next
  <1>1. HostOnly
    BY DEF HostCalls, HostOnly
  <1>2. CASE UNCHANGED <<db, secure_pages>> /\ a0' # "SUCCESS"
    <2>1. Promise!refuse
      BY <1>1, <1>2, SameMemory, HostOnlyMapped DEF Promise!refuse
    <2> QED
      BY <2>1
  <1>3. CASE /\ UNCHANGED <<db, secure_pages>> /\ a0' = "SUCCESS"
             /\ \E p \in Page : type[p] = "FREE"
    <2>1. Promise!Free # {}
      BY <1>3 DEF Promise!Free
    <2>2. Promise!no_effect
      BY <1>1, <1>3, <2>1, SameMemory, HostOnlyMapped DEF Promise!no_effect
    <2> QED
      BY <2>2
  <1>4. CASE a0' = "SUCCESS" /\ \E asp, l1pt \in Page : Builds(asp, l1pt)
    BY <1>1, <1>4, BuildsRefines
  <1>5. CASE /\ a0' = "SUCCESS"
             /\ \E page, asp, tbl \in Page : \E i, t : Adds(page, asp, t, tbl, i)
    BY <1>1, <1>5, AddsRefines
  <1>6. CASE a0' = "SUCCESS" /\ \E l3pt \in Page, i \in Index : Shares(l3pt, i)
    BY <1>1, <1>6, SharesRefines
  <1>7. CASE a0' = "SUCCESS" /\ \E asp \in Page : \E s : Moves(asp, s)
    BY <1>1, <1>7, MovesRefines
  <1>8. CASE a0' = "SUCCESS" /\ \E page, asp \in Page : Removes(page, asp)
    BY <1>1, <1>8, RemovesRefines
  <1> QED
    BY Zenon, <1>2, <1>3, <1>4, <1>5, <1>6, <1>7, <1>8 DEF HostCalls

LEMMA EntersRefines ==
  ASSUME Inv, Inv', NEW disp \in Page, Enters(disp)
  PROVE  Promise!enter \/ Promise!resume
  <1>1. /\ UNCHANGED <<type, addrspace_page, insecure_pages, a0>>
        /\ \A q \in Page \ {disp} : secure_pages'[q] = secure_pages[q]
        /\ type[disp] = "DISPATCHER" /\ ~enclave_mode
        /\ secure_pages[disp] \in DispatcherContent
    BY DEF Enters, db, Inv, Ownership, is_dispatcher, page_is_typed, page_is_valid
  <1>2. \A p \in Page :
          /\ abs_owner'[p] = abs_owner[p] /\ abs_state'[p] = abs_state[p]
          /\ abs_data'[p] = abs_data[p]
          /\ p # disp => abs_threads'[p] = abs_threads[p]
    BY <1>1, Mapped, MappedPrime
  <1>3. UNCHANGED <<abs_owner, abs_state, abs_data>>
    BY <1>2, Mapped, MappedPrime
  <1>4. abs_running' = disp /\ Promise!Host
    BY HostMapped DEF Enters, abs_running
  <1>5. abs_state[abs_owner[disp]] = "FINAL"
    BY <1>1, Mapped, OwnerInUse DEF Enters, addrspace_state
  <1>6. /\ abs_regs(host_state'.saved) = abs_regs(ctx)
        /\ abs_regs(ctx') = abs_regs(secure_pages'[disp].saved)
    BY DEF Enters
  <1>7. /\ abs_threads[disp] = abs_thread(secure_pages[disp])
        /\ abs_threads'[disp] = abs_thread(secure_pages'[disp])
        /\ abs_thread(secure_pages[disp]).entered = secure_pages[disp].entered
        /\ abs_thread(secure_pages[disp]).regs = abs_regs(secure_pages[disp].saved)
    BY <1>1, Mapped, MappedPrime DEF abs_thread
  <1>8. ASSUME NEW r, abs_regs(ctx') = r
        PROVE  Promise!enter_secure_world(disp, r)
    BY Zenon, <1>1, <1>3, <1>4, <1>5, <1>6, <1>8 DEF Promise!enter_secure_world
  <1>9. CASE secure_pages[disp].entered /\ secure_pages'[disp] = secure_pages[disp]
    <2>1. UNCHANGED abs_threads
      BY <1>2, <1>7, <1>9, Mapped, MappedPrime
    <2>2. Promise!enter_secure_world(disp, abs_threads[disp].regs)
      BY Zenon, <1>6, <1>7, <1>8, <1>9
    <2> QED
      BY Zenon, <1>7, <1>9, <2>1, <2>2 DEF Promise!resume
  <1>10. CASE /\ ~secure_pages[disp].entered
              /\ \E arg \in {ctx.args, ctx.regs} :
                   secure_pages'[disp] = [secure_pages[disp] EXCEPT !.saved.args = arg]
    <2>1. PICK arg \in {ctx.args, ctx.regs} :
            secure_pages'[disp] = [secure_pages[disp] EXCEPT !.saved.args = arg]
      BY Zenon, <1>10
    <2> DEFINE r == [abs_threads[disp].regs EXCEPT !.args = arg]
    <2>2. arg \in Val
      BY DEF Inv, TypeOK, Context
    <2>3. /\ abs_threads'[disp] = [abs_threads[disp] EXCEPT !.regs = r]
          /\ abs_regs(ctx') = r
      <3>1. r = [abs_thread(secure_pages[disp]).regs EXCEPT !.args = arg]
        BY Zenon, <1>7
      <3> HIDE DEF r
      <3>2. /\ abs_thread(secure_pages'[disp])
                 = [abs_thread(secure_pages[disp]) EXCEPT !.regs = r]
            /\ abs_regs(secure_pages'[disp].saved) = r
        BY <1>1, <2>1, <2>2, <3>1
           DEF DispatcherContent, Context, abs_thread, abs_regs
      <3> QED
        BY Zenon, <1>6, <1>7, <3>2
    <2>4. arg \in {abs_regs(ctx).args, abs_regs(ctx).gprs}
      BY DEF abs_regs
    <2>5. abs_threads' = [abs_threads EXCEPT ![disp].regs = r]
      <3> HIDE DEF r
      <3> QED
        BY <1>2, <2>3, Mapped, MappedPrime
    <2>6. Promise!enter_secure_world(disp, r)
      BY Zenon, <1>8, <2>3
    <2> QED
      BY Zenon, <1>7, <1>10, <2>4, <2>5, <2>6 DEF Promise!enter
  <1> QED
    BY Zenon, <1>9, <1>10 DEF Enters

LEMMA LeavesRefines ==
  ASSUME Inv, Inv', NEW entered \in BOOLEAN, Leaves(entered)
  PROVE  Promise!leave_secure_world(entered)
  <1> DEFINE disp == g_cur_dispatcher_pageno
  <1>1. /\ ~Promise!Host /\ abs_running = disp /\ disp \in Page
        /\ type[disp] = "DISPATCHER"
    BY HostMapped DEF Leaves
  <1>2. abs_running' = NoPage
    BY DEF Leaves, abs_running
  <1>3. /\ UNCHANGED <<type, addrspace_page, insecure_pages, host_state>>
        /\ ctx' = host_state.saved
        /\ \A q \in Page \ {disp} : secure_pages'[q] = secure_pages[q]
        /\ abs_thread(secure_pages'[disp]) = [entered |-> entered, regs |-> abs_regs(ctx)]
    BY DEF Leaves, db, abs_thread
  <1> HIDE DEF disp
  <1>4. \A p \in Page :
          /\ abs_owner'[p] = abs_owner[p] /\ abs_state'[p] = abs_state[p]
          /\ abs_data'[p] = abs_data[p]
          /\ abs_threads'[p] = IF p = disp THEN [entered |-> entered, regs |-> abs_regs(ctx)]
                               ELSE abs_threads[p]
    BY <1>1, <1>3, Mapped, MappedPrime
  <1>5. UNCHANGED <<abs_owner, abs_state, abs_data>>
    BY <1>4, Mapped, MappedPrime
  <1>6. abs_threads' =
          [abs_threads EXCEPT ![abs_running] = [entered |-> entered, regs |-> abs_regs(ctx)]]
    BY <1>1, <1>4, Mapped, MappedPrime
  <1> QED
    BY Zenon, <1>1, <1>2, <1>3, <1>5, <1>6 DEF Promise!leave_secure_world

LEMMA RunsRefines ==
  ASSUME Inv, Inv', Runs, UNCHANGED a0
  PROVE  [Promise!Next]_(Promise!vars)
  <1> USE DEF Promise!Next
  <1>1. ASSUME UNCHANGED world
        PROVE  UNCHANGED <<abs_running, abs_regs(host_state.saved)>>
    BY <1>1 DEF world, abs_running
  <1>2. ASSUME UNCHANGED <<db, memory, world>>
        PROVE  UNCHANGED <<type, abs_owner, abs_state, abs_threads, abs_data, insecure_pages,
                           abs_running, abs_regs(host_state.saved)>>
    BY <1>1, <1>2, SameMemory DEF memory
  <1>3. \A p \in Page : own_data(p) =>
          ~Promise!Host /\ p \in Promise!own_data /\ type[p] = "DATA"
    BY HostMapped, Mapped DEF own_data, Promise!own_data, page_is_typed, page_is_valid
  <1>10. ASSUME NEW v, Learns(v)
         PROVE  abs_regs(ctx') \in {abs_regs(ctx), Promise!All(v)}
    BY <1>10 DEF Learns, SameRegs, AllRegs, abs_regs, Promise!All
  <1>11. abs_regs(ctx).gprs = ctx.regs
    BY DEF abs_regs
  <1>4. CASE UNCHANGED <<db, memory, world>> /\ SameRegs
    <2>1. UNCHANGED abs_regs(ctx)
      BY <1>4 DEF SameRegs, abs_regs
    <2> QED
      BY <1>2, <1>4, <2>1 DEF Promise!vars
  <1>5. CASE \E f \in InsecurePage : Learns(insecure_pages[f])
    <2>1. Promise!insecure_read
      BY <1>2, <1>5, <1>10 DEF Learns, Promise!insecure_read, Promise!learn
    <2> QED
      BY <2>1
  <1>6. CASE \E p \in Page : own_data(p) /\ Learns(secure_pages[p].val)
    <2>1. PICK p \in Page : own_data(p) /\ Learns(secure_pages[p].val)
      BY <1>6
    <2>2. secure_pages[p].val = abs_data[p]
      BY <1>3, <2>1, Mapped
    <2>3. Promise!enclave_read
      BY <1>2, <1>3, <1>10, <2>1, <2>2 DEF Learns, Promise!enclave_read, Promise!learn
    <2> QED
      BY <2>3
  <1>7. CASE enclave_mode /\ UNCHANGED <<db, memory, world>> /\ AllRegs(cur_addrspace)
    <2>0. abs_regs(ctx') = Promise!All(cur_addrspace)
      BY <1>7 DEF AllRegs, abs_regs, Promise!All
    <2>1. Promise!compute
      BY <1>2, <1>7, <2>0, HostMapped DEF Promise!compute
    <2> QED
      BY <2>1
  <1>8. CASE /\ UNCHANGED <<db, secure_pages, world, ctx>>
             /\ \E f \in InsecurePage :
                  insecure_pages' = [insecure_pages EXCEPT
                                       ![f] = IF enclave_mode THEN Public ELSE ctx.regs]
    <2>1. \E f \in InsecurePage :
            insecure_pages' = [insecure_pages EXCEPT
                                 ![f] = IF Promise!Host THEN abs_regs(ctx).gprs ELSE Public]
      BY Zenon, <1>8, <1>11, HostMapped
    <2>2. Promise!insecure_write
      BY Zenon, <1>1, <1>8, <2>1, SameMemory DEF Promise!insecure_write
    <2> QED
      BY <2>2
  <1>9. CASE /\ UNCHANGED <<db, insecure_pages, world, ctx>>
             /\ \E p \in Page :
                  /\ own_data(p)
                  /\ secure_pages' = [secure_pages EXCEPT ![p] = Data(ctx.regs)]
    <2>1. PICK p \in Page :
            /\ own_data(p)
            /\ secure_pages' = [secure_pages EXCEPT ![p] = Data(ctx.regs)]
      BY Zenon, <1>9
    <2>2. /\ UNCHANGED <<type, addrspace_page>>
          /\ \A q \in Page \ {p} : secure_pages'[q] = secure_pages[q]
          /\ secure_pages'[p].val = ctx.regs
      BY <1>9, <2>1 DEF db, Data, Inv, TypeOK
    <2>3. \A q \in Page :
            /\ abs_owner'[q] = abs_owner[q] /\ abs_state'[q] = abs_state[q]
            /\ abs_threads'[q] = abs_threads[q]
            /\ abs_data'[q] = IF q = p THEN ctx.regs ELSE abs_data[q]
      BY <1>3, <2>1, <2>2, Mapped, MappedPrime
    <2>4. UNCHANGED <<abs_owner, abs_state, abs_threads>>
      BY <2>3, Mapped, MappedPrime
    <2>5. abs_data' = [abs_data EXCEPT ![p] = ctx.regs]
      BY <2>3, Mapped, MappedPrime
    <2>6. Promise!enclave_write
      BY Zenon, <1>1, <1>3, <1>9, <1>11, <2>1, <2>2, <2>4, <2>5 DEF Promise!enclave_write
    <2> QED
      BY <2>6
  <1> QED
    BY <1>4, <1>5, <1>6, <1>7, <1>8, <1>9 DEF Runs

-----------------------------------------------------------------------------
(* The handlers of komodo/monitor.c and traps.c, the world switches, the   *)
(* page tables and the PMP implement verif/spec.rkt: whatever host and     *)
(* enclaves do, there is no effect that the specification does not allow.  *)
THEOREM ImplementsSpec == Spec => Refinement
  <1>1. Init => Promise!Init
    BY DEF Init, Promise!Init, Promise!NoThread, Promise!All, abs_owner, abs_state,
           abs_threads, abs_data, abs_running, abs_regs, filled
  <1>2. Inv /\ Inv' /\ [Next]_vars => [Promise!Next]_(Promise!vars)
    <2> SUFFICES ASSUME Inv, Inv', Step
                 PROVE  [Promise!Next]_(Promise!vars)
      BY NextStep
    <2>1. CASE HostCalls
      BY <2>1, HostCallsRefine
    <2>2. CASE \E disp \in Page : Enters(disp)
      BY <2>2, EntersRefines DEF Promise!Next
    <2>3. CASE Leaves(FALSE) /\ a0' = "SUCCESS"
      BY Zenon, <2>3, LeavesRefines DEF Promise!Next, Promise!exit
    <2>4. CASE Leaves(TRUE) /\ a0' \in {"INTERRUPTED", "FAULT"}
      BY Zenon, <2>4, LeavesRefines DEF Promise!Next, Promise!handle_trap
    <2>5. CASE Runs /\ UNCHANGED a0
      BY <2>5, RunsRefines
    <2> QED
      BY <2>1, <2>2, <2>3, <2>4, <2>5 DEF Step
  <1> QED
    BY <1>1, <1>2, InductiveInvariant, PTL DEF Spec, Promise!Spec, Refinement

=============================================================================
