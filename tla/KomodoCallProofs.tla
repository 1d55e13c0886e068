-------------------------- MODULE KomodoCallProofs --------------------------
(***************************************************************************)
(* Proofs about the Komodo monitor, first part: the inductive invariant,   *)
(* and the calls that change the page database.                            *)
(***************************************************************************)
EXTENDS Komodo, TLAPS, FiniteSetTheorems

(* The steps below carry long contexts: Zenon, which needs no translation  *)
(* of them, goes first, and the provers get more time.                     *)
USE ZenonT(1), SMTT(30), ZenonT(20)

(* What a secure page holds.                                               *)
Content == AddrspaceContent \cup DispatcherContent \cup TableContent \cup DataContent

(* Changing the reference count or the state of an address space leaves    *)
(* the rest of its page alone.                                             *)
LEMMA SetRefcount ==
  ASSUME NEW a \in AddrspaceContent, NEW n \in Nat
  PROVE  /\ [a EXCEPT !.refcount = n] \in AddrspaceContent
         /\ [a EXCEPT !.refcount = n].refcount = n
         /\ [a EXCEPT !.refcount = n].state = a.state
         /\ [a EXCEPT !.refcount = n].l1pt_page = a.l1pt_page
  BY DEF AddrspaceContent

LEMMA SetState ==
  ASSUME NEW a \in AddrspaceContent, NEW s \in AddrspaceState
  PROVE  /\ [a EXCEPT !.state = s] \in AddrspaceContent
         /\ [a EXCEPT !.state = s].refcount = a.refcount
         /\ [a EXCEPT !.state = s].state = s
         /\ [a EXCEPT !.state = s].l1pt_page = a.l1pt_page
  BY DEF AddrspaceContent

(* Writing an entry of a table leaves the other entries alone.             *)
LEMMA TableUpdate ==
  ASSUME NEW t \in TableContent, NEW i \in Index, NEW e \in Entry
  PROVE  /\ [t EXCEPT !.entry[i] = e] \in TableContent
         /\ \A j \in Index :
              [t EXCEPT !.entry[i] = e].entry[j] = IF j = i THEN e ELSE t.entry[j]
  BY DEF TableContent

LEMMA Filled ==
  ASSUME NEW v \in Val, NEW root \in Root
  PROVE  /\ filled(v, root) \in Context
         /\ filled(v, root).args = v /\ filled(v, root).regs = v
         /\ filled(v, root).csrs = v /\ filled(v, root).satp = root
  BY DEF filled, Context

LEMMA Contents ==
  /\ ZeroTable \in TableContent
  /\ NoEntry \in Entry
  /\ \A i \in Index : ZeroTable.entry[i] = NoEntry
  /\ \A v \in Val : Data(v) \in DataContent /\ Data(v).val = v
  BY PageAssumption DEF ZeroTable, TableContent, NoEntry, Entry, Data, DataContent

(* The structures are told apart by their kind.                            *)
LEMMA Kinds ==
  /\ \A c \in AddrspaceContent : c.kind = "addrspace"
  /\ \A c \in DispatcherContent : c.kind = "dispatcher"
  /\ \A c \in TableContent : c.kind = "table"
  /\ \A c \in DataContent : c.kind = "data"
  BY DEF AddrspaceContent, DispatcherContent, TableContent, DataContent

-----------------------------------------------------------------------------
(***************************************************************************)
(* The inductive invariant.  None of its parts is inductive alone: which   *)
(* pages an enclave's stores reach depends on the page tables and on the   *)
(* world that runs; whether a store keeps the promises of the page         *)
(* database depends on which pages it reaches; and an address space can be *)
(* removed without leaving pages that name it as their owner only because  *)
(* its reference count is right.                                           *)
(***************************************************************************)
Inv == TypeOK /\ Ownership /\ Refcount /\ PageTables /\ WorldSwitch

LEMMA OwnedFinite ==
  ASSUME NEW asp
  PROVE  IsFiniteSet(owned(asp)) /\ Cardinality(owned(asp)) \in Nat
  <1>1. owned(asp) \in SUBSET Page
    BY DEF owned
  <1> QED
    BY <1>1, FS_Subset, FS_CardinalityType, PageAssumption

(* Every call answers with an error code of the interface.                 *)
LEMMA ErrorTypes ==
  ASSUME NEW x, NEW y, NEW z, NEW w, NEW u
  PROVE  /\ init_addrspace_err(x, y) \in Error
         /\ init_dispatcher_err(x, y) \in Error
         /\ init_ptable_err(x, y, z, w) \in Error
         /\ map_secure_err(x, y, z, w) \in Error
         /\ map_insecure_err(x, y, z) \in Error
         /\ remove_err(x) \in Error
         /\ finalise_err(x) \in Error
         /\ stop_err(x) \in Error
         /\ enter_err(x) \in Error
         /\ resume_err(x) \in Error
  BY DEF Error, init_addrspace_err, init_dispatcher_err, init_ptable_err,
         map_secure_err, map_insecure_err, remove_err, finalise_err, stop_err,
         enter_err, resume_err, allocate_page_err

(* A call of the host leaves the world it runs in as it is.                *)
LEMMA SmcKeepsWorld ==
  ASSUME NEW err, smc_return(err), WorldSwitch
  PROVE  WorldSwitch'
  BY DEF smc_return, WorldSwitch, world, cpu

LEMMA SmcTypes ==
  ASSUME TypeOK, NEW err \in Error \cup {"MAGIC", "NPAGES"}, smc_return(err),
         type' \in [Page -> PageType],
         addrspace_page' \in [Page -> Page \cup {NoPage}],
         secure_pages' \in [Page -> Content]
  PROVE  TypeOK'
  BY DEF smc_return, TypeOK, world, cpu, Content, Pc

(* A call that changes neither page database nor secure pages.             *)
LEMMA SmcNoEffect ==
  ASSUME Inv, NEW err \in Error \cup {"MAGIC", "NPAGES"}, smc_return(err),
         UNCHANGED <<db, secure_pages>>
  PROVE  Inv'
  <1>1. WorldSwitch'
    BY SmcKeepsWorld DEF Inv
  <1>2. TypeOK'
    BY SmcTypes DEF Inv, TypeOK, db, Content
  <1>3. Ownership'
    BY DEF Inv, Ownership, db, is_addrspace, is_dispatcher, is_ptable,
           page_is_typed, page_is_valid, addrspace_state
  <1>4. PageTables'
    <2>1. /\ type' = type /\ addrspace_page' = addrspace_page
          /\ secure_pages' = secure_pages
      BY DEF db
    <2>2. \A p \in Page : is_ptable(p)' <=> is_ptable(p)
      BY <2>1 DEF is_ptable, page_is_valid
    <2>3. \A p \in Page : live(p)' <=> live(p)
      BY <2>1 DEF live, addrspace_state
    <2>4. \A p \in Page : \A i \in Index :
            well_linked(p, secure_pages[p].entry[i]) => well_linked(p, secure_pages[p].entry[i])'
      <3>1. ASSUME NEW p, NEW e, NEW t, links_to(p, e, t)
            PROVE  /\ page_is_typed(e.frame, t)'
                   /\ addrspace_page'[e.frame] = addrspace_page'[p]
        BY <2>1, <3>1 DEF links_to, page_is_typed, page_is_valid
      <3>2. ASSUME NEW p \in Page, NEW i \in Index, well_linked(p, secure_pages[p].entry[i])
            PROVE  well_linked(p, secure_pages[p].entry[i])'
        <4>1. secure_pages'[p].entry[i] = secure_pages[p].entry[i]
          BY <2>1
        <4> QED
          BY Zenon, <2>1, <3>1, <3>2, <4>1 DEF well_linked, links_to, insecure_page_is_valid
      <3> QED
        BY <3>2
    <2> QED
      BY <2>2, <2>3, <2>4 DEF Inv, PageTables
  <1>5. Refcount'
    BY DEF Inv, Refcount, db, owned, is_addrspace, page_is_typed, page_is_valid
  <1> QED
    BY <1>1, <1>2, <1>3, <1>4, <1>5 DEF Inv

-----------------------------------------------------------------------------
(***************************************************************************)
(* An address space grows: a free page joins it, and a table of it may be  *)
(* linked to that page.                                                    *)
(***************************************************************************)
Fits(c, t, asp) ==
  \/ /\ t = "DISPATCHER" /\ c \in DispatcherContent
     /\ c.saved.satp = secure_pages[asp].l1pt_page
  \/ /\ t \in {"L2PTABLE", "L3PTABLE"} /\ c \in TableContent
     /\ \A i \in Index : c.entry[i] = NoEntry
  \/ t = "DATA" /\ c \in DataContent

Grow(page, asp, t) ==
  /\ page_is_free(page)
  /\ is_addrspace(asp) /\ addrspace_state(asp) = "INIT"
  /\ type' = [type EXCEPT ![page] = t]
  /\ addrspace_page' = [addrspace_page EXCEPT ![page] = asp]
  /\ secure_pages' \in [Page -> Content]
  /\ Fits(secure_pages'[page], t, asp)
  /\ secure_pages'[asp].refcount = secure_pages[asp].refcount + 1
  /\ \A q \in Page : is_addrspace(q) /\ q # asp =>
       secure_pages'[q].refcount = secure_pages[q].refcount
  /\ \A q \in Page : is_addrspace(q) =>
       /\ secure_pages'[q] \in AddrspaceContent
       /\ secure_pages'[q].state = secure_pages[q].state
       /\ secure_pages'[q].l1pt_page = secure_pages[q].l1pt_page
  /\ \A q \in Page : type[q] \in {"DISPATCHER", "DATA"} =>
       secure_pages'[q] = secure_pages[q]
  /\ \A q \in Page : is_ptable(q) =>
       /\ secure_pages'[q] \in TableContent
       /\ \A i \in Index :
            \/ secure_pages'[q].entry[i] = secure_pages[q].entry[i]
            \/ well_linked(q, secure_pages[q].entry[i])'

LEMMA GrowOwnership ==
  ASSUME TypeOK, Ownership, NEW page, NEW asp, NEW t, Grow(page, asp, t)
  PROVE  Ownership'
  <1> USE DEF is_addrspace, is_dispatcher, is_ptable, page_is_typed, page_is_valid,
              page_is_free, addrspace_state
  <1>1. /\ page \in Page /\ asp \in Page /\ page # asp
        /\ type[page] = "FREE" /\ type[asp] = "ADDRSPACE"
        /\ t \in {"DISPATCHER", "L2PTABLE", "L3PTABLE", "DATA"}
        /\ \A q \in Page : type'[q] = IF q = page THEN t ELSE type[q]
        /\ \A q \in Page :
             addrspace_page'[q] = IF q = page THEN asp ELSE addrspace_page[q]
    BY DEF Grow, Fits, TypeOK
  <1>2. \A p \in Page : type'[p] # "FREE" => is_addrspace(addrspace_page[p])'
    BY <1>1 DEF Ownership
  <1>3. ASSUME NEW p \in Page, is_addrspace(p)'
        PROVE  /\ addrspace_page'[p] = p
               /\ secure_pages'[p] \in AddrspaceContent
               /\ addrspace_state(p)' # "STOPPED" =>
                    /\ page_is_typed(secure_pages[p].l1pt_page, "L1PTABLE")'
                    /\ addrspace_page'[secure_pages'[p].l1pt_page] = p
    BY <1>1, <1>3 DEF Ownership, Grow
  <1>4. ASSUME NEW p \in Page, is_dispatcher(p)'
        PROVE  /\ secure_pages'[p] \in DispatcherContent
               /\ secure_pages'[p].saved.satp
                    = secure_pages'[addrspace_page'[p]].l1pt_page
    BY <1>1, <1>4 DEF Ownership, Grow, Fits
  <1>5. \A p \in Page : is_ptable(p)' => secure_pages'[p] \in TableContent
    BY <1>1 DEF Ownership, Grow, Fits
  <1>6. \A p \in Page : page_is_typed(p, "DATA")' => secure_pages'[p] \in DataContent
    BY <1>1 DEF Ownership, Grow, Fits
  <1> QED
    BY <1>2, <1>3, <1>4, <1>5, <1>6 DEF Ownership

LEMMA GrowPageTables ==
  ASSUME TypeOK, Ownership, PageTables, NEW page, NEW asp, NEW t, Grow(page, asp, t)
  PROVE  PageTables'
  <1> USE DEF is_addrspace, is_dispatcher, is_ptable, page_is_typed, page_is_valid,
              page_is_free, addrspace_state
  <1>1. /\ page \in Page /\ asp \in Page /\ page # asp
        /\ type[page] = "FREE" /\ type[asp] = "ADDRSPACE"
        /\ t \in {"DISPATCHER", "L2PTABLE", "L3PTABLE", "DATA"}
        /\ \A q \in Page : type'[q] = IF q = page THEN t ELSE type[q]
        /\ \A q \in Page :
             addrspace_page'[q] = IF q = page THEN asp ELSE addrspace_page[q]
    BY DEF Grow, Fits, TypeOK
  <1>2. SUFFICES ASSUME NEW p \in Page, is_ptable(p)', live(p)', NEW i \in Index
                 PROVE  well_linked(p, secure_pages[p].entry[i])'
    BY DEF PageTables
  <1>3. CASE p = page
    BY <1>1, <1>2, <1>3 DEF Grow, Fits, well_linked, TableContent
  <1>4. CASE p # page
    <2>1. is_ptable(p) /\ live(p)
      BY <1>1, <1>2, <1>4 DEF Ownership, Grow, live
    <2>2. well_linked(p, secure_pages[p].entry[i])
      BY <2>1 DEF PageTables
    <2>3. CASE secure_pages'[p].entry[i] = secure_pages[p].entry[i]
      BY Zenon, <1>1, <1>4, <2>1, <2>2, <2>3 DEF well_linked, links_to, insecure_page_is_valid
    <2> QED
      BY <2>1, <2>3 DEF Grow
  <1> QED
    BY <1>3, <1>4

LEMMA GrowRefcount ==
  ASSUME TypeOK, Ownership, Refcount, NEW page, NEW asp, NEW t, Grow(page, asp, t)
  PROVE  Refcount'
  <1> USE DEF is_addrspace, page_is_typed, page_is_valid, page_is_free
  <1>1. /\ page \in Page /\ asp \in Page /\ page # asp
        /\ type[page] = "FREE" /\ type[asp] = "ADDRSPACE"
        /\ t \in {"DISPATCHER", "L2PTABLE", "L3PTABLE", "DATA"}
        /\ \A q \in Page : type'[q] = IF q = page THEN t ELSE type[q]
        /\ \A q \in Page :
             addrspace_page'[q] = IF q = page THEN asp ELSE addrspace_page[q]
    BY DEF Grow, Fits, TypeOK
  <1>2. /\ page \notin owned(asp)
        /\ owned(asp)' = owned(asp) \cup {page}
        /\ \A q \in Page \ {asp} : owned(q)' = owned(q)
    BY <1>1 DEF owned
  <1>3. Cardinality(owned(asp)') = Cardinality(owned(asp)) + 1
    BY <1>2, OwnedFinite, FS_AddElement
  <1>4. SUFFICES ASSUME NEW q \in Page, is_addrspace(q)'
                 PROVE  secure_pages'[q].refcount = Cardinality(owned(q)')
    BY DEF Refcount
  <1>5. /\ type[q] = "ADDRSPACE" /\ secure_pages[q].refcount = Cardinality(owned(q))
    BY <1>1, <1>4 DEF Refcount
  <1>6. CASE q = asp
    BY <1>3, <1>5, <1>6 DEF Grow
  <1>7. CASE q # asp
    BY <1>2, <1>5, <1>7 DEF Grow
  <1> QED
    BY <1>6, <1>7

(* allocate_page, and allocate_page followed by the store into the table   *)
(* that links the page, are such steps.                                    *)
LEMMA AllocateGrows ==
  ASSUME TypeOK, Ownership, NEW page, NEW asp, NEW t, NEW zero,
         page_is_free(page), is_addrspace(asp), addrspace_state(asp) = "INIT",
         Fits(zero, t, asp), allocate_page(page, asp, t, zero)
  PROVE  Grow(page, asp, t)
  <1> USE DEF is_addrspace, is_dispatcher, is_ptable, page_is_typed, page_is_valid,
              page_is_free
  <1> DEFINE counted == [secure_pages[asp] EXCEPT !.refcount = @ + 1]
  <1>1. page \in Page /\ asp \in Page /\ page # asp
    OBVIOUS
  <1>2. /\ secure_pages[asp] \in AddrspaceContent
        /\ secure_pages[asp].refcount + 1 \in Nat
    BY DEF Ownership, AddrspaceContent
  <1>3. /\ counted \in AddrspaceContent
        /\ counted.refcount = secure_pages[asp].refcount + 1
        /\ counted.state = secure_pages[asp].state
        /\ counted.l1pt_page = secure_pages[asp].l1pt_page
    BY <1>2, SetRefcount
  <1>4. /\ DOMAIN secure_pages' = Page
        /\ \A q \in Page :
             secure_pages'[q] = IF q = page THEN zero
                                ELSE IF q = asp THEN counted ELSE secure_pages[q]
    BY <1>1 DEF allocate_page, TypeOK
  <1> HIDE DEF counted
  <1>5. zero \in Content
    BY DEF Fits, Content
  <1>6. secure_pages' \in [Page -> Content]
    BY <1>3, <1>4, <1>5 DEF TypeOK, Content, allocate_page
  <1> QED
    BY <1>1, <1>3, <1>4, <1>6 DEF Grow, allocate_page, Ownership

LEMMA AllocateAndLinkGrows ==
  ASSUME TypeOK, Ownership, NEW page, NEW tbl, NEW t, NEW zero,
         NEW i \in Index, NEW prot \in SUBSET {"R", "W", "X"},
         is_ptable(tbl), page_is_free(page),
         addrspace_state(addrspace_page[tbl]) = "INIT",
         Fits(zero, t, addrspace_page[tbl]), t # "DISPATCHER",
         \/ type[tbl] = "L1PTABLE" /\ t = "L2PTABLE" /\ prot = {}
         \/ type[tbl] = "L2PTABLE" /\ t = "L3PTABLE" /\ prot = {}
         \/ type[tbl] = "L3PTABLE" /\ t = "DATA",
         allocate_and_link(page, addrspace_page[tbl], t, zero, tbl, i, prot)
  PROVE  Grow(page, addrspace_page[tbl], t)
  <1> USE DEF is_addrspace, is_dispatcher, is_ptable, page_is_typed, page_is_valid,
              page_is_free
  <1> DEFINE asp == addrspace_page[tbl]
             e == [frame |-> page, prot |-> prot]
             counted == [secure_pages[asp] EXCEPT !.refcount = @ + 1]
             linked == [secure_pages[tbl] EXCEPT !.entry[i] = e]
  <1>1. /\ page \in Page /\ asp \in Page /\ tbl \in Page
        /\ page # asp /\ page # tbl /\ tbl # asp
        /\ is_addrspace(asp)
    BY DEF Ownership
  <1>2. /\ secure_pages[asp] \in AddrspaceContent
        /\ secure_pages[asp].refcount + 1 \in Nat
    BY SMTT(30), <1>1 DEF Ownership, AddrspaceContent
  <1>3. /\ counted \in AddrspaceContent
        /\ counted.refcount = secure_pages[asp].refcount + 1
        /\ counted.state = secure_pages[asp].state
        /\ counted.l1pt_page = secure_pages[asp].l1pt_page
    BY <1>2, SetRefcount
  <1>4. e \in Entry /\ e # NoEntry /\ e.frame = page /\ e.prot = prot
    BY <1>1, PageAssumption DEF Entry, Frame, NoEntry
  <1>5. /\ linked \in TableContent
        /\ \A j \in Index :
             linked.entry[j] = IF j = i THEN e ELSE secure_pages[tbl].entry[j]
    BY <1>1, <1>4, TableUpdate DEF Ownership
  <1>6. /\ DOMAIN secure_pages' = Page
        /\ \A q \in Page :
             secure_pages'[q] = IF q = page THEN zero
                                ELSE IF q = asp THEN counted
                                ELSE IF q = tbl THEN linked ELSE secure_pages[q]
    BY <1>1 DEF allocate_and_link, TypeOK
  <1>7. /\ type' = [type EXCEPT ![page] = t]
        /\ addrspace_page' = [addrspace_page EXCEPT ![page] = asp]
    BY DEF allocate_and_link
  <1> HIDE DEF counted, linked
  <1>8. zero \in Content
    BY DEF Fits, Content
  <1>9. secure_pages' \in [Page -> Content]
    <2>1. \A q \in Page : secure_pages[q] \in Content
      BY DEF TypeOK, Content
    <2>2. counted \in Content /\ linked \in Content
      BY <1>3, <1>5 DEF Content
    <2>3. \A q \in Page : secure_pages'[q] \in Content
      BY <1>6, <1>8, <2>1, <2>2
    <2> QED
      BY SMTT(60), <2>3 DEF allocate_and_link, TypeOK
  <1>10. well_linked(tbl, secure_pages[tbl].entry[i])'
    <2>1. secure_pages'[tbl].entry[i] = e
      BY <1>1, <1>5, <1>6
    <2>2. /\ type'[tbl] = type[tbl] /\ type'[page] = t
          /\ addrspace_page'[tbl] = asp /\ addrspace_page'[page] = asp
      BY <1>1, <1>7 DEF TypeOK
    <2> HIDE DEF e
    <2> QED
      BY <1>1, <1>4, <2>1, <2>2 DEF well_linked, links_to
  <1>11. ASSUME NEW q \in Page, is_ptable(q)
         PROVE  /\ secure_pages'[q] \in TableContent
                /\ \A j \in Index :
                     \/ secure_pages'[q].entry[j] = secure_pages[q].entry[j]
                     \/ well_linked(q, secure_pages[q].entry[j])'
    BY SMTT(30), <1>1, <1>5, <1>6, <1>10, <1>11 DEF Ownership
  <1> QED
    BY <1>1, <1>3, <1>6, <1>7, <1>9, <1>11 DEF Grow, Ownership

(* So the calls that allocate a page preserve the invariant.               *)
LEMMA GrowInv ==
  ASSUME Inv, NEW page, NEW asp, NEW t, Grow(page, asp, t),
         NEW err \in Error, smc_return(err)
  PROVE  Inv'
  <1>1. TypeOK'
    <2>1. /\ type' \in [Page -> PageType]
          /\ addrspace_page' \in [Page -> Page \cup {NoPage}]
          /\ secure_pages' \in [Page -> Content]
      BY Zenon DEF Inv, TypeOK, Grow, Fits, PageType, is_addrspace, page_is_typed,
             page_is_valid
    <2> QED
      BY <2>1, SmcTypes DEF Inv
  <1> QED
    BY <1>1, GrowOwnership, GrowRefcount, GrowPageTables, SmcKeepsWorld DEF Inv

LEMMA InitDispatcherInv ==
  ASSUME Inv, NEW page, NEW asp, kom_smc_init_dispatcher(page, asp)
  PROVE  Inv'
  <1> DEFINE err == init_dispatcher_err(page, asp)
             zero == [kind |-> "dispatcher", entered |-> FALSE, mepc |-> "entry",
                      saved |-> filled(Public, secure_pages[asp].l1pt_page)]
  <1>1. err \in Error /\ smc_return(err)
    BY ErrorTypes DEF kom_smc_init_dispatcher
  <1>2. CASE err # "SUCCESS"
    BY <1>1, <1>2, SmcNoEffect DEF kom_smc_init_dispatcher
  <1>3. CASE err = "SUCCESS"
    <2>1. /\ is_addrspace(asp) /\ page_is_free(page)
          /\ addrspace_state(asp) = "INIT"
      BY <1>3 DEF init_dispatcher_err, allocate_page_err, is_addrspace
    <2>2. secure_pages[asp].l1pt_page \in Page
      BY <2>1 DEF Inv, Ownership, AddrspaceContent, is_addrspace, page_is_typed,
                  page_is_valid
    <2>3. Fits(zero, "DISPATCHER", asp)
      BY <2>2 DEF Fits, DispatcherContent, Context, Val, Root, Pc, filled
    <2>4. allocate_page(page, asp, "DISPATCHER", zero)
      BY <1>3 DEF kom_smc_init_dispatcher
    <2> QED
      BY <1>1, <2>1, <2>3, <2>4, AllocateGrows, GrowInv DEF Inv
  <1> QED
    BY <1>2, <1>3

LEMMA InitPtableInv ==
  ASSUME Inv, NEW page, NEW tbl, NEW i, NEW upper, NEW lower,
         \/ upper = "L1PTABLE" /\ lower = "L2PTABLE"
         \/ upper = "L2PTABLE" /\ lower = "L3PTABLE",
         init_ptable(page, tbl, i, upper, lower)
  PROVE  Inv'
  <1> DEFINE err == init_ptable_err(page, tbl, i, upper)
  <1>1. err \in Error /\ smc_return(err)
    BY ErrorTypes DEF init_ptable
  <1>2. CASE err # "SUCCESS"
    BY <1>1, <1>2, SmcNoEffect DEF init_ptable
  <1>3. CASE err = "SUCCESS"
    <2>1. /\ i \in Index /\ type[tbl] = upper /\ is_ptable(tbl)
          /\ page_is_free(page)
          /\ addrspace_state(addrspace_page[tbl]) = "INIT"
      BY <1>3 DEF init_ptable_err, allocate_page_err, is_ptable, page_is_typed,
                  index_is_valid
    <2>2. Fits(ZeroTable, lower, addrspace_page[tbl])
      BY Contents DEF Fits
    <2>3. allocate_and_link(page, addrspace_page[tbl], lower, ZeroTable, tbl, i, {})
      BY <1>3 DEF init_ptable
    <2>4. Grow(page, addrspace_page[tbl], lower)
      BY Zenon, <2>1, <2>2, <2>3, AllocateAndLinkGrows DEF Inv
    <2> QED
      BY <1>1, <2>4, GrowInv
  <1> QED
    BY <1>2, <1>3

LEMMA MapSecureInv ==
  ASSUME Inv, NEW page, NEW l3pt, NEW i, NEW mapping \in Mapping, NEW content,
         kom_smc_map_secure(page, l3pt, i, mapping, content)
  PROVE  Inv'
  <1> DEFINE err == map_secure_err(page, l3pt, i, content)
             copy == Data(insecure_pages[content])
  <1>1. err \in Error /\ smc_return(err)
    BY ErrorTypes DEF kom_smc_map_secure
  <1>2. CASE err # "SUCCESS"
    BY <1>1, <1>2, SmcNoEffect DEF kom_smc_map_secure
  <1>3. CASE err = "SUCCESS"
    <2>1. /\ i \in Index /\ type[l3pt] = "L3PTABLE" /\ is_ptable(l3pt)
          /\ content \in InsecurePage /\ page_is_free(page)
          /\ addrspace_state(addrspace_page[l3pt]) = "INIT"
      BY <1>3 DEF map_secure_err, allocate_page_err, is_ptable, page_is_typed,
                  index_is_valid, insecure_page_is_valid
    <2>2. Fits(copy, "DATA", addrspace_page[l3pt])
      BY <2>1, Contents DEF Fits, Inv, TypeOK
    <2>3. allocate_and_link(page, addrspace_page[l3pt], "DATA", copy, l3pt, i, mapping)
      BY <1>3 DEF kom_smc_map_secure
    <2>4. mapping \in SUBSET {"R", "W", "X"}
      BY PageAssumption
    <2>5. Grow(page, addrspace_page[l3pt], "DATA")
      BY Zenon, <2>1, <2>2, <2>3, <2>4, AllocateAndLinkGrows DEF Inv
    <2> QED
      BY <1>1, <2>5, GrowInv
  <1> QED
    BY <1>2, <1>3

-----------------------------------------------------------------------------
(***************************************************************************)
(* The other calls on the page database.                                   *)
(***************************************************************************)
LEMMA InitAddrspaceInv ==
  ASSUME Inv, NEW asp, NEW l1pt, kom_smc_init_addrspace(asp, l1pt)
  PROVE  Inv'
  <1> DEFINE err == init_addrspace_err(asp, l1pt)
             zero == [kind |-> "addrspace", l1pt_page |-> l1pt,
                      refcount |-> 2, state |-> "INIT"]
  <1>1. err \in Error /\ smc_return(err)
    BY ErrorTypes DEF kom_smc_init_addrspace
  <1>2. CASE err # "SUCCESS"
    BY <1>1, <1>2, SmcNoEffect DEF kom_smc_init_addrspace
  <1>3. CASE err = "SUCCESS"
    <2> USE DEF is_addrspace, is_dispatcher, is_ptable, page_is_typed, page_is_valid,
                page_is_free, addrspace_state
    <2>1. /\ asp \in Page /\ l1pt \in Page /\ asp # l1pt
          /\ type[asp] = "FREE" /\ type[l1pt] = "FREE"
      BY <1>3 DEF init_addrspace_err
    <2>2. /\ type' = [type EXCEPT ![asp] = "ADDRSPACE", ![l1pt] = "L1PTABLE"]
          /\ addrspace_page' = [addrspace_page EXCEPT ![asp] = asp, ![l1pt] = asp]
          /\ secure_pages' = [secure_pages EXCEPT ![asp] = zero, ![l1pt] = ZeroTable]
      BY <1>3 DEF kom_smc_init_addrspace
    <2>3. /\ zero \in AddrspaceContent
          /\ zero.l1pt_page = l1pt /\ zero.refcount = 2 /\ zero.state = "INIT"
      BY <2>1 DEF AddrspaceContent, AddrspaceState
    <2> HIDE DEF zero
    <2>4. /\ type' \in [Page -> PageType]
          /\ addrspace_page' \in [Page -> Page \cup {NoPage}]
          /\ secure_pages' \in [Page -> Content]
      BY <2>1, <2>2, <2>3, Contents DEF Inv, TypeOK, PageType, Content
    <2>5. \A q \in Page :
            /\ type'[q] = IF q = asp THEN "ADDRSPACE"
                          ELSE IF q = l1pt THEN "L1PTABLE" ELSE type[q]
            /\ addrspace_page'[q] = IF q \in {asp, l1pt} THEN asp ELSE addrspace_page[q]
            /\ secure_pages'[q] = IF q = asp THEN zero
                                  ELSE IF q = l1pt THEN ZeroTable ELSE secure_pages[q]
      BY <2>1, <2>2 DEF Inv, TypeOK
    <2>6. Ownership'
      <3>1. \A p \in Page : type'[p] # "FREE" => is_addrspace(addrspace_page[p])'
        BY <2>1, <2>5 DEF Inv, Ownership
      <3>2. ASSUME NEW p \in Page, is_addrspace(p)'
            PROVE  /\ addrspace_page'[p] = p
                   /\ secure_pages'[p] \in AddrspaceContent
                   /\ addrspace_state(p)' # "STOPPED" =>
                        /\ page_is_typed(secure_pages[p].l1pt_page, "L1PTABLE")'
                        /\ addrspace_page'[secure_pages'[p].l1pt_page] = p
        BY <2>1, <2>3, <2>5, <3>2 DEF Inv, Ownership
      <3>3. ASSUME NEW p \in Page, is_dispatcher(p)'
            PROVE  /\ secure_pages'[p] \in DispatcherContent
                   /\ secure_pages'[p].saved.satp
                        = secure_pages'[addrspace_page'[p]].l1pt_page
        BY <2>1, <2>5, <3>3 DEF Inv, Ownership
      <3>4. \A p \in Page : is_ptable(p)' => secure_pages'[p] \in TableContent
        BY SMTT(30), <2>1, <2>5, Contents DEF Inv, Ownership
      <3>5. \A p \in Page :
              page_is_typed(p, "DATA")' => secure_pages'[p] \in DataContent
        BY <2>1, <2>5 DEF Inv, Ownership
      <3> QED
        BY <3>1, <3>2, <3>3, <3>4, <3>5 DEF Ownership
    <2>7. Refcount'
      <3>1. /\ owned(asp)' = {asp} \cup {l1pt}
            /\ \A q \in Page \ {asp} : owned(q)' = owned(q)
        BY SMTT(30), <2>1, <2>5 DEF Inv, Ownership, owned
      <3>2. Cardinality(owned(asp)') = 2
        <4>1. IsFiniteSet({asp}) /\ Cardinality({asp}) = 1
          BY Zenon, FS_Singleton
        <4>2. Cardinality({asp} \cup {l1pt})
                = IF l1pt \in {asp} THEN Cardinality({asp}) ELSE Cardinality({asp}) + 1
          BY <4>1, FS_AddElement
        <4> QED
          BY <2>1, <3>1, <4>1, <4>2
      <3> QED
        BY <3>1, <3>2, <2>1, <2>3, <2>5 DEF Inv, Refcount
    <2>8. PageTables'
      <3>1. SUFFICES ASSUME NEW p \in Page, is_ptable(p)', live(p)', NEW i \in Index
                     PROVE  well_linked(p, secure_pages[p].entry[i])'
        BY DEF PageTables
      <3>2. CASE p = l1pt
        BY <2>1, <2>5, <3>2, Contents DEF well_linked
      <3>3. CASE p # l1pt
        <4>1. is_ptable(p) /\ live(p) /\ secure_pages'[p] = secure_pages[p]
          BY SMTT(30), <2>1, <2>5, <3>1, <3>3 DEF Inv, Ownership, live
        <4>2. well_linked(p, secure_pages[p].entry[i])
          BY <4>1 DEF Inv, PageTables
        <4> QED
          BY Zenon, <2>1, <2>5, <4>1, <4>2 DEF well_linked, links_to, insecure_page_is_valid
      <3> QED
        BY <3>2, <3>3
    <2> QED
      BY <1>1, <2>4, <2>6, <2>7, <2>8, SmcTypes, SmcKeepsWorld DEF Inv
  <1> QED
    BY <1>2, <1>3

LEMMA MapInsecureInv ==
  ASSUME Inv, NEW l3pt, NEW i, NEW mapping \in Mapping, NEW f,
         kom_smc_map_insecure(l3pt, i, mapping, f)
  PROVE  Inv'
  <1> DEFINE err == map_insecure_err(l3pt, i, f)
             e == [frame |-> f, prot |-> mapping]
             linked == [secure_pages[l3pt] EXCEPT !.entry[i] = e]
  <1>1. err \in Error /\ smc_return(err)
    BY ErrorTypes DEF kom_smc_map_insecure
  <1>2. CASE err # "SUCCESS"
    BY <1>1, <1>2, SmcNoEffect DEF kom_smc_map_insecure
  <1>3. CASE err = "SUCCESS"
    <2> USE DEF is_addrspace, is_dispatcher, is_ptable, page_is_typed, page_is_valid,
                addrspace_state
    <2>1. /\ l3pt \in Page /\ type[l3pt] = "L3PTABLE"
          /\ i \in Index /\ f \in InsecurePage
      BY <1>3 DEF map_insecure_err, index_is_valid, insecure_page_is_valid
    <2>2. e \in Entry /\ e.frame = f
      BY <2>1, PageAssumption DEF Entry, Frame
    <2>3. /\ linked \in TableContent
          /\ \A j \in Index :
               linked.entry[j] = IF j = i THEN e ELSE secure_pages[l3pt].entry[j]
      BY <2>1, <2>2, TableUpdate DEF Inv, Ownership
    <2>4. /\ secure_pages' = [secure_pages EXCEPT ![l3pt] = linked]
          /\ type' = type /\ addrspace_page' = addrspace_page
      BY <1>3 DEF kom_smc_map_insecure, db
    <2> HIDE DEF e, linked
    <2>5. /\ secure_pages' \in [Page -> Content]
          /\ \A q \in Page :
               secure_pages'[q] = IF q = l3pt THEN linked ELSE secure_pages[q]
      BY <2>1, <2>3, <2>4 DEF Inv, TypeOK, Content
    <2>6. Ownership'
      BY SMTT(30), <2>1, <2>3, <2>4, <2>5 DEF Inv, Ownership
    <2>7. Refcount'
      BY <2>1, <2>4, <2>5 DEF Inv, Refcount, owned
    <2>8. PageTables'
      <3>1. SUFFICES ASSUME NEW p \in Page, is_ptable(p)', live(p)', NEW j \in Index
                     PROVE  well_linked(p, secure_pages[p].entry[j])'
        BY DEF PageTables
      <3>2. CASE p = l3pt /\ j = i
        BY <2>1, <2>2, <2>3, <2>4, <2>5, <3>2 DEF well_linked, insecure_page_is_valid
      <3>3. CASE ~(p = l3pt /\ j = i)
        <4>1. /\ is_ptable(p) /\ live(p)
              /\ secure_pages'[p].entry[j] = secure_pages[p].entry[j]
          BY SMTT(30), <2>1, <2>3, <2>4, <2>5, <3>1, <3>3 DEF Inv, Ownership, live
        <4>2. well_linked(p, secure_pages[p].entry[j])
          BY Zenon, <4>1 DEF Inv, PageTables
        <4> QED
          BY Zenon, <2>4, <4>1, <4>2 DEF well_linked, links_to, insecure_page_is_valid
      <3> QED
        BY <3>2, <3>3
    <2>9. TypeOK'
      BY <1>1, <2>4, <2>5, SmcTypes DEF Inv, TypeOK
    <2> QED
      BY <1>1, <2>6, <2>7, <2>8, <2>9, SmcKeepsWorld DEF Inv
  <1> QED
    BY <1>2, <1>3

(* kom_smc_finalise and kom_smc_stop: no address space that is stopped     *)
(* comes back to life, so no page table has to be correct that was not.    *)
LEMMA SetStateInv ==
  ASSUME Inv, NEW asp, NEW s \in {"FINAL", "STOPPED"}, NEW err \in Error,
         smc_return(err), UNCHANGED db, is_addrspace(asp),
         s = "STOPPED" \/ addrspace_state(asp) # "STOPPED",
         secure_pages' = [secure_pages EXCEPT ![asp].state = s]
  PROVE  Inv'
  <1> USE DEF is_addrspace, is_dispatcher, is_ptable, page_is_typed, page_is_valid,
              addrspace_state
  <1> DEFINE a == [secure_pages[asp] EXCEPT !.state = s]
  <1>1. /\ a \in AddrspaceContent /\ a.state = s
        /\ a.refcount = secure_pages[asp].refcount
        /\ a.l1pt_page = secure_pages[asp].l1pt_page
    <2>1. secure_pages[asp] \in AddrspaceContent /\ s \in AddrspaceState
      BY DEF Inv, Ownership, AddrspaceState
    <2> QED
      BY <2>1, SetState
  <1>2. /\ secure_pages' = [secure_pages EXCEPT ![asp] = a]
        /\ type' = type /\ addrspace_page' = addrspace_page
    BY DEF db
  <1> HIDE DEF a
  <1>3. /\ secure_pages' \in [Page -> Content]
        /\ \A q \in Page : secure_pages'[q] = IF q = asp THEN a ELSE secure_pages[q]
    BY <1>1, <1>2 DEF Inv, TypeOK, Content
  <1>4. Ownership'
    BY <1>1, <1>2, <1>3 DEF Inv, Ownership
  <1>5. Refcount'
    BY <1>1, <1>2, <1>3 DEF Inv, Refcount, owned
  <1>6. PageTables'
    <2>1. SUFFICES ASSUME NEW p \in Page, is_ptable(p)', live(p)', NEW i \in Index
                   PROVE  well_linked(p, secure_pages[p].entry[i])'
      BY DEF PageTables
    <2>2. is_ptable(p) /\ live(p) /\ secure_pages'[p] = secure_pages[p]
      BY <1>1, <1>2, <1>3, <2>1 DEF Inv, Ownership, live
    <2>3. well_linked(p, secure_pages[p].entry[i])
      BY <2>2 DEF Inv, PageTables
    <2> QED
      BY Zenon, <1>2, <2>2, <2>3 DEF well_linked, links_to, insecure_page_is_valid
  <1>7. TypeOK'
    BY <1>2, <1>3, SmcTypes DEF Inv, TypeOK
  <1> QED
    BY <1>4, <1>5, <1>6, <1>7, SmcKeepsWorld DEF Inv

LEMMA FinaliseInv ==
  ASSUME Inv, NEW asp, kom_smc_finalise(asp)
  PROVE  Inv'
  <1> DEFINE err == finalise_err(asp)
  <1>1. err \in Error /\ smc_return(err)
    BY ErrorTypes DEF kom_smc_finalise
  <1>2. CASE err # "SUCCESS"
    BY <1>1, <1>2, SmcNoEffect DEF kom_smc_finalise
  <1>3. CASE err = "SUCCESS"
    BY <1>1, <1>3, SetStateInv DEF kom_smc_finalise, finalise_err, is_addrspace
  <1> QED
    BY <1>2, <1>3

LEMMA StopInv ==
  ASSUME Inv, NEW asp, kom_smc_stop(asp)
  PROVE  Inv'
  <1> DEFINE err == stop_err(asp)
  <1>1. err \in Error /\ smc_return(err)
    BY ErrorTypes DEF kom_smc_stop
  <1>2. CASE err # "SUCCESS"
    BY <1>1, <1>2, SmcNoEffect DEF kom_smc_stop
  <1>3. CASE err = "SUCCESS"
    BY <1>1, <1>3, SetStateInv DEF kom_smc_stop, stop_err, is_addrspace
  <1> QED
    BY <1>2, <1>3

(* kom_smc_remove.  The pages and tables of the stopped address space are  *)
(* under no obligation any more, and no other table links to them; the     *)
(* address space itself goes only when it owns nothing else.               *)
LEMMA RemoveInv ==
  ASSUME Inv, NEW page, kom_smc_remove(page)
  PROVE  Inv'
  <1> DEFINE err == remove_err(page)
             asp == IF type[page] = "ADDRSPACE" THEN page ELSE addrspace_page[page]
             counted == [secure_pages[asp] EXCEPT !.refcount = @ - 1]
  <1>1. err \in Error /\ smc_return(err)
    BY ErrorTypes DEF kom_smc_remove
  <1>2. CASE ~(err = "SUCCESS" /\ ~page_is_free(page))
    BY <1>1, <1>2, SmcNoEffect DEF kom_smc_remove
  <1>3. CASE err = "SUCCESS" /\ ~page_is_free(page)
    <2> USE DEF is_addrspace, is_dispatcher, is_ptable, page_is_typed, page_is_valid,
                page_is_free, addrspace_state
    <2>1. page \in Page /\ type[page] # "FREE"
      BY <1>3 DEF remove_err
    <2>2. /\ asp = addrspace_page[page] /\ asp \in Page
          /\ type[asp] = "ADDRSPACE" /\ page \in owned(asp)
      BY <2>1 DEF Inv, Ownership, owned
    <2> HIDE DEF asp
    <2>3. /\ secure_pages[asp].state = "STOPPED"
          /\ page = asp => secure_pages[asp].refcount = 1
      BY <1>3, <2>1, <2>2 DEF remove_err, asp
    <2>4. /\ secure_pages' = [secure_pages EXCEPT ![asp] = counted]
          /\ type' = [type EXCEPT ![page] = "FREE"]
          /\ addrspace_page' = [addrspace_page EXCEPT ![page] = NoPage]
      BY <1>3 DEF kom_smc_remove, asp
    <2>5. /\ secure_pages[asp] \in AddrspaceContent
          /\ secure_pages[asp].refcount = Cardinality(owned(asp))
      BY <2>2 DEF Inv, Ownership, Refcount
    <2>6. /\ IsFiniteSet(owned(asp) \ {page})
          /\ Cardinality(owned(asp) \ {page}) = Cardinality(owned(asp)) - 1
          /\ Cardinality(owned(asp) \ {page}) \in Nat
      BY <2>2, OwnedFinite, FS_RemoveElement, FS_CardinalityType
    <2>7. secure_pages[asp].refcount - 1 \in Nat
      BY <2>5, <2>6
    <2>8. /\ counted \in AddrspaceContent
          /\ counted.refcount = secure_pages[asp].refcount - 1
          /\ counted.state = "STOPPED"
          /\ counted.l1pt_page = secure_pages[asp].l1pt_page
      BY <2>3, <2>5, <2>7, SetRefcount
    <2> HIDE DEF counted
    <2>9. page = asp => owned(asp) = {asp}
      <3>1. page = asp => owned(asp) \ {page} = {}
        BY <2>3, <2>5, <2>6, FS_EmptySet
      <3> QED
        BY <2>2, <3>1
    <2>10. /\ type' \in [Page -> PageType]
           /\ addrspace_page' \in [Page -> Page \cup {NoPage}]
           /\ secure_pages' \in [Page -> Content]
      BY Zenon, <2>2, <2>4, <2>8 DEF Inv, TypeOK, Content, PageType
    <2>11. \A q \in Page :
             /\ type'[q] = IF q = page THEN "FREE" ELSE type[q]
             /\ addrspace_page'[q] = IF q = page THEN NoPage ELSE addrspace_page[q]
             /\ secure_pages'[q] = IF q = asp THEN counted ELSE secure_pages[q]
      BY <2>1, <2>2, <2>4 DEF Inv, TypeOK
    <2>12. /\ \A p \in Page : type[p] # "FREE" => is_addrspace(addrspace_page[p])
           /\ \A p \in Page : is_addrspace(p) => addrspace_page[p] = p
      BY DEF Inv, Ownership
    <2>13. /\ \A p \in Page : is_dispatcher(p) => secure_pages[p] \in DispatcherContent
           /\ \A p \in Page : is_ptable(p) => secure_pages[p] \in TableContent
           /\ \A p \in Page : page_is_typed(p, "DATA") => secure_pages[p] \in DataContent
      BY DEF Inv, Ownership
    <2>14. Ownership'
      <3>1. ASSUME NEW p \in Page, type'[p] # "FREE"
            PROVE  is_addrspace(addrspace_page[p])'
        <4>1. type[p] # "FREE" /\ p # page /\ addrspace_page'[p] = addrspace_page[p]
          BY <2>11, <3>1
        <4>2. is_addrspace(addrspace_page[p])
          BY <2>12, <4>1
        <4>3. addrspace_page[p] # page
          BY <2>2, <2>9, <2>12, <4>1, <4>2 DEF owned
        <4> QED
          BY <2>11, <4>1, <4>2, <4>3
      <3>2. ASSUME NEW p \in Page, is_addrspace(p)'
            PROVE  /\ addrspace_page'[p] = p
                   /\ secure_pages'[p] \in AddrspaceContent
                   /\ addrspace_state(p)' # "STOPPED" =>
                        /\ page_is_typed(secure_pages[p].l1pt_page, "L1PTABLE")'
                        /\ addrspace_page'[secure_pages'[p].l1pt_page] = p
        <4>1. is_addrspace(p) /\ p # page
          BY <2>11, <3>2
        <4>2. /\ addrspace_page[p] = p
              /\ secure_pages[p] \in AddrspaceContent
              /\ addrspace_state(p) # "STOPPED" =>
                   /\ page_is_typed(secure_pages[p].l1pt_page, "L1PTABLE")
                   /\ addrspace_page[secure_pages[p].l1pt_page] = p
          BY <4>1 DEF Inv, Ownership
        <4>3. CASE p = asp
          BY <2>8, <2>11, <4>1, <4>2, <4>3
        <4>4. CASE p # asp
          BY <2>2, <2>11, <4>1, <4>2, <4>4
        <4> QED
          BY <4>3, <4>4
      <3>3. ASSUME NEW p \in Page, is_dispatcher(p)'
            PROVE  /\ secure_pages'[p] \in DispatcherContent
                   /\ secure_pages'[p].saved.satp
                        = secure_pages'[addrspace_page'[p]].l1pt_page
        <4>1. is_dispatcher(p) /\ p # page /\ p # asp
          BY <2>2, <2>11, <3>3
        <4>2. /\ secure_pages[p] \in DispatcherContent
              /\ secure_pages[p].saved.satp = secure_pages[addrspace_page[p]].l1pt_page
          BY <4>1 DEF Inv, Ownership
        <4>3. addrspace_page[p] \in Page
          BY <2>12, <4>1
        <4> QED
          BY <2>8, <2>11, <4>1, <4>2, <4>3
      <3>4. \A p \in Page : is_ptable(p)' => secure_pages'[p] \in TableContent
        BY <2>2, <2>11, <2>13
      <3>5. \A p \in Page :
              page_is_typed(p, "DATA")' => secure_pages'[p] \in DataContent
        BY <2>2, <2>11, <2>13
      <3> QED
        BY Zenon, <3>1, <3>2, <3>3, <3>4, <3>5 DEF Ownership
    <2>15. Refcount'
      <3>1. SUFFICES ASSUME NEW q \in Page, is_addrspace(q)'
                     PROVE  secure_pages'[q].refcount = Cardinality(owned(q)')
        BY DEF Refcount
      <3>2. /\ type[q] = "ADDRSPACE" /\ q # page
            /\ secure_pages[q].refcount = Cardinality(owned(q))
        BY <2>1, <2>11, <3>1 DEF Inv, Refcount
      <3>3. owned(q)' = IF q = asp THEN owned(q) \ {page} ELSE owned(q)
        BY <2>1, <2>2, <2>11, PageAssumption DEF owned
      <3> QED
        BY Zenon, <2>6, <2>8, <2>11, <3>2, <3>3
    <2>16. PageTables'
      <3>1. SUFFICES ASSUME NEW p \in Page, is_ptable(p)', live(p)', NEW i \in Index
                     PROVE  well_linked(p, secure_pages[p].entry[i])'
        BY DEF PageTables
      <3>2. /\ is_ptable(p) /\ live(p) /\ p # page
            /\ secure_pages'[p] = secure_pages[p]
            /\ addrspace_page[p] # asp
        BY <2>2, <2>3, <2>8, <2>11, <2>12, <3>1 DEF live
      <3>3. well_linked(p, secure_pages[p].entry[i])
        BY <3>2 DEF Inv, PageTables
      <3> QED
        BY Zenon, <2>1, <2>2, <2>11, <3>2, <3>3
           DEF well_linked, links_to, insecure_page_is_valid
    <2> QED
      BY <1>1, <2>10, <2>14, <2>15, <2>16, SmcTypes, SmcKeepsWorld DEF Inv
  <1> QED
    BY <1>2, <1>3
=============================================================================
