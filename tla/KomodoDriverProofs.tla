------------------------- MODULE KomodoDriverProofs -------------------------
(***************************************************************************)
(* The host driver's test() never gets an error from the monitor, whatever *)
(* pages pgalloc_alloc gave it, however often its enclave is interrupted   *)
(* and whatever the software does in between.                              *)
(***************************************************************************)
EXTENDS KomodoDriver, KomodoProofs

(* The steps below carry long contexts: Zenon, which needs no translation  *)
(* of them, goes first, and the provers get more time.                     *)
USE ZenonT(1), SMTT(30), ZenonT(20)

(***************************************************************************)
(* The inductive invariant: before each call, what the calls made so far   *)
(* have built is what the checks of the next one look at.                  *)
(***************************************************************************)
Free(S) == \A p \in S : type[p] = "FREE"

Owned(p, t) == type[p] = t /\ addrspace_page[p] = addrspace

(* A table of the enclave, empty at the indices in S.                      *)
Room(p, t, S) == Owned(p, t) /\ \A i \in S : secure_pages[p].entry[i] = NoEntry

Addrspace(s) == type[addrspace] = "ADDRSPACE" /\ secure_pages[addrspace].state = s

(* The dispatcher, not entered so far.                                     *)
Thread == Owned(disp, "DISPATCHER") /\ ~secure_pages[disp].entered

AtAddrspace == Free({addrspace, l1pt, disp, l2pt, l3pt, code, data})

AtDisp ==
  /\ Free({disp, l2pt, l3pt, code, data})
  /\ Addrspace("INIT") /\ Room(l1pt, "L1PTABLE", {CodeIndex})

AtL2pt ==
  /\ Free({l2pt, l3pt, code, data})
  /\ Addrspace("INIT") /\ Thread /\ Room(l1pt, "L1PTABLE", {CodeIndex})

AtL3pt ==
  /\ Free({l3pt, code, data})
  /\ Addrspace("INIT") /\ Thread /\ Room(l2pt, "L2PTABLE", {CodeIndex})

AtCode ==
  /\ Free({code, data})
  /\ Addrspace("INIT") /\ Thread
  /\ Room(l3pt, "L3PTABLE", {CodeIndex, DataIndex, SharedIndex})

AtData ==
  /\ Free({data})
  /\ Addrspace("INIT") /\ Thread /\ Room(l3pt, "L3PTABLE", {DataIndex, SharedIndex})

AtShared == Addrspace("INIT") /\ Thread /\ Room(l3pt, "L3PTABLE", {SharedIndex})

AtFinalise == Addrspace("INIT") /\ Thread

AtEnter == Addrspace("FINAL") /\ Thread

(* When the enclave does not run, a0 is how it stopped, and an interrupted *)
(* one can be resumed.                                                     *)
AtLoop ==
  /\ Addrspace("FINAL") /\ Owned(disp, "DISPATCHER")
  /\ ~enclave_mode => /\ a0 \in {"SUCCESS", "INTERRUPTED", "FAULT"}
                      /\ a0 = "INTERRUPTED" => secure_pages[disp].entered

AtStop == type[addrspace] = "ADDRSPACE"

(* The enclave runs only within kom_smc_execute.                           *)
Prepared ==
  /\ pc \in {"query", "npages", "addrspace"} => AtAddrspace
  /\ pc = "disp" => AtDisp
  /\ pc = "l2pt" => AtL2pt
  /\ pc = "l3pt" => AtL3pt
  /\ pc = "code" => AtCode
  /\ pc = "data" => AtData
  /\ pc = "shared" => AtShared
  /\ pc = "finalise" => AtFinalise
  /\ pc = "enter" => AtEnter
  /\ pc = "loop" => AtLoop
  /\ pc = "stop" => AtStop
  /\ enclave_mode => pc = "loop" /\ g_cur_dispatcher_pageno = disp

DriverInv == Inv /\ Prepared /\ TestPasses

-----------------------------------------------------------------------------
(***************************************************************************)
(* Steps that are not the driver's.                                        *)
(***************************************************************************)
(* Nothing changes that the driver's next call looks at.                   *)
Unseen ==
  /\ UNCHANGED <<db, enclave_mode, g_cur_dispatcher_pageno, a0>>
  /\ \A q \in Page : type[q] # "DATA" => secure_pages'[q] = secure_pages[q]

LEMMA UnseenPrepared ==
  ASSUME Prepared, Unseen, UNCHANGED pc
  PROVE  Prepared'
  <1>1. UNCHANGED <<type, addrspace_page>>
    BY DEF Unseen, db
  <1>2. \A q \in {addrspace, l1pt, l2pt, l3pt, disp} :
          type[q] # "DATA" => secure_pages'[q] = secure_pages[q]
    BY DriverAssumption DEF Unseen
  <1>3. /\ \A S : Free(S) => Free(S)'
        /\ \A q, t : Owned(q, t) => Owned(q, t)'
    BY <1>1 DEF Free, Owned
  <1>4. \A S :
          /\ Room(l1pt, "L1PTABLE", S) => Room(l1pt, "L1PTABLE", S)'
          /\ Room(l2pt, "L2PTABLE", S) => Room(l2pt, "L2PTABLE", S)'
          /\ Room(l3pt, "L3PTABLE", S) => Room(l3pt, "L3PTABLE", S)'
    BY <1>1, <1>2 DEF Room, Owned
  <1>5. /\ \A s : Addrspace(s) => Addrspace(s)'
        /\ Thread => Thread'
        /\ AtLoop => AtLoop'
        /\ AtStop => AtStop'
    <2>1. \A s : Addrspace(s) => Addrspace(s)'
      BY <1>1, <1>2 DEF Addrspace
    <2>2. Owned(disp, "DISPATCHER") => UNCHANGED secure_pages[disp]
      BY <1>2 DEF Owned
    <2>3. UNCHANGED <<enclave_mode, a0>>
      BY DEF Unseen
    <2> QED
      BY <1>1, <1>3, <2>1, <2>2, <2>3 DEF Thread, AtLoop, AtStop
  <1>6. /\ AtAddrspace => AtAddrspace'
        /\ AtDisp => AtDisp'
        /\ AtL2pt => AtL2pt'
        /\ AtL3pt => AtL3pt'
        /\ AtCode => AtCode'
        /\ AtData => AtData'
        /\ AtShared => AtShared'
        /\ AtFinalise => AtFinalise'
        /\ AtEnter => AtEnter'
    BY Zenon, <1>3, <1>4, <1>5 DEF AtAddrspace, AtDisp, AtL2pt, AtL3pt, AtCode, AtData,
       AtShared, AtFinalise, AtEnter
  <1>7. UNCHANGED <<enclave_mode, g_cur_dispatcher_pageno>>
    BY DEF Unseen
  <1> QED
    BY <1>5, <1>6, <1>7 DEF Prepared

LEMMA SoftwareUnseen ==
  ASSUME Inv, software \/ svc_unknown
  PROVE  Unseen
  <1>1. CASE UNCHANGED <<db, memory, world, a0>>
    BY <1>1 DEF Unseen, memory, world
  <1>2. CASE store
    <2>1. UNCHANGED <<db, world, a0>>
      BY <1>2 DEF store
    <2>2. PICK f \in accessible("W") :
            \/ UNCHANGED secure_pages
            \/ f \in Page /\ secure_pages' = [secure_pages EXCEPT ![f] = Data(ctx.regs)]
      BY <1>2 DEF store
    <2>3. f \in Page => type[f] = "DATA"
      BY Reach, PageAssumption DEF page_is_typed
    <2> QED
      BY <2>1, <2>2, <2>3 DEF Unseen, world, Inv, TypeOK
  <1>3. load \/ compute \/ write_satp \/ svc_unknown => UNCHANGED <<db, memory, world, a0>>
    BY Zenon DEF load, compute, write_satp, svc_unknown
  <1> QED
    BY Zenon, <1>1, <1>2, <1>3 DEF software

(* The enclave stops: it exits, or is left as entered.                     *)
LEMMA LeavePrepared ==
  ASSUME Prepared, NEW entered \in BOOLEAN, Leaves(entered), UNCHANGED pc,
         a0' \in {"SUCCESS", "INTERRUPTED", "FAULT"},
         a0' = "INTERRUPTED" => entered
  PROVE  Prepared'
  <1>1. enclave_mode /\ ~enclave_mode'
    BY DEF Leaves
  <1>2. pc = "loop" /\ g_cur_dispatcher_pageno = disp /\ AtLoop
    BY <1>1 DEF Prepared
  <1>3. /\ UNCHANGED <<type, addrspace_page>>
        /\ secure_pages'[disp].entered = entered
        /\ secure_pages'[addrspace] = secure_pages[addrspace]
    BY <1>2, DriverAssumption DEF Leaves, db
  <1>4. AtLoop'
    BY <1>2, <1>3 DEF AtLoop, Addrspace, Owned
  <1> QED
    BY <1>1, <1>2, <1>4 DEF Prepared

LEMMA ExitInv ==
  ASSUME DriverInv, exit
  PROVE  DriverInv'
  <1>1. kom_svc_exit /\ UNCHANGED <<pc, r>>
    BY DEF exit
  <1>2. Inv /\ Prepared /\ TestPasses
    BY DEF DriverInv
  <1>3. Leaves(FALSE)
    BY Zenon, <1>1, <1>2, LeaveStep DEF kom_svc_exit
  <1>4. a0' = "SUCCESS"
    BY <1>1 DEF kom_svc_exit
  <1>5. /\ FALSE \in BOOLEAN
        /\ a0' \in {"SUCCESS", "INTERRUPTED", "FAULT"}
        /\ a0' = "INTERRUPTED" => FALSE
    BY <1>4
  <1>6. Prepared'
    BY Zenon, <1>1, <1>2, <1>3, <1>5, LeavePrepared
  <1>7. Inv'
    BY <1>1, <1>2, SvcInv DEF do_svc_calls
  <1> QED
    BY <1>1, <1>2, <1>6, <1>7 DEF DriverInv, TestPasses

LEMMA OthersInv ==
  ASSUME DriverInv, others
  PROVE  DriverInv'
  <1>1. Inv /\ Prepared /\ TestPasses /\ UNCHANGED <<pc, r>>
    BY DEF DriverInv, others
  <1>2. CASE software \/ svc_unknown
    <2>1. Prepared'
      BY <1>1, <1>2, SoftwareUnseen, UnseenPrepared
    <2>2. Inv'
      BY <1>1, <1>2, SoftwareInv, SvcInv DEF do_svc_calls
    <2> QED
      BY <1>1, <2>1, <2>2 DEF DriverInv, TestPasses
  <1>3. CASE \E cause \in {"interrupt", "exception"} : do_trap(cause)
    <2>1. PICK cause \in {"interrupt", "exception"} : do_trap(cause)
      BY <1>3
    <2>2. Inv'
      BY <1>1, <2>1, TrapInv
    <2>3. CASE enclave_mode
      <3>1. kom_handle_trap(cause)
        BY <2>1, <2>3 DEF do_trap
      <3>2. Leaves(TRUE)
        BY Zenon, <1>1, <2>3, <3>1, LeaveStep DEF kom_handle_trap
      <3>3. a0' \in {"SUCCESS", "INTERRUPTED", "FAULT"} /\ TRUE \in BOOLEAN
        BY <3>1 DEF kom_handle_trap
      <3>4. Prepared'
        BY Zenon, <1>1, <3>2, <3>3, LeavePrepared
      <3> QED
        BY <1>1, <2>2, <3>4 DEF DriverInv, TestPasses
    <2>4. CASE ~enclave_mode
      <3>1. Unseen
        BY <2>1, <2>4 DEF do_trap, Unseen, memory, world
      <3>2. Prepared'
        BY <1>1, <3>1, UnseenPrepared
      <3> QED
        BY <1>1, <2>2, <3>2 DEF DriverInv, TestPasses
    <2> QED
      BY <2>3, <2>4
  <1> QED
    BY <1>2, <1>3 DEF others

-----------------------------------------------------------------------------
(***************************************************************************)
(* The driver's calls.                                                     *)
(***************************************************************************)
(* A call that builds is not refused, and takes the driver to the next.    *)
LEMMA Returned ==
  ASSUME smc_return("SUCCESS")
  PROVE  a0' = "SUCCESS" /\ ~enclave_mode'
  BY DEF smc_return, world

(* What a call leaves alone that adds a page to the driver's enclave.      *)
LEMMA AddsFrame ==
  ASSUME NEW page, NEW t, NEW tbl, NEW i, Adds(page, addrspace, t, tbl, i),
         page # addrspace
  PROVE  /\ Addrspace("INIT")'
         /\ Owned(page, t)'
         /\ \A q \in Page \ {page} : UNCHANGED <<type[q], addrspace_page[q]>>
         /\ \A q \in Page \ {page, tbl, addrspace} : secure_pages'[q] = secure_pages[q]
  <1>1. type[addrspace] = "ADDRSPACE" /\ addrspace \in Page /\ page \in Page
    BY DEF Adds
  <1> QED
    BY <1>1 DEF Adds, Addrspace, Owned

LEMMA InitAddrspaceCall ==
  ASSUME DriverInv, call("addrspace", kom_smc_init_addrspace(addrspace, l1pt), "disp")
  PROVE  DriverInv'
  <1>1. pc = "addrspace" /\ kom_smc_init_addrspace(addrspace, l1pt)
    BY DEF call
  <1>2. Inv /\ TestPasses /\ AtAddrspace
    BY <1>1 DEF DriverInv, Prepared
  <1>3. init_addrspace_err(addrspace, l1pt) = "SUCCESS"
    BY <1>2, DriverAssumption DEF AtAddrspace, Free,
       init_addrspace_err, page_is_free, page_is_typed, page_is_valid
  <1>4. Builds(addrspace, l1pt) /\ Inv'
    BY <1>1, <1>2, <1>3, InitAddrspaceStep, InitAddrspaceInv
  <1>5. smc_return("SUCCESS")
    BY <1>1, <1>3 DEF kom_smc_init_addrspace
  <1>6. pc' = "disp" /\ UNCHANGED r
    BY <1>5, Returned DEF call
  <1>7. Free({disp, l2pt, l3pt, code, data})'
    BY <1>2, <1>4, DriverAssumption DEF AtAddrspace, Free, Builds
  <1>8. Addrspace("INIT")'
    BY <1>4 DEF Addrspace, Builds
  <1>9. Room(l1pt, "L1PTABLE", {CodeIndex})'
    BY <1>4, DriverAssumption DEF Room, Owned, Builds, ZeroTable
  <1>10. AtDisp'
    BY <1>7, <1>8, <1>9 DEF AtDisp
  <1>11. Prepared'
    BY <1>5, <1>6, <1>10, Returned DEF Prepared
  <1> QED
    BY <1>2, <1>4, <1>6, <1>11 DEF DriverInv, TestPasses

LEMMA InitDispatcherCall ==
  ASSUME DriverInv, call("disp", kom_smc_init_dispatcher(disp, addrspace), "l2pt")
  PROVE  DriverInv'
  <1>1. pc = "disp" /\ kom_smc_init_dispatcher(disp, addrspace)
    BY DEF call
  <1>2. Inv /\ TestPasses /\ AtDisp
    BY <1>1 DEF DriverInv, Prepared
  <1>3. init_dispatcher_err(disp, addrspace) = "SUCCESS"
    BY <1>2, DriverAssumption DEF AtDisp, Free, Addrspace, init_dispatcher_err,
       allocate_page_err, addrspace_state, page_is_free, page_is_typed, page_is_valid
  <1>4. Adds(disp, addrspace, "DISPATCHER", addrspace, PageZero) /\ Inv'
    BY <1>1, <1>2, <1>3, InitDispatcherStep, InitDispatcherInv
  <1>5. smc_return("SUCCESS")
    BY <1>1, <1>3 DEF kom_smc_init_dispatcher
  <1>6. pc' = "l2pt" /\ UNCHANGED r
    BY <1>5, Returned DEF call
  <1>7. /\ Addrspace("INIT")'
        /\ Owned(disp, "DISPATCHER")'
        /\ \A q \in Page \ {disp} : UNCHANGED <<type[q], addrspace_page[q]>>
        /\ \A q \in Page \ {disp, addrspace} : secure_pages'[q] = secure_pages[q]
    BY <1>4, AddsFrame, DriverAssumption
  <1>8. Free({l2pt, l3pt, code, data})'
    BY <1>2, <1>7, DriverAssumption DEF AtDisp, Free
  <1>9. Room(l1pt, "L1PTABLE", {CodeIndex})'
    BY <1>2, <1>7, DriverAssumption DEF AtDisp, Room, Owned
  <1>10. ~secure_pages'[disp].entered
    BY <1>4 DEF Adds, Blank
  <1>11. AtL2pt'
    BY <1>7, <1>8, <1>9, <1>10 DEF AtL2pt, Thread
  <1>12. Prepared'
    BY <1>5, <1>6, <1>11, Returned DEF Prepared
  <1> QED
    BY <1>2, <1>4, <1>6, <1>12 DEF DriverInv, TestPasses

(* A table entry that is empty accepts a page table for the next level.    *)
LEMMA PtableAdds ==
  ASSUME Inv, NEW page \in Page \ {addrspace}, NEW table \in Page, NEW up, NEW low,
         init_ptable(page, table, CodeIndex, up, low),
         <<up, low>> \in {<<"L1PTABLE", "L2PTABLE">>, <<"L2PTABLE", "L3PTABLE">>},
         Free({page}), Addrspace("INIT"), Room(table, up, {CodeIndex})
  PROVE  /\ Adds(page, addrspace, low, table, CodeIndex)
         /\ secure_pages'[page] = ZeroTable
         /\ smc_return("SUCCESS") /\ Inv'
  <1>1. init_ptable_err(page, table, CodeIndex, up) = "SUCCESS"
    <2>1. allocate_page_err(page, addrspace) = "SUCCESS"
      BY DriverAssumption DEF Free, Addrspace, allocate_page_err,
         addrspace_state, page_is_free, page_is_typed, page_is_valid
    <2> QED
      BY <2>1, DriverAssumption DEF Room, Owned, init_ptable_err,
         index_is_valid, page_is_typed, page_is_valid
  <1>2. Adds(page, addrspace, low, table, CodeIndex)
    BY <1>1, InitPtableStep DEF Room, Owned
  <1>3. secure_pages'[page] = ZeroTable
    BY <1>2 DEF Adds, Blank
  <1>4. smc_return("SUCCESS")
    BY <1>1 DEF init_ptable
  <1>5. Inv'
    BY InitPtableInv
  <1> QED
    BY <1>2, <1>3, <1>4, <1>5

(* An empty entry of the last level accepts a page of the enclave's own.   *)
LEMMA SecureAdds ==
  ASSUME Inv, NEW page \in Page \ {addrspace}, NEW index \in Index, NEW m \in Mapping,
         kom_smc_map_secure(page, l3pt, index, m, test_shared),
         Free({page}), Addrspace("INIT"), Room(l3pt, "L3PTABLE", {index})
  PROVE  /\ Adds(page, addrspace, "DATA", l3pt, index)
         /\ smc_return("SUCCESS") /\ Inv'
  <1>1. map_secure_err(page, l3pt, index, test_shared) = "SUCCESS"
    <2>1. allocate_page_err(page, addrspace) = "SUCCESS"
      BY DriverAssumption DEF Free, Addrspace, allocate_page_err,
         addrspace_state, page_is_free, page_is_typed, page_is_valid
    <2> QED
      BY <2>1, DriverAssumption DEF Room, Owned, map_secure_err,
         index_is_valid, insecure_page_is_valid, page_is_typed, page_is_valid
  <1>2. Adds(page, addrspace, "DATA", l3pt, index)
    BY <1>1, MapSecureStep, DriverAssumption DEF Room, Owned
  <1>3. smc_return("SUCCESS")
    BY <1>1 DEF kom_smc_map_secure
  <1>4. Inv'
    BY MapSecureInv, DriverAssumption
  <1> QED
    BY <1>2, <1>3, <1>4

LEMMA InitL2ptableCall ==
  ASSUME DriverInv, call("l2pt", kom_smc_init_l2ptable(l2pt, l1pt, CodeIndex), "l3pt")
  PROVE  DriverInv'
  <1>1. pc = "l2pt" /\ init_ptable(l2pt, l1pt, CodeIndex, "L1PTABLE", "L2PTABLE")
    BY DEF call, kom_smc_init_l2ptable
  <1>2. Inv /\ TestPasses /\ AtL2pt
    BY <1>1 DEF DriverInv, Prepared
  <1>3. Free({l2pt})
    BY <1>2 DEF AtL2pt, Free
  <1>4. /\ Adds(l2pt, addrspace, "L2PTABLE", l1pt, CodeIndex)
        /\ secure_pages'[l2pt] = ZeroTable
        /\ smc_return("SUCCESS") /\ Inv'
    BY <1>1, <1>2, <1>3, PtableAdds, DriverAssumption DEF AtL2pt
  <1>5. pc' = "l3pt" /\ UNCHANGED r
    BY <1>4, Returned DEF call
  <1>6. /\ l2pt # addrspace
        /\ {l3pt, code, data} \subseteq Page \ {l2pt}
        /\ disp \in Page \ {l2pt, l1pt, addrspace}
        /\ {CodeIndex} \subseteq Index
    BY DriverAssumption
  <1>7. /\ Addrspace("INIT")'
        /\ Owned(l2pt, "L2PTABLE")'
        /\ \A q \in Page \ {l2pt} : UNCHANGED <<type[q], addrspace_page[q]>>
        /\ secure_pages'[disp] = secure_pages[disp]
    BY <1>4, <1>6, AddsFrame
  <1>8. Free({l3pt, code, data})'
    BY <1>2, <1>6, <1>7 DEF AtL2pt, Free
  <1>9. Thread'
    BY <1>2, <1>6, <1>7 DEF AtL2pt, Thread, Owned
  <1>10. Room(l2pt, "L2PTABLE", {CodeIndex})'
    BY <1>4, <1>6, <1>7 DEF Room, ZeroTable
  <1>11. AtL3pt'
    BY <1>7, <1>8, <1>9, <1>10 DEF AtL3pt
  <1>12. Prepared'
    BY <1>4, <1>5, <1>11, Returned DEF Prepared
  <1> QED
    BY <1>2, <1>4, <1>5, <1>12 DEF DriverInv, TestPasses

LEMMA InitL3ptableCall ==
  ASSUME DriverInv, call("l3pt", kom_smc_init_l3ptable(l3pt, l2pt, CodeIndex), "code")
  PROVE  DriverInv'
  <1>1. pc = "l3pt" /\ init_ptable(l3pt, l2pt, CodeIndex, "L2PTABLE", "L3PTABLE")
    BY DEF call, kom_smc_init_l3ptable
  <1>2. Inv /\ TestPasses /\ AtL3pt
    BY <1>1 DEF DriverInv, Prepared
  <1>3. Free({l3pt})
    BY <1>2 DEF AtL3pt, Free
  <1>4. /\ Adds(l3pt, addrspace, "L3PTABLE", l2pt, CodeIndex)
        /\ secure_pages'[l3pt] = ZeroTable
        /\ smc_return("SUCCESS") /\ Inv'
    BY <1>1, <1>2, <1>3, PtableAdds, DriverAssumption DEF AtL3pt
  <1>5. pc' = "code" /\ UNCHANGED r
    BY <1>4, Returned DEF call
  <1>6. /\ l3pt # addrspace
        /\ {code, data} \subseteq Page \ {l3pt}
        /\ disp \in Page \ {l3pt, l2pt, addrspace}
        /\ {CodeIndex, DataIndex, SharedIndex} \subseteq Index
    BY DriverAssumption
  <1>7. /\ Addrspace("INIT")'
        /\ Owned(l3pt, "L3PTABLE")'
        /\ \A q \in Page \ {l3pt} : UNCHANGED <<type[q], addrspace_page[q]>>
        /\ secure_pages'[disp] = secure_pages[disp]
    BY <1>4, <1>6, AddsFrame
  <1>8. Free({code, data})'
    BY <1>2, <1>6, <1>7 DEF AtL3pt, Free
  <1>9. Thread'
    BY <1>2, <1>6, <1>7 DEF AtL3pt, Thread, Owned
  <1>10. Room(l3pt, "L3PTABLE", {CodeIndex, DataIndex, SharedIndex})'
    BY <1>4, <1>6, <1>7 DEF Room, ZeroTable
  <1>11. AtCode'
    BY <1>7, <1>8, <1>9, <1>10 DEF AtCode
  <1>12. Prepared'
    BY <1>4, <1>5, <1>11, Returned DEF Prepared
  <1> QED
    BY <1>2, <1>4, <1>5, <1>12 DEF DriverInv, TestPasses

LEMMA MapCodeCall ==
  ASSUME DriverInv,
         call("code", kom_smc_map_secure(code, l3pt, CodeIndex, {"R", "X"}, test_shared),
              "data")
  PROVE  DriverInv'
  <1>1. pc = "code" /\ kom_smc_map_secure(code, l3pt, CodeIndex, {"R", "X"}, test_shared)
    BY DEF call
  <1>2. Inv /\ TestPasses /\ AtCode
    BY <1>1 DEF DriverInv, Prepared
  <1>3. Free({code}) /\ Room(l3pt, "L3PTABLE", {CodeIndex})
    BY <1>2 DEF AtCode, Free, Room
  <1>4. /\ Adds(code, addrspace, "DATA", l3pt, CodeIndex)
        /\ smc_return("SUCCESS") /\ Inv'
    BY <1>1, <1>2, <1>3, SecureAdds, DriverAssumption DEF AtCode
  <1>5. pc' = "data" /\ UNCHANGED r
    BY <1>4, Returned DEF call
  <1>6. /\ code # addrspace /\ l3pt \in Page \ {code, addrspace}
        /\ {data} \subseteq Page \ {code}
        /\ disp \in Page \ {code, l3pt, addrspace}
        /\ {DataIndex, SharedIndex} \subseteq Index \ {CodeIndex}
    BY DriverAssumption
  <1>7. /\ Addrspace("INIT")'
        /\ \A q \in Page \ {code} : UNCHANGED <<type[q], addrspace_page[q]>>
        /\ secure_pages'[disp] = secure_pages[disp]
    BY <1>4, <1>6, AddsFrame
  <1>8. \A j \in {DataIndex, SharedIndex} :
          secure_pages'[l3pt].entry[j] = secure_pages[l3pt].entry[j]
    BY <1>4, <1>6 DEF Adds
  <1>9. Thread'
    BY <1>2, <1>6, <1>7 DEF AtCode, Thread, Owned
  <1>10. Room(l3pt, "L3PTABLE", {DataIndex, SharedIndex})'
    BY <1>2, <1>6, <1>7, <1>8 DEF AtCode, Room, Owned
  <1>11. Free({data})'
    BY <1>2, <1>6, <1>7 DEF AtCode, Free
  <1>12. AtData'
    BY <1>7, <1>9, <1>10, <1>11 DEF AtData
  <1>13. Prepared'
    BY <1>4, <1>5, <1>12, Returned DEF Prepared
  <1> QED
    BY <1>2, <1>4, <1>5, <1>13 DEF DriverInv, TestPasses

LEMMA MapDataCall ==
  ASSUME DriverInv,
         call("data", kom_smc_map_secure(data, l3pt, DataIndex, {"R", "W"}, test_shared),
              "shared")
  PROVE  DriverInv'
  <1>1. pc = "data" /\ kom_smc_map_secure(data, l3pt, DataIndex, {"R", "W"}, test_shared)
    BY DEF call
  <1>2. Inv /\ TestPasses /\ AtData
    BY <1>1 DEF DriverInv, Prepared
  <1>3. Free({data}) /\ Room(l3pt, "L3PTABLE", {DataIndex})
    BY <1>2 DEF AtData, Free, Room
  <1>4. /\ Adds(data, addrspace, "DATA", l3pt, DataIndex)
        /\ smc_return("SUCCESS") /\ Inv'
    BY <1>1, <1>2, <1>3, SecureAdds, DriverAssumption DEF AtData
  <1>5. pc' = "shared" /\ UNCHANGED r
    BY <1>4, Returned DEF call
  <1>6. /\ data # addrspace /\ l3pt \in Page \ {data, addrspace}
        /\ disp \in Page \ {data, l3pt, addrspace}
        /\ {SharedIndex} \subseteq Index \ {DataIndex}
    BY DriverAssumption
  <1>7. /\ Addrspace("INIT")'
        /\ \A q \in Page \ {data} : UNCHANGED <<type[q], addrspace_page[q]>>
        /\ secure_pages'[disp] = secure_pages[disp]
    BY <1>4, <1>6, AddsFrame
  <1>8. \A j \in {SharedIndex} :
          secure_pages'[l3pt].entry[j] = secure_pages[l3pt].entry[j]
    BY <1>4, <1>6 DEF Adds
  <1>9. Thread'
    BY <1>2, <1>6, <1>7 DEF AtData, Thread, Owned
  <1>10. Room(l3pt, "L3PTABLE", {SharedIndex})'
    BY <1>2, <1>6, <1>7, <1>8 DEF AtData, Room, Owned
  <1>11. AtShared'
    BY <1>7, <1>9, <1>10 DEF AtShared
  <1>12. Prepared'
    BY <1>4, <1>5, <1>11, Returned DEF Prepared
  <1> QED
    BY <1>2, <1>4, <1>5, <1>12 DEF DriverInv, TestPasses

LEMMA MapSharedCall ==
  ASSUME DriverInv,
         call("shared", kom_smc_map_insecure(l3pt, SharedIndex, {"R", "W"}, test_shared),
              "finalise")
  PROVE  DriverInv'
  <1>1. pc = "shared" /\ kom_smc_map_insecure(l3pt, SharedIndex, {"R", "W"}, test_shared)
    BY DEF call
  <1>2. Inv /\ TestPasses /\ AtShared
    BY <1>1 DEF DriverInv, Prepared
  <1>3. map_insecure_err(l3pt, SharedIndex, test_shared) = "SUCCESS"
    BY <1>2, DriverAssumption DEF AtShared, Addrspace, Room, Owned, map_insecure_err,
       addrspace_state, index_is_valid, insecure_page_is_valid, page_is_typed, page_is_valid
  <1>4. Shares(l3pt, SharedIndex)
    BY <1>1, <1>2, <1>3, MapInsecureStep, DriverAssumption
  <1>5. Inv'
    BY <1>1, <1>2, MapInsecureInv, DriverAssumption
  <1>6. smc_return("SUCCESS")
    BY <1>1, <1>3 DEF kom_smc_map_insecure
  <1>7. pc' = "finalise" /\ UNCHANGED r
    BY <1>6, Returned DEF call
  <1>8. Addrspace("INIT")' /\ Thread'
    <2>1. /\ UNCHANGED <<type, addrspace_page>>
          /\ \A q \in {addrspace, disp} : secure_pages'[q] = secure_pages[q]
      BY <1>4, DriverAssumption DEF Shares, db
    <2> QED
      BY <1>2, <2>1 DEF AtShared, Addrspace, Thread, Owned
  <1>9. Prepared'
    BY <1>6, <1>7, <1>8, Returned DEF Prepared, AtFinalise
  <1> QED
    BY <1>2, <1>5, <1>7, <1>9 DEF DriverInv, TestPasses

LEMMA FinaliseCall ==
  ASSUME DriverInv, call("finalise", kom_smc_finalise(addrspace), "enter")
  PROVE  DriverInv'
  <1>1. pc = "finalise" /\ kom_smc_finalise(addrspace)
    BY DEF call
  <1>2. Inv /\ TestPasses /\ AtFinalise
    BY <1>1 DEF DriverInv, Prepared
  <1>3. finalise_err(addrspace) = "SUCCESS"
    BY <1>2, DriverAssumption DEF AtFinalise, Addrspace, finalise_err,
       addrspace_state, page_is_typed, page_is_valid
  <1>4. Moves(addrspace, "FINAL") /\ Inv'
    BY <1>1, <1>2, <1>3, FinaliseStep, FinaliseInv
  <1>5. smc_return("SUCCESS")
    BY <1>1, <1>3 DEF kom_smc_finalise
  <1>6. pc' = "enter" /\ UNCHANGED r
    BY <1>5, Returned DEF call
  <1>7. Addrspace("FINAL")' /\ Thread'
    <2>1. /\ UNCHANGED <<type, addrspace_page>>
          /\ secure_pages'[addrspace].state = "FINAL"
          /\ secure_pages'[disp] = secure_pages[disp]
      BY <1>4, DriverAssumption DEF Moves, db
    <2> QED
      BY <1>2, <2>1 DEF AtFinalise, Addrspace, Thread, Owned
  <1>8. Prepared'
    BY <1>5, <1>6, <1>7, Returned DEF Prepared, AtEnter
  <1> QED
    BY <1>2, <1>4, <1>6, <1>8 DEF DriverInv, TestPasses

LEMMA DriverInitCall ==
  ASSUME DriverInv, driver_init
  PROVE  DriverInv'
  <1>1. /\ \E answer \in {"MAGIC", "NPAGES"} : smc_no_effect(answer)
        /\ pc \in {"query", "npages"} /\ pc' \in {"npages", "addrspace"} /\ UNCHANGED r
    BY DEF driver_init
  <1>2. Inv /\ TestPasses /\ AtAddrspace
    BY <1>1 DEF DriverInv, Prepared
  <1>3. UNCHANGED type /\ ~enclave_mode'
    BY <1>1 DEF smc_no_effect, smc_return, db, world
  <1>4. Inv'
    BY <1>1, <1>2, SmcNoEffect DEF smc_no_effect
  <1>5. Prepared'
    BY <1>1, <1>2, <1>3 DEF Prepared, AtAddrspace, Free
  <1> QED
    BY <1>1, <1>2, <1>4, <1>5 DEF DriverInv, TestPasses

(* Neither the first kom_smc_enter nor a kom_smc_resume is refused.        *)
LEMMA EnterCall ==
  ASSUME DriverInv, pc' = "loop", UNCHANGED r,
         \/ pc = "enter" /\ kom_smc_enter(disp, Public)
         \/ pc = "loop" /\ a0 = "INTERRUPTED" /\ kom_smc_resume(disp)
  PROVE  DriverInv'
  <1>1. /\ Inv /\ TestPasses
        /\ pc = "enter" => AtEnter
        /\ pc = "loop" => AtLoop
    BY DEF DriverInv, Prepared
  <1>2. Addrspace("FINAL") /\ Owned(disp, "DISPATCHER")
    BY <1>1 DEF AtEnter, AtLoop, Thread
  <1>3. page_is_typed(disp, "DISPATCHER") /\ addrspace_state(addrspace_page[disp]) = "FINAL"
    BY <1>2, DriverAssumption DEF Addrspace, Owned, page_is_typed, page_is_valid,
       addrspace_state
  <1>4. /\ UNCHANGED <<type, addrspace_page>>
        /\ secure_pages'[addrspace] = secure_pages[addrspace]
        /\ enclave_mode' /\ g_cur_dispatcher_pageno' = disp
    <2>1. CASE pc = "enter" /\ kom_smc_enter(disp, Public)
      <3> DEFINE dispatcher == [secure_pages[disp] EXCEPT !.saved.args = Public]
      <3>1. enter_err(disp) = "SUCCESS"
        BY <1>1, <1>3, <2>1 DEF AtEnter, Thread, enter_err
      <3>2. /\ secure_pages' = [secure_pages EXCEPT ![disp] = dispatcher]
            /\ enter_secure_world(disp, dispatcher) /\ UNCHANGED db
        BY Zenon, <2>1, <3>1 DEF kom_smc_enter
      <3> HIDE DEF dispatcher
      <3>3. secure_pages'[addrspace] = secure_pages[addrspace]
        BY <1>1, <3>2, DriverAssumption DEF Inv, TypeOK
      <3> QED
        BY <3>2, <3>3 DEF enter_secure_world, db
    <2>2. CASE pc = "loop" /\ a0 = "INTERRUPTED" /\ kom_smc_resume(disp)
      <3>1. ~enclave_mode
        BY <2>2 DEF kom_smc_resume, enter_secure_world, smc_return
      <3>2. resume_err(disp) = "SUCCESS"
        BY <1>1, <1>3, <2>2, <3>1 DEF AtLoop, resume_err
      <3> QED
        BY <2>2, <3>2 DEF kom_smc_resume, enter_secure_world, db
    <2> QED
      BY <2>1, <2>2
  <1>5. AtLoop'
    BY <1>2, <1>4 DEF AtLoop, Addrspace, Owned
  <1>6. Prepared'
    BY <1>4, <1>5 DEF Prepared
  <1>7. Inv'
    <2>1. Public \in Val
      BY DEF Val
    <2> QED
      BY Zenon, <1>1, <2>1, KomEnterInv, KomResumeInv
  <1> QED
    BY <1>1, <1>6, <1>7 DEF DriverInv, TestPasses

LEMMA ExecuteCall ==
  ASSUME DriverInv, kom_smc_execute
  PROVE  DriverInv'
  <1>1. CASE /\ pc = "loop" /\ ~enclave_mode /\ a0 # "INTERRUPTED"
             /\ pc' = "stop" /\ r' = a0
             /\ UNCHANGED vars
    <2>1. Inv /\ AtLoop
      BY <1>1 DEF DriverInv, Prepared
    <2>2. UNCHANGED <<type, enclave_mode>>
      BY <1>1 DEF vars, db, world
    <2>3. Inv'
      BY <1>1, <2>1, NextInv
    <2>4. AtStop' /\ TestPasses'
      BY <1>1, <2>1, <2>2 DEF AtLoop, Addrspace, AtStop, TestPasses
    <2>5. Prepared'
      BY <1>1, <2>2, <2>4 DEF Prepared
    <2> QED
      BY <2>3, <2>4, <2>5 DEF DriverInv
  <1>2. CASE \/ pc = "enter" /\ kom_smc_enter(disp, Public) /\ pc' = "loop" /\ UNCHANGED r
             \/ /\ pc = "loop" /\ a0 = "INTERRUPTED" /\ kom_smc_resume(disp)
                /\ UNCHANGED <<pc, r>>
    BY <1>2, EnterCall
  <1> QED
    BY <1>1, <1>2 DEF kom_smc_execute

LEMMA CleanupCall ==
  ASSUME DriverInv, cleanup
  PROVE  DriverInv'
  <1> DEFINE Removing == {"rm_disp", "rm_code", "rm_data", "rm_l3pt", "rm_l2pt",
                          "rm_l1pt", "rm_addrspace", "done"}
  <1>1. Inv /\ TestPasses
    BY DEF DriverInv
  <1>2. Inv' /\ ~enclave_mode' /\ pc' \in Removing /\ TestPasses'
    <2>1. CASE /\ pc = "stop" /\ kom_smc_stop(addrspace) /\ pc' = "rm_disp"
               /\ r' = IF a0' = "SUCCESS" THEN r ELSE a0'
      <3>1. AtStop
        BY <2>1 DEF DriverInv, Prepared
      <3>2. stop_err(addrspace) = "SUCCESS"
        BY <3>1, DriverAssumption DEF AtStop, stop_err, page_is_typed, page_is_valid
      <3>3. smc_return("SUCCESS")
        BY <2>1, <3>2 DEF kom_smc_stop
      <3>4. Inv'
        BY <1>1, <2>1, StopInv
      <3> QED
        BY <1>1, <2>1, <3>3, <3>4, Returned DEF TestPasses
    <2>2. CASE \E p : kom_smc_remove(p) /\ pc' \in Removing /\ UNCHANGED r
      <3>1. PICK p : kom_smc_remove(p) /\ pc' \in Removing /\ UNCHANGED r
        BY Zenon, <2>2
      <3>2. ~enclave_mode'
        BY <3>1 DEF kom_smc_remove, smc_return, world
      <3>3. Inv'
        BY <1>1, <3>1, RemoveInv
      <3> QED
        BY <1>1, <3>1, <3>2, <3>3 DEF TestPasses
    <2> QED
      BY <2>1, <2>2 DEF cleanup
  <1>3. Prepared'
    BY <1>2 DEF Prepared
  <1> QED
    BY <1>2, <1>3 DEF DriverInv

-----------------------------------------------------------------------------
LEMMA DriverStep == DriverInv /\ [DriverNext]_driver_vars => DriverInv'
  <1> SUFFICES ASSUME DriverInv, [DriverNext]_driver_vars PROVE DriverInv'
    OBVIOUS
  <1>1. CASE driver_init
    BY <1>1, DriverInitCall
  <1>2. CASE build
    BY Zenon, <1>2, InitAddrspaceCall, InitDispatcherCall, InitL2ptableCall,
       InitL3ptableCall, MapCodeCall, MapDataCall, MapSharedCall, FinaliseCall DEF build
  <1>3. CASE kom_smc_execute
    BY <1>3, ExecuteCall
  <1>4. CASE cleanup
    BY <1>4, CleanupCall
  <1>5. CASE exit
    BY <1>5, ExitInv
  <1>6. CASE others
    BY <1>6, OthersInv
  <1>7. CASE UNCHANGED driver_vars
    <2>1. Inv /\ Prepared /\ TestPasses /\ UNCHANGED <<vars, pc, r>>
      BY <1>7 DEF driver_vars, DriverInv
    <2>2. Unseen
      BY <2>1 DEF vars, Unseen, memory, world
    <2>3. Inv' /\ Prepared'
      BY <2>1, <2>2, NextInv, UnseenPrepared
    <2> QED
      BY <2>1, <2>3 DEF DriverInv, TestPasses
  <1> QED
    BY <1>1, <1>2, <1>3, <1>4, <1>5, <1>6, <1>7 DEF DriverNext, driver

LEMMA DriverStart == DriverInit => DriverInv
  <1> SUFFICES ASSUME DriverInit PROVE DriverInv
    OBVIOUS
  <1>1. Init /\ pc = "query" /\ r = "SUCCESS"
    BY DEF DriverInit
  <1>2. AtAddrspace /\ ~enclave_mode
    BY <1>1, DriverAssumption DEF Init, AtAddrspace, Free
  <1>3. Prepared
    BY <1>1, <1>2 DEF Prepared
  <1> QED
    BY <1>1, <1>3, InitInv DEF DriverInv, TestPasses

(* The inductive invariant holds for every run of test(), fair or not:     *)
(* before each call, the page database is in the state that the call's     *)
(* checks ask for.                                                         *)
THEOREM DriverInvariant == DriverSpec => []DriverInv
  BY DriverStart, DriverStep, PTL DEF DriverSpec

(* BUG_ON(r) in driver_init: whichever distinct pages pgalloc_alloc hands  *)
(* out, however often an interrupt makes kom_smc_execute resume, and       *)
(* whatever host and enclave do to the memory they can reach, no call of   *)
(* test() that builds, enters, resumes or stops the enclave is refused;    *)
(* only a fault of the enclave itself can make r differ from success.      *)
THEOREM TestAlwaysPasses == DriverSpec => []TestPasses
  <1>1. DriverInv => TestPasses
    BY DEF DriverInv
  <1> QED
    BY DriverInvariant, <1>1, PTL
=============================================================================
