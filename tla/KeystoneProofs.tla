--------------------------- MODULE KeystoneProofs ---------------------------
(***************************************************************************)
(* Proofs about Keystone, for any number of enclaves and any memory size.  *)
(***************************************************************************)
EXTENDS Keystone, TLAPS

(***************************************************************************)
(* The inductive invariant.  That an access hits the PMP entry it should   *)
(* rests on the regions being apart not only in bytes but in granules, and *)
(* so on their bounds being aligned.                                       *)
(***************************************************************************)
Aligned ==
  \A e \in Eid : /\ secure_lower[e] % 4 = 0 /\ secure_upper[e] % 4 = 0
                 /\ shared_lower[e] % 4 = 0 /\ shared_upper[e] % 4 = 0

Inv ==
  /\ TypeOK /\ Aligned /\ Regions /\ OneRunning /\ PmpMatches
  /\ Confined /\ ResumePoint

Bound == 0 .. MAX_PAYLOAD_SIZE

LEMMA Types ==
  TypeOK <=>
    /\ status \in [Eid -> {"FREE", "FRESH", "RUNNING", "IDLE"}]
    /\ secure_lower \in [Eid -> Bound] /\ secure_upper \in [Eid -> Bound]
    /\ shared_lower \in [Eid -> Bound] /\ shared_upper \in [Eid -> Bound]
    /\ encl_state \in [Eid -> Context]
    /\ enclave_mode \in BOOLEAN
    /\ current_enclave \in Int
    /\ host_state \in Context
    /\ payload \in [Granule -> Label \cup {Shared}]
    /\ ctx \in Context
    /\ scratch \in Label \cup {Shared}
    /\ pmp \in [Eid -> SUBSET Granule]
    /\ perm \in [Eid -> BOOLEAN]
    /\ last \in SUBSET Granule /\ tlb \in SUBSET Granule
    /\ halted \in BOOLEAN
  BY DEF TypeOK, Bound

LEMMA Labels ==
  /\ Public \in Label /\ Public \notin Eid /\ Shared \notin Eid /\ Shared # Public
  /\ Eid \subseteq Label /\ Eid \subseteq Int
  /\ \A v \in Label : v \in Eid \/ v = Public
  BY ParamAssumption DEF Label, Public, Shared, Eid

(* Register updates stay within Context.                                   *)
LEMMA ContextUpdates ==
  ASSUME NEW k \in Context, NEW v \in Label
  PROVE  /\ [k EXCEPT !.mepc = "ecall"] \in Context
         /\ [k EXCEPT !.mepc = "ecall"].regs = k.regs
         /\ [k EXCEPT !.mepc = "ecall"].csrs = k.csrs
         /\ [k EXCEPT !.mepc = "ecall"].mepc = "ecall"
         /\ past(k) \in Context
         /\ past(k).regs = k.regs
         /\ past(k).csrs = k.csrs
         /\ past(k).mepc = IF k.mepc = "ecall" THEN "after" ELSE "else"
         /\ [k EXCEPT !.regs = v, !.csrs = v] \in Context
         /\ [k EXCEPT !.regs = v, !.csrs = v].regs = v
         /\ [k EXCEPT !.regs = v, !.csrs = v].csrs = v
         /\ [k EXCEPT !.regs = v, !.csrs = v].mepc = k.mepc
         /\ [k EXCEPT !.regs = v, !.mepc = "entry"] \in Context
         /\ [k EXCEPT !.regs = v, !.mepc = "entry"].regs = v
         /\ [k EXCEPT !.regs = v, !.mepc = "entry"].csrs = k.csrs
         /\ [k EXCEPT !.regs = v, !.mepc = "entry"].mepc = "entry"
  BY Zenon DEF Context, past

-----------------------------------------------------------------------------
(* With aligned bounds the PMP covers a region exactly.                    *)
LEMMA AlignedRange ==
  ASSUME NEW lo \in Nat, NEW up \in Nat, lo % 4 = 0, up % 4 = 0
  PROVE  pmp_range(lo, up) = region(lo, up)
  <1>1. \A g \in Granule : g \in Int
    BY ParamAssumption DEF Granule
  <1>2. \A g \in Int : lo \div 4 <= g <=> lo < 4 * g + 4
    OBVIOUS
  <1>3. \A g \in Int : g < up \div 4 <=> 4 * g < up
    OBVIOUS
  <1> QED
    BY <1>1, <1>2, <1>3 DEF pmp_range, region

(* Aligned regions that share no byte share no granule.                    *)
LEMMA Apart ==
  ASSUME TypeOK, Aligned, Regions, NEW d \in Eid, NEW e \in Eid, d # e
  PROVE  secure(d) \cap secure(e) = {}
  <1>1. \A g \in Granule : g \in Int
    BY ParamAssumption DEF Granule
  <1>2. /\ secure_lower[d] \in Nat /\ secure_upper[d] \in Nat
        /\ secure_lower[e] \in Nat /\ secure_upper[e] \in Nat
        /\ secure_lower[d] % 4 = 0 /\ secure_lower[e] % 4 = 0
    BY Types, ParamAssumption DEF Aligned, Bound
  <1>3. \A lo, up \in Nat : \A g \in Int :
          lo % 4 = 0 /\ up <= lo => ~(lo < 4 * g + 4 /\ 4 * g < up)
    OBVIOUS
  <1>4. secure_upper[d] <= secure_lower[e] \/ secure_upper[e] <= secure_lower[d]
    BY DEF Regions
  <1> QED
    BY <1>1, <1>2, <1>3, <1>4 DEF secure, region

LEMMA FreeIsEmpty ==
  ASSUME Regions, NEW e \in Eid, status[e] = "FREE"
  PROVE  secure(e) = {}
  BY ParamAssumption DEF Regions, secure, region, Granule

(* What the monitor sets up means isolation.                               *)
LEMMA Reach ==
  ASSUME TypeOK, Aligned, Regions, OneRunning, PmpMatches
  PROVE  /\ Isolated
         /\ accessible = granted
  <1>1. accessible = granted
    BY DEF accessible, PmpMatches
  <1>2. ASSUME NEW e \in Eid, NEW g \in Granule, g \in granted, g \in secure(e)
        PROVE  enclave_mode /\ current_enclave = e
    <2>1. PICK d \in Eid : g \in pmp[d] /\ perm[d]
      BY <1>2 DEF granted, PmpMatches
    <2>2. g \in secure(d)
      BY <2>1 DEF PmpMatches
    <2>3. d = e
      BY <1>2, <2>2, Apart
    <2>4. status[d] # "FREE"
      BY <2>2, FreeIsEmpty
    <2> QED
      BY Zenon, <2>1, <2>3, <2>4 DEF PmpMatches, OneRunning
  <1>3. ASSUME enclave_mode, NEW g \in Granule, g \in granted
        PROVE  g \in secure(current_enclave) \cup shared(current_enclave)
    <2>1. CASE g \in last
      BY <1>3, <2>1 DEF PmpMatches
    <2>2. CASE g \notin last
      <3>1. PICK d \in Eid : g \in pmp[d]
        BY <1>3, <2>2 DEF granted
      <3>2. g \in secure(d)
        BY <3>1 DEF PmpMatches
      <3> QED
        BY <1>2, <1>3, <3>2
    <2> QED
      BY <2>1, <2>2
  <1>4. granted \subseteq Granule
    BY DEF granted
  <1> QED
    BY <1>1, <1>2, <1>3, <1>4 DEF Isolated

-----------------------------------------------------------------------------
(* Steps of host and enclaves between calls, and calls that are refused.   *)
KeepsTable == UNCHANGED <<table, enclave_mode, current_enclave, protection>>

LEMMA StructureKept ==
  ASSUME Inv, KeepsTable, tlb' \subseteq granted
  PROVE  /\ Aligned' /\ Regions' /\ OneRunning' /\ PmpMatches'
         /\ \A e \in Eid : secure(e)' = secure(e)
  <1>1. \A e \in Eid : secure(e)' = secure(e) /\ shared(e)' = shared(e)
    BY DEF KeepsTable, table, secure, shared
  <1>2. granted' = granted
    BY DEF KeepsTable, protection, granted
  <1>3. Aligned' /\ Regions' /\ OneRunning'
    BY DEF Inv, KeepsTable, table, Aligned, Regions, OneRunning
  <1>4. PmpMatches'
    BY <1>1, <1>2 DEF Inv, KeepsTable, table, protection, PmpMatches, OneRunning
  <1> QED
    BY <1>1, <1>3, <1>4

LEMMA QuietInv ==
  ASSUME Inv, KeepsTable, UNCHANGED <<host_state, encl_state>>,
         tlb' \subseteq granted, halted' \in BOOLEAN,
         payload' \in [Granule -> Label \cup {Shared}],
         \A g \in Granule : payload'[g] \in Eid => g \in secure(payload'[g]),
         ctx' \in Context, ctx'.mepc # "else", scratch' \in Label \cup {Shared},
         LET e == IF enclave_mode THEN current_enclave ELSE Public
         IN  /\ may_hold(e, ctx'.regs) /\ may_hold(e, ctx'.csrs)
             /\ scratch' # Shared => may_hold(e, scratch')
  PROVE  Inv'
  <1>1. /\ Aligned' /\ Regions' /\ OneRunning' /\ PmpMatches'
        /\ \A e \in Eid : secure(e)' = secure(e)
    BY StructureKept
  <1>2. tlb' \in SUBSET Granule
    BY DEF granted
  <1>3. TypeOK'
    BY <1>2 DEF Inv, TypeOK, KeepsTable, table, protection
  <1>4. Confined'
    BY <1>1 DEF Inv, Confined, KeepsTable, may_hold
  <1>5. ResumePoint'
    BY DEF Inv, ResumePoint, KeepsTable, table
  <1> QED
    BY <1>1, <1>3, <1>4, <1>5 DEF Inv

LEMMA RefusedInv ==
  ASSUME Inv, UNCHANGED <<table, world, payload, scratch, protection, tlb, halted>>,
         ctx' = past(trapped) \/ ctx' = trapped \/ ctx' = ctx
  PROVE  Inv'
  <1>1. KeepsTable /\ UNCHANGED <<host_state, encl_state>>
    BY DEF KeepsTable, world
  <1>2. tlb' \subseteq granted /\ halted' \in BOOLEAN /\ scratch' \in Label \cup {Shared}
    BY Types DEF Inv, PmpMatches
  <1>3. /\ payload' \in [Granule -> Label \cup {Shared}]
        /\ \A g \in Granule : payload'[g] \in Eid => g \in secure(payload'[g])
    BY Types DEF Inv, Confined
  <1>4. trapped \in Context /\ trapped.regs = ctx.regs /\ trapped.csrs = ctx.csrs
          /\ trapped.mepc = "ecall"
    BY Zenon, Types, Labels, ContextUpdates DEF Inv, trapped
  <1>5. /\ ctx' \in Context /\ ctx'.regs = ctx.regs /\ ctx'.csrs = ctx.csrs
        /\ ctx'.mepc # "else"
    <2>1. CASE ctx' = past(trapped)
      BY Zenon, <1>4, <2>1, Labels, ContextUpdates
    <2>2. CASE ctx' = trapped
      BY <1>4, <2>2
    <2>3. CASE ctx' = ctx
      BY <2>3, Types DEF Inv, ResumePoint
    <2> QED
      BY <2>1, <2>2, <2>3
  <1>6. LET e == IF enclave_mode THEN current_enclave ELSE Public
        IN  /\ may_hold(e, ctx'.regs) /\ may_hold(e, ctx'.csrs)
            /\ scratch' # Shared => may_hold(e, scratch')
    BY <1>5 DEF Inv, Confined
  <1> QED
    BY <1>1, <1>2, <1>3, <1>5, <1>6, QuietInv

LEMMA LoadInv == ASSUME Inv, load PROVE Inv'
  <1>1. PICK g \in accessible :
          ctx' = IF payload[g] \notin Eid THEN ctx
                 ELSE [ctx EXCEPT !.regs = payload[g], !.csrs = payload[g]]
    BY DEF load
  <1>2. Isolated /\ accessible = granted
    BY Reach DEF Inv
  <1>3. KeepsTable /\ UNCHANGED <<host_state, encl_state, payload, scratch, halted>>
          /\ tlb' = granted
    BY <1>2 DEF load, KeepsTable, world
  <1>4. /\ payload' \in [Granule -> Label \cup {Shared}] /\ halted' \in BOOLEAN
        /\ \A h \in Granule : payload'[h] \in Eid => h \in secure(payload'[h])
        /\ scratch' \in Label \cup {Shared}
    BY <1>3, Types DEF Inv, Confined
  <1>5. g \in Granule
    BY <1>2 DEF granted
  <1>6. /\ ctx' \in Context /\ ctx'.mepc # "else"
        /\ LET e == IF enclave_mode THEN current_enclave ELSE Public
           IN  /\ may_hold(e, ctx'.regs) /\ may_hold(e, ctx'.csrs)
               /\ scratch' # Shared => may_hold(e, scratch')
    <2>1. ctx \in Context /\ ctx.mepc # "else"
      BY Types DEF Inv, ResumePoint
    <2>2. CASE payload[g] \notin Eid
      BY <1>1, <1>3, <2>1, <2>2 DEF Inv, Confined
    <2>3. CASE payload[g] \in Eid
      <3>1. g \in secure(payload[g])
        BY <1>5, <2>3 DEF Inv, Confined
      <3>2. enclave_mode /\ current_enclave = payload[g]
        BY <1>2, <2>3, <3>1 DEF Isolated
      <3>3. payload[g] \in Label
        BY Zenon, <2>3, Labels
      <3>4. /\ ctx' \in Context /\ ctx'.regs = payload[g] /\ ctx'.csrs = payload[g]
            /\ ctx'.mepc = ctx.mepc
        BY ZenonT(30), <1>1, <2>1, <2>3, <3>3, ContextUpdates
      <3> QED
        BY <1>3, <2>1, <3>2, <3>4 DEF Inv, Confined, may_hold
    <2> QED
      BY <2>2, <2>3
  <1> QED
    BY <1>3, <1>4, <1>6, QuietInv

LEMMA StoreInv == ASSUME Inv, store PROVE Inv'
  <1>1. PICK g \in accessible :
          payload' = [payload EXCEPT ![g] =
            IF enclave_mode /\ g \notin secure(current_enclave) THEN Shared ELSE ctx.regs]
    BY Zenon DEF store
  <1>2. Isolated /\ accessible = granted
    BY Reach DEF Inv
  <1>3. KeepsTable /\ UNCHANGED <<host_state, encl_state, ctx, scratch, halted>>
          /\ tlb' = granted
    BY <1>2 DEF store, KeepsTable, world
  <1>4. /\ ctx \in Context /\ ctx.regs \in Label /\ ctx.mepc # "else"
        /\ halted' \in BOOLEAN /\ scratch' \in Label \cup {Shared}
    BY <1>3, Types DEF Inv, ResumePoint, Context
  <1>5. payload' \in [Granule -> Label \cup {Shared}]
    BY Zenon, <1>1, <1>4, Types DEF Inv
  <1>6. ASSUME NEW h \in Granule, payload'[h] \in Eid
        PROVE  h \in secure(payload'[h])
    <2>1. CASE h # g
      BY <1>1, <1>6, <2>1, Types DEF Inv, Confined
    <2>2. CASE h = g
      <3>1. payload'[g] = IF enclave_mode /\ g \notin secure(current_enclave)
                          THEN Shared ELSE ctx.regs
        BY <1>1, <1>6, <2>2, Types DEF Inv
      <3>2. /\ ctx.regs \in Eid /\ payload'[g] = ctx.regs
            /\ ~(enclave_mode /\ g \notin secure(current_enclave))
        BY <1>6, <2>2, <3>1, Labels
      <3>3. enclave_mode /\ ctx.regs = current_enclave
        BY <3>2, Labels DEF Inv, Confined, may_hold
      <3> QED
        BY <2>2, <3>2, <3>3
    <2> QED
      BY <2>1, <2>2
  <1>7. LET e == IF enclave_mode THEN current_enclave ELSE Public
        IN  /\ may_hold(e, ctx'.regs) /\ may_hold(e, ctx'.csrs)
            /\ scratch' # Shared => may_hold(e, scratch')
    BY <1>3 DEF Inv, Confined
  <1> QED
    BY <1>3, <1>4, <1>5, <1>6, <1>7, QuietInv

LEMMA ComputeInv == ASSUME Inv, compute PROVE Inv'
  <1>1. KeepsTable /\ UNCHANGED <<host_state, encl_state, payload, scratch, halted, tlb>>
    BY DEF compute, KeepsTable, world
  <1>2. /\ payload' \in [Granule -> Label \cup {Shared}] /\ halted' \in BOOLEAN
        /\ \A h \in Granule : payload'[h] \in Eid => h \in secure(payload'[h])
        /\ tlb' \subseteq granted /\ scratch' \in Label \cup {Shared}
    BY <1>1, Types DEF Inv, Confined, PmpMatches
  <1>3. enclave_mode
    BY DEF compute
  <1>4. ctx \in Context /\ ctx.mepc # "else"
    BY Types DEF Inv, ResumePoint
  <1>5. /\ ctx' \in Context /\ ctx'.mepc = ctx.mepc
        /\ ctx'.regs = current_enclave /\ ctx'.csrs = current_enclave
    <2>1. ctx' = [ctx EXCEPT !.regs = current_enclave, !.csrs = current_enclave]
      BY DEF compute
    <2>2. current_enclave \in Label
      BY Zenon, <1>3, Labels DEF Inv, OneRunning
    <2> DEFINE v == current_enclave
    <2>3. /\ [ctx EXCEPT !.regs = v, !.csrs = v] \in Context
          /\ [ctx EXCEPT !.regs = v, !.csrs = v].regs = v
          /\ [ctx EXCEPT !.regs = v, !.csrs = v].csrs = v
          /\ [ctx EXCEPT !.regs = v, !.csrs = v].mepc = ctx.mepc
      BY ZenonT(30), <1>4, <2>2, ContextUpdates
    <2> QED
      BY <2>1, <2>3
  <1>6. LET e == IF enclave_mode THEN current_enclave ELSE Public
        IN  /\ may_hold(e, ctx'.regs) /\ may_hold(e, ctx'.csrs)
            /\ scratch' # Shared => may_hold(e, scratch')
    BY <1>1, <1>3, <1>5 DEF Inv, Confined, may_hold
  <1> QED
    BY <1>1, <1>2, <1>4, <1>5, <1>6, QuietInv

LEMMA CsrReadInv == ASSUME Inv, csr_read PROVE Inv'
  <1>1. KeepsTable /\ UNCHANGED <<host_state, encl_state, payload, scratch, halted, tlb>>
    BY DEF csr_read, KeepsTable, world
  <1>2. /\ payload' \in [Granule -> Label \cup {Shared}] /\ halted' \in BOOLEAN
        /\ \A h \in Granule : payload'[h] \in Eid => h \in secure(payload'[h])
        /\ tlb' \subseteq granted /\ scratch' \in Label \cup {Shared}
    BY <1>1, Types DEF Inv, Confined, PmpMatches
  <1>3. enclave_mode /\ scratch = current_enclave
    BY Labels DEF csr_read, Inv, Confined, may_hold
  <1>4. ctx \in Context /\ ctx.mepc # "else"
    BY Types DEF Inv, ResumePoint
  <1>5. /\ ctx' \in Context /\ ctx'.mepc = ctx.mepc
        /\ ctx'.regs = scratch /\ ctx'.csrs = scratch
    <2>1. ctx' = [ctx EXCEPT !.regs = scratch, !.csrs = scratch]
      BY DEF csr_read
    <2>2. scratch \in Label
      BY Zenon, Labels DEF csr_read
    <2> DEFINE v == scratch
    <2>3. /\ [ctx EXCEPT !.regs = v, !.csrs = v] \in Context
          /\ [ctx EXCEPT !.regs = v, !.csrs = v].regs = v
          /\ [ctx EXCEPT !.regs = v, !.csrs = v].csrs = v
          /\ [ctx EXCEPT !.regs = v, !.csrs = v].mepc = ctx.mepc
      BY ZenonT(30), <1>4, <2>2, ContextUpdates
    <2> QED
      BY <2>1, <2>3
  <1>6. LET e == IF enclave_mode THEN current_enclave ELSE Public
        IN  /\ may_hold(e, ctx'.regs) /\ may_hold(e, ctx'.csrs)
            /\ scratch' # Shared => may_hold(e, scratch')
    BY <1>1, <1>3, <1>5 DEF may_hold
  <1> QED
    BY <1>1, <1>2, <1>4, <1>5, <1>6, QuietInv

LEMMA CsrWriteInv == ASSUME Inv, csr_write PROVE Inv'
  <1>1. KeepsTable /\ UNCHANGED <<host_state, encl_state, payload, ctx, halted, tlb>>
    BY DEF csr_write, KeepsTable, world
  <1>2. /\ payload' \in [Granule -> Label \cup {Shared}] /\ halted' \in BOOLEAN
        /\ \A h \in Granule : payload'[h] \in Eid => h \in secure(payload'[h])
        /\ tlb' \subseteq granted
    BY <1>1, Types DEF Inv, Confined, PmpMatches
  <1>3. ctx' \in Context /\ ctx'.mepc # "else"
    BY <1>1, Types DEF Inv, ResumePoint
  <1>4. scratch' \in Label
    BY Types, Labels DEF csr_write, Inv, Context
  <1>5. LET e == IF enclave_mode THEN current_enclave ELSE Public
        IN  /\ may_hold(e, ctx'.regs) /\ may_hold(e, ctx'.csrs)
            /\ scratch' # Shared => may_hold(e, scratch')
    BY <1>1 DEF csr_write, Inv, Confined, may_hold
  <1> QED
    BY <1>1, <1>2, <1>3, <1>4, <1>5, QuietInv

-----------------------------------------------------------------------------
(* Calls that change the table of enclaves.  Wherever the PMP registers    *)
(* follow the table and the TLB is flushed, the PMP matches again.         *)
LEMMA CreateInv ==
  ASSUME Inv, NEW eid \in Nat, NEW slo \in Nat, NEW sup \in Nat, NEW lo \in Nat,
         NEW up \in Nat, sys_create_enclave(eid, slo, sup, lo, up)
  PROVE  Inv'
  <1>1. CASE create_err(eid, slo, sup, lo, up) # "SUCCESS"
    BY <1>1, RefusedInv DEF sys_create_enclave, refused
  <1>2. CASE create_err(eid, slo, sup, lo, up) = "SUCCESS"
    <2>1. /\ ~enclave_mode /\ eid \in Eid /\ status[eid] = "FREE"
          /\ is_region_valid(slo, sup) /\ is_region_valid(lo, up)
          /\ ~is_region_overlap(slo, sup)
      BY <1>2, ParamAssumption DEF create_err, eid_is_valid, Eid
    <2>2. /\ status' = [status EXCEPT ![eid] = "FRESH"]
          /\ secure_lower' = [secure_lower EXCEPT ![eid] = slo]
          /\ secure_upper' = [secure_upper EXCEPT ![eid] = sup]
          /\ shared_lower' = [shared_lower EXCEPT ![eid] = lo]
          /\ shared_upper' = [shared_upper EXCEPT ![eid] = up]
          /\ perm' = [perm EXCEPT ![eid] = FALSE]
          /\ pmp' = [pmp EXCEPT ![eid] = pmp_range(slo, sup)]
          /\ tlb' = {}
          /\ ctx' = past(trapped)
          /\ UNCHANGED <<enclave_mode, current_enclave, host_state, encl_state,
                         payload, scratch, last, halted>>
      BY <1>2 DEF sys_create_enclave, chmod_pmp_region, remap_pmp_region,
                  local_flush_tlb_all, world
    <2>3. /\ slo \in Bound /\ sup \in Bound /\ lo \in Bound /\ up \in Bound
          /\ slo % 4 = 0 /\ sup % 4 = 0 /\ lo % 4 = 0 /\ up % 4 = 0 /\ slo < sup
      BY <2>1, ParamAssumption DEF is_region_valid, Bound
    <2>4. pmp_range(slo, sup) = region(slo, sup)
      BY <2>3, AlignedRange
    <2>5. /\ ctx' \in Context /\ ctx'.regs = ctx.regs /\ ctx'.csrs = ctx.csrs
          /\ ctx'.mepc = "after"
      <3>1. trapped \in Context /\ trapped.regs = ctx.regs /\ trapped.csrs = ctx.csrs
              /\ trapped.mepc = "ecall"
        BY Zenon, Types, Labels, ContextUpdates DEF Inv, trapped
      <3> QED
        BY Zenon, <2>2, <3>1, Labels, ContextUpdates
    <2>6. TypeOK'
      <3>1. pmp_range(slo, sup) \in SUBSET Granule
        BY DEF pmp_range
      <3>2. /\ secure_lower' \in [Eid -> Bound] /\ secure_upper' \in [Eid -> Bound]
            /\ shared_lower' \in [Eid -> Bound] /\ shared_upper' \in [Eid -> Bound]
        BY <2>1, <2>2, <2>3, Types DEF Inv
      <3>3. status' \in [Eid -> {"FREE", "FRESH", "RUNNING", "IDLE"}]
        BY Zenon, <2>2, Types DEF Inv
      <3>4. pmp' \in [Eid -> SUBSET Granule] /\ perm' \in [Eid -> BOOLEAN]
        BY Zenon, <2>2, <3>1, Types DEF Inv
      <3> QED
        BY <2>2, <2>5, <3>2, <3>3, <3>4, Types DEF Inv, TypeOK, Bound
    <2>7. /\ secure(eid)' = region(slo, sup)
          /\ \A e \in Eid \ {eid} : secure(e)' = secure(e)
      BY <2>1, <2>2, Types DEF Inv, secure
    <2>8. Aligned'
      BY <2>1, <2>2, <2>3, Types DEF Inv, Aligned
    <2>9. Regions'
      <3>1. \A e \in Eid : secure_upper[e] <= slo \/ sup <= secure_lower[e]
        <4>1. \A e \in Eid : secure_upper[e] \in Int /\ secure_lower[e] \in Int
          BY Types DEF Inv, Bound
        <4> QED
          BY <2>1, <4>1 DEF is_region_overlap
      <3>2. \A e \in Eid : /\ secure_lower'[e] = IF e = eid THEN slo ELSE secure_lower[e]
                           /\ secure_upper'[e] = IF e = eid THEN sup ELSE secure_upper[e]
                           /\ status'[e] = IF e = eid THEN "FRESH" ELSE status[e]
        BY <2>2, Types DEF Inv
      <3> QED
        BY <2>3, <3>1, <3>2 DEF Inv, Regions
    <2>10. OneRunning'
      BY <2>1, <2>2, Types DEF Inv, OneRunning
    <2>11. PmpMatches'
      <3>1. \A e \in Eid : pmp'[e] = secure(e)'
        BY <2>1, <2>2, <2>4, <2>7, Types DEF Inv, PmpMatches
      <3>2. \A e \in Eid : status'[e] # "FREE" => perm'[e] = (status'[e] = "RUNNING")
        BY Zenon, <2>1, <2>2, Types DEF Inv, PmpMatches
      <3> QED
        BY Zenon, <2>1, <2>2, <3>1, <3>2 DEF Inv, PmpMatches
    <2>12. Confined'
      <3>1. secure(eid) = {}
        BY <2>1, FreeIsEmpty DEF Inv
      <3>2. \A g \in Granule : (payload[g] \in Eid => g \in secure(payload[g]))'
        <4>1. SUFFICES ASSUME NEW g \in Granule, payload[g] \in Eid
                       PROVE  payload[g] # eid /\ g \in secure(payload[g])
          BY <2>2, <2>7 DEF secure
        <4>2. g \in secure(payload[g])
          BY <4>1 DEF Inv, Confined
        <4> QED
          BY <3>1, <4>2
      <3> QED
        BY <2>1, <2>2, <2>5, <3>2 DEF Inv, Confined, secure
    <2>13. ResumePoint'
      BY <2>1, <2>2, <2>5, Types DEF Inv, ResumePoint
    <2> QED
      BY <2>6, <2>8, <2>9, <2>10, <2>11, <2>12, <2>13 DEF Inv
  <1> QED
    BY <1>1, <1>2

LEMMA DestroyInv ==
  ASSUME Inv, NEW eid \in Nat, sys_destroy_enclave(eid)
  PROVE  Inv'
  <1>1. CASE stopped_err(eid) # "SUCCESS"
    BY <1>1, RefusedInv DEF sys_destroy_enclave, refused
  <1>2. CASE stopped_err(eid) = "SUCCESS"
    <2>1. ~enclave_mode /\ eid \in Eid
      BY <1>2, ParamAssumption DEF stopped_err, eid_is_valid, Eid
    <2>2. /\ payload' = [g \in Granule |-> IF g \in secure(eid) THEN Public ELSE payload[g]]
          /\ status' = [status EXCEPT ![eid] = "FREE"]
          /\ secure_lower' = [secure_lower EXCEPT ![eid] = 0]
          /\ secure_upper' = [secure_upper EXCEPT ![eid] = 0]
          /\ pmp' = [pmp EXCEPT ![eid] = {}]
          /\ tlb' = {}
          /\ ctx' = past(trapped)
          /\ UNCHANGED <<enclave_mode, current_enclave, host_state, encl_state,
                         shared_lower, shared_upper, scratch, perm, last, halted>>
      BY <1>2 DEF sys_destroy_enclave, wipe, free_pmp_region, local_flush_tlb_all, world
    <2>3. /\ ctx' \in Context /\ ctx'.regs = ctx.regs /\ ctx'.csrs = ctx.csrs
          /\ ctx'.mepc = "after"
      <3>1. trapped \in Context /\ trapped.regs = ctx.regs /\ trapped.csrs = ctx.csrs
              /\ trapped.mepc = "ecall"
        BY Zenon, Types, Labels, ContextUpdates DEF Inv, trapped
      <3> QED
        BY Zenon, <2>2, <3>1, Labels, ContextUpdates
    <2>4. \A e \in Eid : /\ secure_lower'[e] = IF e = eid THEN 0 ELSE secure_lower[e]
                         /\ secure_upper'[e] = IF e = eid THEN 0 ELSE secure_upper[e]
                         /\ status'[e] = IF e = eid THEN "FREE" ELSE status[e]
                         /\ pmp'[e] = IF e = eid THEN {} ELSE pmp[e]
      BY <2>2, Types DEF Inv
    <2>5. TypeOK'
      <3>1. payload' \in [Granule -> Label \cup {Shared}]
        BY <2>2, Types, Labels DEF Inv
      <3>2. secure_lower' \in [Eid -> Bound] /\ secure_upper' \in [Eid -> Bound]
        <4>1. 0 \in Bound
          BY ParamAssumption DEF Bound
        <4> QED
          BY Zenon, <2>2, <4>1, Types DEF Inv
      <3>3. /\ status' \in [Eid -> {"FREE", "FRESH", "RUNNING", "IDLE"}]
            /\ pmp' \in [Eid -> SUBSET Granule]
        BY Zenon, <2>2, Types DEF Inv
      <3> QED
        BY <2>2, <2>3, <3>1, <3>2, <3>3, Types DEF Inv, TypeOK, Bound
    <2>6. /\ secure(eid)' = {}
          /\ \A e \in Eid \ {eid} : secure(e)' = secure(e)
      <3>1. region(0, 0) = {}
        BY ParamAssumption DEF region, Granule
      <3> QED
        BY Zenon, <2>1, <2>4, <3>1 DEF secure
    <2>7. Aligned'
      BY <2>2, <2>4 DEF Inv, Aligned
    <2>8. Regions'
      <3>1. \A e \in Eid : secure_upper[e] >= 0 /\ secure_lower[e] >= 0
        BY Types DEF Inv, Bound
      <3> QED
        BY <2>4, <3>1 DEF Inv, Regions
    <2>9. OneRunning'
      BY <2>1, <2>2, <2>4 DEF Inv, OneRunning
    <2>10. PmpMatches'
      <3>1. \A e \in Eid : pmp'[e] = secure(e)'
        BY <2>1, <2>4, <2>6 DEF Inv, PmpMatches
      <3>2. \A e \in Eid : status'[e] # "FREE" => perm'[e] = (status'[e] = "RUNNING")
        BY <2>2, <2>4 DEF Inv, PmpMatches
      <3> QED
        BY <2>1, <2>2, <3>1, <3>2 DEF Inv, PmpMatches
    <2>11. Confined'
      <3>1. \A g \in Granule : (payload[g] \in Eid => g \in secure(payload[g]))'
        <4>1. SUFFICES ASSUME NEW g \in Granule, payload'[g] \in Eid
                       PROVE  (g \in secure(payload[g]))'
          OBVIOUS
        <4>2. payload'[g] = payload[g] /\ g \notin secure(eid)
          BY <2>2, <4>1, Labels
        <4>3. g \in secure(payload[g]) /\ payload[g] # eid
          BY <4>1, <4>2 DEF Inv, Confined
        <4> QED
          BY <2>6, <4>1, <4>2, <4>3 DEF secure
      <3> QED
        BY <2>1, <2>2, <2>3, <3>1 DEF Inv, Confined, secure
    <2>12. ResumePoint'
      BY <2>1, <2>2, <2>3, <2>4 DEF Inv, ResumePoint
    <2> QED
      BY <2>5, <2>7, <2>8, <2>9, <2>10, <2>11, <2>12 DEF Inv
  <1> QED
    BY <1>1, <1>2

(* Into an enclave, with whatever context the call has prepared for it.    *)
LEMMA EnterInv ==
  ASSUME Inv, NEW eid \in Eid, ~enclave_mode, status[eid] # "FREE", enter(eid),
         encl_state' \in [Eid -> Context],
         \A e \in Eid \ {eid} : encl_state'[e] = encl_state[e],
         may_hold(eid, encl_state'[eid].regs), may_hold(eid, encl_state'[eid].csrs),
         ctx' \in Context, ctx'.mepc # "else",
         may_hold(eid, ctx'.regs), may_hold(eid, ctx'.csrs)
  PROVE  Inv'
  <1>1. /\ enclave_mode' = TRUE /\ current_enclave' = eid
        /\ status' = [status EXCEPT ![eid] = "RUNNING"]
        /\ host_state' = trapped
        /\ perm' = [perm EXCEPT ![eid] = TRUE]
        /\ last' = pmp_range(shared_lower[eid], shared_upper[eid])
        /\ tlb' = {}
        /\ UNCHANGED <<secure_lower, secure_upper, shared_lower, shared_upper, payload,
                       scratch, pmp, halted>>
    BY DEF enter, chmod_pmp_region, remap_shared_region, local_flush_tlb_all
  <1>2. /\ host_state' \in Context /\ host_state'.regs = ctx.regs
        /\ host_state'.csrs = ctx.csrs /\ host_state'.mepc = "ecall"
    BY Zenon, <1>1, Types, Labels, ContextUpdates DEF Inv, trapped
  <1>3. ctx.regs = Public /\ ctx.csrs = Public /\ scratch \in {Public, Shared}
    BY DEF Inv, Confined, may_hold
  <1>4. \A e \in Eid : secure(e)' = secure(e) /\ shared(e)' = shared(e)
    BY Zenon, <1>1 DEF secure, shared
  <1>5. last' = shared(eid)
    <2>1. /\ shared_lower[eid] \in Nat /\ shared_upper[eid] \in Nat
          /\ shared_lower[eid] % 4 = 0 /\ shared_upper[eid] % 4 = 0
      BY Types, ParamAssumption DEF Inv, Aligned, Bound
    <2> QED
      BY <1>1, <2>1, AlignedRange DEF shared
  <1>6. \A e \in Eid : /\ status'[e] = IF e = eid THEN "RUNNING" ELSE status[e]
                       /\ perm'[e] = IF e = eid THEN TRUE ELSE perm[e]
    BY Zenon, <1>1, Types DEF Inv
  <1>7. \A e \in Eid \ {eid} : status[e] # "RUNNING"
    BY DEF Inv, OneRunning
  <1>8. TypeOK'
    <2>1. last' \in SUBSET Granule
      BY <1>5 DEF shared, region
    <2>2. status' \in [Eid -> {"FREE", "FRESH", "RUNNING", "IDLE"}]
      BY <1>1, Types DEF Inv
    <2>3. perm' \in [Eid -> BOOLEAN]
      BY <1>1, Types DEF Inv
    <2>4. current_enclave' \in Int
      BY <1>1, Labels
    <2> QED
      BY <1>1, <1>2, <2>1, <2>2, <2>3, <2>4 DEF Inv, TypeOK
  <1>9. Aligned' /\ Regions'
    <2>1. Aligned'
      BY Zenon, <1>1 DEF Inv, Aligned
    <2>2. \A e \in Eid : status'[e] = "FREE" <=> status[e] = "FREE"
      BY Zenon, <1>6
    <2>3. Regions
      BY DEF Inv
    <2> QED
      BY Zenon, <1>1, <2>1, <2>2, <2>3 DEF Regions
  <1>10. OneRunning'
    BY Zenon, <1>1, <1>6, <1>7 DEF OneRunning
  <1>11. PmpMatches'
    <2>1. \A e \in Eid : pmp'[e] = secure(e)'
      BY <1>1, <1>4 DEF Inv, PmpMatches
    <2>2. \A e \in Eid : status'[e] # "FREE" => perm'[e] = (status'[e] = "RUNNING")
      BY Zenon, <1>6 DEF Inv, PmpMatches
    <2>3. last' = shared(current_enclave)'
      BY <1>1, <1>4, <1>5 DEF shared
    <2> QED
      BY Zenon, <1>1, <2>1, <2>2, <2>3 DEF PmpMatches
  <1>12. Confined'
    <2>1. \A g \in Granule : (payload[g] \in Eid => g \in secure(payload[g]))'
      BY <1>1 DEF Inv, Confined, secure
    <2>2. \A e \in Eid : may_hold(e, encl_state'[e].regs) /\ may_hold(e, encl_state'[e].csrs)
      BY DEF Inv, Confined
    <2> QED
      BY <1>1, <1>2, <1>3, <2>1, <2>2 DEF Confined, may_hold, secure
  <1>13. ResumePoint'
    BY Zenon, <1>2, <1>6 DEF Inv, ResumePoint
  <1> QED
    BY <1>8, <1>9, <1>10, <1>11, <1>12, <1>13 DEF Inv

LEMMA ResumeInv ==
  ASSUME Inv, NEW eid \in Nat, sys_resume_enclave(eid)
  PROVE  Inv'
  <1>1. CASE resume_err(eid) # "SUCCESS"
    BY <1>1, RefusedInv DEF sys_resume_enclave, refused
  <1>2. CASE resume_err(eid) = "SUCCESS"
    <2>1. ~enclave_mode /\ eid \in Eid /\ status[eid] = "IDLE"
      BY <1>2, ParamAssumption DEF resume_err, eid_is_valid, Eid
    <2>2. enter(eid) /\ ctx' = past(encl_state[eid]) /\ encl_state' = encl_state
      BY <1>2 DEF sys_resume_enclave
    <2>3. encl_state[eid] \in Context /\ encl_state[eid].mepc = "ecall"
      BY <2>1, Types DEF Inv, ResumePoint
    <2>4. /\ ctx' \in Context /\ ctx'.mepc = "after"
          /\ ctx'.regs = encl_state[eid].regs /\ ctx'.csrs = encl_state[eid].csrs
      BY Zenon, <2>2, <2>3, Labels, ContextUpdates
    <2>5. may_hold(eid, encl_state[eid].regs) /\ may_hold(eid, encl_state[eid].csrs)
      BY <2>1 DEF Inv, Confined
    <2>6. encl_state' \in [Eid -> Context]
      BY <2>2, Types DEF Inv
    <2> QED
      BY <2>1, <2>2, <2>4, <2>5, <2>6, EnterInv
  <1> QED
    BY <1>1, <1>2

LEMMA RunInv ==
  ASSUME Inv, NEW eid \in Nat, sys_run_enclave(eid)
  PROVE  Inv'
  <1>1. CASE stopped_err(eid) # "SUCCESS"
    BY <1>1, RefusedInv DEF sys_run_enclave
  <1>2. CASE stopped_err(eid) = "SUCCESS"
    <2>1. ~enclave_mode /\ eid \in Eid /\ status[eid] # "FREE"
      BY <1>2, ParamAssumption DEF stopped_err, eid_is_valid, Eid
    <2> DEFINE k == [encl_state[eid] EXCEPT !.regs = Public, !.mepc = "entry"]
    <2>2. encl_state[eid] \in Context
      BY <2>1, Types DEF Inv
    <2>3. k \in Context /\ k.regs = Public /\ k.csrs = encl_state[eid].csrs /\ k.mepc = "entry"
      <3>1. Public \in Label
        BY Labels
      <3>2. /\ [encl_state[eid] EXCEPT !.regs = Public, !.mepc = "entry"] \in Context
            /\ [encl_state[eid] EXCEPT !.regs = Public, !.mepc = "entry"].regs = Public
            /\ [encl_state[eid] EXCEPT !.regs = Public, !.mepc = "entry"].csrs
                 = encl_state[eid].csrs
            /\ [encl_state[eid] EXCEPT !.regs = Public, !.mepc = "entry"].mepc = "entry"
        BY Zenon, <2>2, <3>1 DEF Context
      <3> QED
        BY <3>2
    <2>4. encl_state' = [encl_state EXCEPT ![eid] = k]
      BY <1>2, <2>1, Types DEF Inv, sys_run_enclave
    <2>5. enter(eid) /\ ctx' = encl_state'[eid]
      BY <1>2 DEF sys_run_enclave
    <2> HIDE DEF k
    <2>6. /\ encl_state' \in [Eid -> Context]
          /\ \A e \in Eid \ {eid} : encl_state'[e] = encl_state[e]
          /\ encl_state'[eid] = k
      BY <2>1, <2>3, <2>4, Types DEF Inv
    <2>7. may_hold(eid, k.regs) /\ may_hold(eid, k.csrs)
      BY <2>1, <2>3 DEF Inv, Confined, may_hold
    <2> QED
      BY Zenon, <2>1, <2>3, <2>5, <2>6, <2>7, EnterInv
  <1> QED
    BY <1>1, <1>2

LEMMA ExitInv ==
  ASSUME Inv, sys_exit_enclave
  PROVE  Inv'
  <1>1. CASE ~enclave_mode
    BY <1>1, RefusedInv DEF sys_exit_enclave, refused
  <1>2. CASE enclave_mode
    <2>1. PICK eid \in Eid : eid = current_enclave /\ status[eid] = "RUNNING"
      BY <1>2 DEF Inv, OneRunning
    <2>2. /\ ~enclave_mode' /\ enclave_mode' \in BOOLEAN /\ current_enclave' = -1
          /\ status' = [status EXCEPT ![eid] = "IDLE"]
          /\ encl_state' = [encl_state EXCEPT ![eid] = trapped]
          /\ ctx' = past(host_state)
          /\ perm' = [perm EXCEPT ![eid] = FALSE]
          /\ last' = Granule /\ tlb' = {}
          /\ UNCHANGED <<secure_lower, secure_upper, shared_lower, shared_upper,
                         host_state, payload, pmp, halted>>
      BY <1>2, <2>1 DEF sys_exit_enclave, refused, exit_perm, chmod_pmp_region,
                  remap_os_region, local_flush_tlb_all
    <2>2a. scratch' \in {Public, Shared}
      BY <1>2 DEF sys_exit_enclave, leave_scratch, Inv, Confined, may_hold
    <2>3. trapped \in Context /\ trapped.regs = ctx.regs /\ trapped.csrs = ctx.csrs
            /\ trapped.mepc = "ecall"
      BY Zenon, Types, Labels, ContextUpdates DEF Inv, trapped
    <2>4. host_state \in Context /\ host_state.mepc = "ecall"
      BY <1>2, Types DEF Inv, ResumePoint
    <2>5. /\ ctx' \in Context /\ ctx'.mepc = "after"
          /\ ctx'.regs = Public /\ ctx'.csrs = Public
      <3>1. host_state.regs = Public /\ host_state.csrs = Public
        BY DEF Inv, Confined
      <3> QED
        BY Zenon, <2>2, <2>4, <3>1, Labels, ContextUpdates
    <2>6. \A e \in Eid : /\ status'[e] = IF e = eid THEN "IDLE" ELSE status[e]
                         /\ perm'[e] = IF e = eid THEN FALSE ELSE perm[e]
                         /\ encl_state'[e] = IF e = eid THEN trapped ELSE encl_state[e]
      BY <2>2, Types DEF Inv
    <2>7. TypeOK'
      <3>1. encl_state' \in [Eid -> Context]
        BY <2>2, <2>3, Types DEF Inv
      <3>2. status' \in [Eid -> {"FREE", "FRESH", "RUNNING", "IDLE"}]
        BY <2>2, Types DEF Inv
      <3>3. perm' \in [Eid -> BOOLEAN]
        BY <2>2, Types DEF Inv
      <3>4. UNCHANGED <<secure_lower, secure_upper, shared_lower, shared_upper>>
        BY <2>2
      <3>5. current_enclave' \in Int /\ last' \in SUBSET Granule /\ tlb' \in SUBSET Granule
        BY <2>2
      <3>6. scratch' \in Label \cup {Shared}
        BY <2>2a, Labels
      <3> QED
        BY <2>2, <2>5, <3>1, <3>2, <3>3, <3>4, <3>5, <3>6 DEF Inv, TypeOK
    <2>8. Aligned' /\ Regions'
      BY <2>1, <2>2, <2>6 DEF Inv, Aligned, Regions
    <2>9. OneRunning'
      <3>1. \A e \in Eid : status[e] = "RUNNING" => e = eid
        BY <2>1 DEF Inv, OneRunning
      <3>2. \A e \in Eid : status'[e] # "RUNNING"
        BY Zenon, <2>6, <3>1
      <3> QED
        BY <2>2, <3>2 DEF OneRunning
    <2>10. PmpMatches'
      <3>1. \A e \in Eid : pmp'[e] = secure(e)'
        BY <2>2 DEF Inv, PmpMatches, secure
      <3>2. \A e \in Eid : status'[e] # "FREE" => perm'[e] = (status'[e] = "RUNNING")
        BY Zenon, <2>6 DEF Inv, PmpMatches
      <3> QED
        BY Zenon, <2>2, <3>1, <3>2 DEF PmpMatches
    <2>11. Confined'
      <3>1. \A g \in Granule : (payload[g] \in Eid => g \in secure(payload[g]))'
        BY <2>2 DEF Inv, Confined, secure
      <3>2. \A e \in Eid : may_hold(e, encl_state'[e].regs) /\ may_hold(e, encl_state'[e].csrs)
        BY Zenon, <1>2, <2>1, <2>3, <2>6 DEF Inv, Confined
      <3> QED
        BY <2>2, <2>2a, <2>5, <3>1, <3>2 DEF Inv, Confined, may_hold, secure
    <2>12. ResumePoint'
      <3>1. \A e \in Eid : status'[e] = "IDLE" => encl_state'[e].mepc = "ecall"
        BY Zenon, <2>3, <2>6 DEF Inv, ResumePoint
      <3> QED
        BY <2>2, <2>5, <3>1 DEF ResumePoint
    <2> QED
      BY <2>7, <2>8, <2>9, <2>10, <2>11, <2>12 DEF Inv
  <1> QED
    BY <1>1, <1>2

-----------------------------------------------------------------------------
LEMMA InitInv == Init => Inv
  <1> SUFFICES ASSUME Init PROVE Inv
    OBVIOUS
  <1>1. /\ Null \in Context /\ Null.regs = Public /\ Null.csrs = Public
        /\ ctx \in Context /\ ctx.regs = Public /\ ctx.csrs = Public /\ ctx.mepc = "entry"
        /\ scratch = Public /\ scratch \in Label \cup {Shared}
    BY Labels DEF Init, Null, Context
  <1>2. TypeOK
    <2>1. 0 \in Bound
      BY ParamAssumption DEF Bound
    <2>2. /\ secure_lower \in [Eid -> Bound] /\ secure_upper \in [Eid -> Bound]
          /\ shared_lower \in [Eid -> Bound] /\ shared_upper \in [Eid -> Bound]
      BY <2>1 DEF Init
    <2>3. payload \in [Granule -> Label \cup {Shared}]
      BY Labels DEF Init
    <2>4. /\ pmp \in [Eid -> SUBSET Granule] /\ current_enclave \in Int
          /\ last \in SUBSET Granule /\ tlb \in SUBSET Granule
          /\ status \in [Eid -> {"FREE", "FRESH", "RUNNING", "IDLE"}]
      BY DEF Init
    <2>5. halted \in BOOLEAN /\ enclave_mode \in BOOLEAN /\ perm \in [Eid -> BOOLEAN]
      BY Zenon DEF Init
    <2>6. encl_state \in [Eid -> Context] /\ host_state \in Context
      BY <1>1 DEF Init
    <2> QED
      BY <1>1, <2>2, <2>3, <2>4, <2>5, <2>6, Types
  <1>3. Aligned /\ Regions /\ OneRunning
    BY DEF Init, Aligned, Regions, OneRunning
  <1>4. PmpMatches
    <2>1. region(0, 0) = {}
      BY ParamAssumption DEF region, Granule
    <2> QED
      BY <2>1 DEF Init, PmpMatches, secure
  <1>5. Confined
    BY <1>1, Labels DEF Init, Confined, may_hold
  <1>6. ResumePoint
    BY <1>1 DEF Init, ResumePoint
  <1> QED
    BY <1>2, <1>3, <1>4, <1>5, <1>6 DEF Inv

LEMMA NextInv == Inv /\ [Next]_vars => Inv'
  <1> SUFFICES ASSUME Inv, [Next]_vars PROVE Inv'
    OBVIOUS
  <1>1. ASSUME NEW eid \in EidArg, NEW sec \in SecureArg, NEW sha \in SharedArg,
               sys_create_enclave(eid, sec[1], sec[2], sha[1], sha[2])
        PROVE  Inv'
    <2>1. /\ eid \in Nat /\ sec[1] \in Nat /\ sec[2] \in Nat
          /\ sha[1] \in Nat /\ sha[2] \in Nat
      BY ParamAssumption
    <2> QED
      BY <1>1, <2>1, CreateInv
  <1>2. ASSUME NEW eid \in EidArg, sys_destroy_enclave(eid)
        PROVE  Inv'
    BY <1>2, DestroyInv, ParamAssumption
  <1>3. ASSUME NEW eid \in EidArg, sys_run_enclave(eid)
        PROVE  Inv'
    BY <1>3, RunInv, ParamAssumption
  <1>4. ASSUME NEW eid \in EidArg, sys_resume_enclave(eid)
        PROVE  Inv'
    BY <1>4, ResumeInv, ParamAssumption
  <1>5. CASE run_again
    BY <1>5, RunInv, ParamAssumption DEF run_again
  <1>6. CASE no_effect
    BY <1>6, RefusedInv DEF no_effect, refused
  <1>7. CASE UNCHANGED vars
    BY <1>7, RefusedInv DEF vars
  <1>8. CASE shutdown
    <2>1. KeepsTable /\ UNCHANGED <<host_state, encl_state, payload, ctx, scratch, tlb>>
            /\ halted' \in BOOLEAN
      BY <1>8 DEF shutdown, KeepsTable, world
    <2>2. /\ payload' \in [Granule -> Label \cup {Shared}] /\ tlb' \subseteq granted
          /\ \A g \in Granule : payload'[g] \in Eid => g \in secure(payload'[g])
          /\ ctx' \in Context /\ ctx'.mepc # "else" /\ scratch' \in Label \cup {Shared}
      BY <2>1, Types DEF Inv, Confined, PmpMatches, ResumePoint
    <2>3. LET e == IF enclave_mode THEN current_enclave ELSE Public
          IN  /\ may_hold(e, ctx'.regs) /\ may_hold(e, ctx'.csrs)
              /\ scratch' # Shared => may_hold(e, scratch')
      BY <2>1 DEF Inv, Confined
    <2> QED
      BY <2>1, <2>2, <2>3, QuietInv
  <1> QED
    BY <1>1, <1>2, <1>3, <1>4, <1>5, <1>6, <1>7, <1>8,
       ExitInv, LoadInv, StoreInv, ComputeInv, CsrReadInv, CsrWriteInv DEF Next, wait_for_interrupt

(* Every call of enclave.c, trap and access keeps enclave table, contexts, *)
(* PMP and labels right together, for any memory and number of enclaves.   *)
THEOREM InductiveInvariant == Spec => []Inv
  BY InitInv, NextInv, PTL DEF Spec

-----------------------------------------------------------------------------
(* The table of enclaves, the machine and the labels have their types.     *)
THEOREM TypeCorrect == Spec => []TypeOK
  <1>1. Inv => TypeOK
    BY DEF Inv
  <1> QED
    BY <1>1, InductiveInvariant, PTL

(* is_region_valid and is_region_overlap keep secure regions apart.        *)
THEOREM RegionsApart == Spec => []Regions
  <1>1. Inv => Regions
    BY DEF Inv
  <1> QED
    BY <1>1, InductiveInvariant, PTL

(* At most the current enclave is RUNNING.                                 *)
THEOREM OneEnclaveRuns == Spec => []OneRunning
  <1>1. Inv => OneRunning
    BY DEF Inv
  <1> QED
    BY <1>1, InductiveInvariant, PTL

(* The PMP registers, which the calls of enclave.c update one by one,      *)
(* always are what the table of enclaves asks for.                         *)
THEOREM PmpAgrees == Spec => []PmpMatches
  <1>1. Inv => PmpMatches
    BY DEF Inv
  <1> QED
    BY <1>1, InductiveInvariant, PTL

(* Entries, priorities and cached checks together isolate every enclave.   *)
THEOREM EnclavesIsolated == Spec => []Isolated
  <1>1. Inv => Isolated
    BY Reach DEF Inv
  <1> QED
    BY <1>1, InductiveInvariant, PTL

(* No value of an enclave gets to the host or to another eid, unless the   *)
(* enclave stores it in shared memory or leaves it in sscratch or sie.     *)
THEOREM SecretsConfined == Spec => []Confined
  <1>1. Inv => Confined
    BY DEF Inv
  <1> QED
    BY <1>1, InductiveInvariant, PTL

(* Whoever is resumed goes on where it left.                               *)
THEOREM ResumesWhereItLeft == Spec => []ResumePoint
  <1>1. Inv => ResumePoint
    BY DEF Inv
  <1> QED
    BY <1>1, InductiveInvariant, PTL

-----------------------------------------------------------------------------
(* The calls that leave memory alone leave every enclave's memory alone.   *)
LEMMA DestroyKeeps ==
  ASSUME Inv, NEW eid \in Nat, sys_destroy_enclave(eid)
  PROVE  /\ UNCHANGED encl_state
         /\ enclave_mode => UNCHANGED payload
         /\ \A e \in Eid : status[e] \in {"FRESH", "IDLE"} /\ status'[e] = status[e] =>
              \A g \in secure(e) : payload'[g] = payload[g]
  <1>1. CASE stopped_err(eid) # "SUCCESS"
    BY <1>1 DEF sys_destroy_enclave, refused, world
  <1>2. CASE stopped_err(eid) = "SUCCESS"
    <2>1. ~enclave_mode /\ eid \in Eid
      BY <1>2, ParamAssumption DEF stopped_err, eid_is_valid, Eid
    <2>2. /\ payload' = [g \in Granule |-> IF g \in secure(eid) THEN Public ELSE payload[g]]
          /\ status' = [status EXCEPT ![eid] = "FREE"]
          /\ UNCHANGED encl_state
      BY <1>2 DEF sys_destroy_enclave, wipe, world
    <2>3. ASSUME NEW e \in Eid, status[e] \in {"FRESH", "IDLE"}, status'[e] = status[e],
                 NEW g \in secure(e)
          PROVE  payload'[g] = payload[g]
      <3>1. e # eid
        BY <2>1, <2>2, <2>3, Types DEF Inv
      <3>2. g \notin secure(eid) /\ g \in Granule
        BY <2>1, <3>1, Apart DEF Inv, secure, region
      <3> QED
        BY <2>2, <3>2
    <2> QED
      BY <2>1, <2>2, <2>3
  <1> QED
    BY <1>1, <1>2

LEMMA StoreKeeps ==
  ASSUME Inv, store
  PROVE  /\ UNCHANGED encl_state
         /\ \A e \in Eid : status[e] \in {"FRESH", "IDLE"} =>
              \A g \in secure(e) : payload'[g] = payload[g]
         /\ enclave_mode =>
              \A g \in Granule \ (secure(current_enclave) \cup shared(current_enclave)) :
                payload'[g] = payload[g]
  <1>1. PICK h \in accessible :
          payload' = [payload EXCEPT ![h] =
            IF enclave_mode /\ h \notin secure(current_enclave) THEN Shared ELSE ctx.regs]
    BY DEF store
  <1>2. Isolated
    BY Reach DEF Inv
  <1>3. ASSUME NEW e \in Eid, status[e] \in {"FRESH", "IDLE"}, NEW g \in secure(e)
        PROVE  payload'[g] = payload[g]
    <2>1. ~(enclave_mode /\ current_enclave = e)
      BY <1>3 DEF Inv, OneRunning
    <2>2. g # h /\ g \in Granule
      BY <1>2, <2>1 DEF Isolated, secure, region
    <2> QED
      BY <1>1, <2>2, Types DEF Inv
  <1>4. ASSUME enclave_mode,
               NEW g \in Granule \ (secure(current_enclave) \cup shared(current_enclave))
        PROVE  payload'[g] = payload[g]
    <2>1. g # h
      BY <1>2, <1>4 DEF Isolated
    <2> QED
      BY <1>1, <2>1, Types DEF Inv
  <1>5. UNCHANGED encl_state
    BY DEF store, world
  <1> QED
    BY <1>3, <1>4, <1>5

(* The context of an enclave changes only as its status does.              *)
LEMMA ContextKept ==
  ASSUME Inv, NEW eid \in Nat,
         sys_run_enclave(eid) \/ sys_resume_enclave(eid) \/ sys_exit_enclave
  PROVE  /\ UNCHANGED payload
         /\ \A e \in Eid : status'[e] = status[e] => encl_state'[e] = encl_state[e]
  <1>1. CASE sys_run_enclave(eid) /\ stopped_err(eid) = "SUCCESS"
    <2>1. /\ eid \in Eid /\ status[eid] # "RUNNING"
      BY <1>1, ParamAssumption DEF stopped_err, eid_is_valid, Eid
    <2>2. /\ status' = [status EXCEPT ![eid] = "RUNNING"]
          /\ encl_state' = [encl_state EXCEPT ![eid].regs = Public, ![eid].mepc = "entry"]
          /\ UNCHANGED payload
      BY <1>1 DEF sys_run_enclave, enter
    <2> QED
      BY <2>1, <2>2, Types DEF Inv
  <1>2. CASE sys_run_enclave(eid) /\ stopped_err(eid) # "SUCCESS"
    BY <1>2 DEF sys_run_enclave, world
  <1>3. CASE sys_resume_enclave(eid)
    BY <1>3 DEF sys_resume_enclave, refused, enter, world
  <1>4. CASE sys_exit_enclave /\ enclave_mode
    <2>1. current_enclave \in Eid /\ status[current_enclave] = "RUNNING"
      BY <1>4 DEF Inv, OneRunning
    <2>2. /\ status' = [status EXCEPT ![current_enclave] = "IDLE"]
          /\ encl_state' = [encl_state EXCEPT ![current_enclave] = trapped]
          /\ UNCHANGED payload
      BY <1>4 DEF sys_exit_enclave
    <2> QED
      BY <2>1, <2>2, Types DEF Inv
  <1>5. CASE sys_exit_enclave /\ ~enclave_mode
    BY <1>5 DEF sys_exit_enclave, refused, world
  <1> QED
    BY <1>1, <1>2, <1>3, <1>4, <1>5

(* No call or access of one party changes what an enclave that does not    *)
(* run holds, or lets an enclave that runs change foreign memory.          *)
THEOREM OthersKept == Spec => Integrity
  <1> DEFINE A == /\ \A e \in Eid : status[e] \in {"FRESH", "IDLE"} /\ status'[e] = status[e] =>
                       /\ encl_state'[e] = encl_state[e]
                       /\ \A g \in secure(e) : payload'[g] = payload[g]
                  /\ enclave_mode =>
                       \A g \in Granule \ (secure(current_enclave) \cup shared(current_enclave)) :
                         payload'[g] = payload[g]
  <1>1. ASSUME Inv, Next PROVE A
    <2>1. ASSUME NEW eid \in EidArg, NEW sec \in SecureArg, NEW sha \in SharedArg,
                 sys_create_enclave(eid, sec[1], sec[2], sha[1], sha[2])
          PROVE  A
      BY <2>1 DEF sys_create_enclave, refused, world
    <2>2. ASSUME NEW eid \in EidArg, sys_destroy_enclave(eid)
          PROVE  A
      BY Zenon, <1>1, <2>2, DestroyKeeps, ParamAssumption
    <2>3. ASSUME NEW eid \in EidArg, sys_run_enclave(eid) \/ sys_resume_enclave(eid)
          PROVE  A
      BY <1>1, <2>3, ContextKept, ParamAssumption
    <2>4. CASE sys_exit_enclave
      BY <1>1, <2>4, ContextKept, ParamAssumption
    <2>5. CASE run_again
      BY <1>1, <2>5, ContextKept, ParamAssumption DEF run_again
    <2>6. CASE store
      BY <1>1, <2>6, StoreKeeps
    <2>7. CASE no_effect \/ shutdown \/ wait_for_interrupt \/ load \/ compute
                 \/ csr_read \/ csr_write
      BY Zenon, <2>7 DEF no_effect, refused, shutdown, wait_for_interrupt, load, compute,
                  csr_read, csr_write, vars, world
    <2> QED
      BY Zenon, <1>1, <2>1, <2>2, <2>3, <2>4, <2>5, <2>6, <2>7 DEF Next
  <1>2. Inv /\ [Next]_vars => [A]_vars
    BY <1>1
  <1> QED
    BY <1>2, InductiveInvariant, PTL DEF Spec, Integrity
=============================================================================
