-------------------------------- MODULE Boot --------------------------------
(***************************************************************************)
(* mcall_init (bios/mcall.c), which every monitor runs first: it takes the *)
(* device tree the boot loader left, finds the consoles and the memory,    *)
(* reserves the monitor and its payload, and leaves a copy of the tree     *)
(* where the payload can read it.  Afterwards the payload may ask for a    *)
(* shutdown, for which the original tree is searched again.                *)
(*                                                                         *)
(* Each call that mcall_init makes is one step (a call of memblock.c takes *)
(* the steps of that module).  The boot loader's choices (the tree, the    *)
(* state of the blob, where it lies, where the image and the payload lie)  *)
(* are made in Init.                                                       *)
(***************************************************************************)
EXTENDS DeviceTree, Memblock

CONSTANTS
    Boots,            \* what the boot loader may leave: see BootRecord
    SZ_4K             \* the alignment of the copy

VARIABLES
    boot,             \* the boot loader's choice, fixed
    pc,               \* the call of mcall_init that comes next
    initial_boot_params,  \* whether the pointer to the blob is set
    dt,               \* boot_command_line, the root's cells and the memory to add
    has_htif,
    consoles,         \* console_drivers: the drivers in order of registration
    kernel_dtb,       \* where the copy is, 0 before
    intact,           \* the blob at initial_boot_params still reads as it did
    power             \* what the shutdown call did, and to which address

bvars == <<boot, pc, initial_boot_params, dt, has_htif, consoles, kernel_dtb,
           intact, power>>

vars == <<bvars, mvars>>

(***************************************************************************)
(* A record of Boots: tree, fdt (a blob), whole (fdt encodes tree, with no *)
(* damage), lost (the number of tokens before the damage), dtb (the blob's *)
(* address, 0 when the loader passes none), image and payload (pairs of    *)
(* first address and end).                                                 *)
(***************************************************************************)
fdt == boot.fdt

Power(how, at) == [how |-> how, at |-> at]

Init ==
    /\ boot \in Boots
    /\ pc = "verify"
    /\ initial_boot_params = FALSE
    /\ dt = [boot_command_line |-> "", dt_root_addr_cells |-> 0,
             dt_root_size_cells |-> 0, memory |-> <<>>]
    /\ has_htif = FALSE
    /\ consoles = <<>>
    /\ kernel_dtb = 0
    /\ intact = TRUE
    /\ power = Power("on", 0)
    /\ MemblockInit

\* mcall_init goes on whether or not the blob was accepted.
EarlyInitDtVerify ==
    /\ pc = "verify"
    /\ initial_boot_params' = (boot.dtb # 0 /\ fdt_check_header(fdt) = 0)
    /\ pc' = "htif"
    /\ UNCHANGED <<boot, dt, has_htif, consoles, kernel_dtb, intact, power, mvars>>

\* The first use of a pointer that was never set reads address 0.
Fault ==
    /\ pc = "htif"
    /\ ~initial_boot_params
    /\ pc' = "fault"
    /\ UNCHANGED <<boot, initial_boot_params, dt, has_htif, consoles, kernel_dtb,
                   intact, power, mvars>>

AbsPath(base) == Path(<<Plain(base)>>)

Console(driver, membase) == [driver |-> driver, membase |-> membase]

HtifInit ==
    /\ pc = "htif"
    /\ initial_boot_params
    /\ has_htif' = (of_find_node_by_path(fdt, AbsPath("htif")) # NULL)
    /\ consoles' = IF has_htif' THEN Append(consoles, Console("htif", 0)) ELSE consoles
    /\ pc' = "uart8250"
    /\ UNCHANGED <<boot, initial_boot_params, dt, kernel_dtb, intact, power, mvars>>

membase(np) ==
    of_read_number(of_get_property(fdt, np, "reg").val, of_n_addr_cells(fdt, np))

Uart8250Init ==
    /\ pc = "uart8250"
    /\ LET np == of_find_node_by_path(fdt, AbsPath("uart"))
       IN  consoles' = IF /\ np # NULL
                          /\ of_device_is_compatible(fdt, np, "ns16550a")
                          /\ of_get_property(fdt, np, "reg").ok
                       THEN Append(consoles, Console("ns16550a", membase(np)))
                       ELSE consoles
    /\ pc' = "sifive"
    /\ UNCHANGED <<boot, initial_boot_params, dt, has_htif, kernel_dtb, intact, power, mvars>>

\* The loop of sifive_init, with left of its two ports to go.
RECURSIVE sifive_ports(_, _, _)
sifive_ports(from, left, cons) ==
    LET np == of_find_compatible_node(fdt, from, "sifive,uart0")
    IN  IF left = 0 \/ np = NULL THEN cons
        ELSE sifive_ports(np, left - 1,
                          IF of_get_property(fdt, np, "reg").ok
                          THEN Append(cons, Console("sifive,uart0", membase(np)))
                          ELSE cons)

SifiveInit ==
    /\ pc = "sifive"
    /\ consoles' = sifive_ports(NULL, 2, consoles)
    /\ pc' = "scan"
    /\ UNCHANGED <<boot, initial_boot_params, dt, has_htif, kernel_dtb, intact, power, mvars>>

EarlyInitDtScanNodes ==
    /\ pc = "scan"
    /\ dt' = early_init_dt_scan_nodes(fdt, dt)
    /\ pc' = "reserve image"
    /\ UNCHANGED <<boot, initial_boot_params, has_htif, consoles, kernel_dtb,
                   intact, power, mvars>>

\* The calls of memblock_add that early_init_dt_scan_memory made.
AddMemory ==
    /\ pc = "reserve image"
    /\ dt.memory # <<>>
    /\ memblock_add(Head(dt.memory).base, Head(dt.memory).size)
    /\ dt' = [dt EXCEPT !.memory = Tail(@)]
    /\ UNCHANGED <<boot, pc, initial_boot_params, has_htif, consoles, kernel_dtb,
                   intact, power>>

Reserve(range, there) ==
    /\ memblock_reserve(range.start, range.end - range.start)
    /\ pc' = there
    /\ UNCHANGED <<boot, initial_boot_params, dt, has_htif, consoles, kernel_dtb,
                   intact, power>>

ReserveImage ==
    pc = "reserve image" /\ dt.memory = <<>> /\ Reserve(boot.image, "reserve payload")

ReservePayload == pc = "reserve payload" /\ Reserve(boot.payload, "alloc")

\* Mutant of AllocCopy: no alignment is asked for.
AllocCopy_unaligned ==
    /\ pc = "alloc"
    /\ memblock_alloc(of_get_flat_dt_size(fdt), 0)
    /\ pc' = "move"
    /\ UNCHANGED <<boot, initial_boot_params, dt, has_htif, consoles, kernel_dtb,
                   intact, power>>

AllocCopy ==
    /\ pc = "alloc"
    /\ memblock_alloc(of_get_flat_dt_size(fdt), SZ_4K)
    /\ pc' = "move"
    /\ UNCHANGED <<boot, initial_boot_params, dt, has_htif, consoles, kernel_dtb,
                   intact, power>>

\* The return of memblock_alloc, and the copy, which overwrites the original
\* where the two overlap.
MoveCopy ==
    /\ pc = "move"
    /\ step = "idle"
    /\ kernel_dtb' = finding.found
    /\ IF of_dt_move(fdt, of_get_flat_dt_size(fdt)) # 0
       THEN pc' = "panic" /\ UNCHANGED intact
       ELSE /\ pc' = "booted"
            /\ intact' = (\/ kernel_dtb' = boot.dtb
                          \/ Span(kernel_dtb', fdt.totalsize)
                               \cap Span(boot.dtb, fdt.totalsize) = {})
    /\ UNCHANGED <<boot, initial_boot_params, dt, has_htif, consoles, power, mvars>>

MemblockLoop == MemblockStep /\ UNCHANGED bvars

\* A BUG_ON in memblock.c ends in panic, as an allocation that fails does.
MemblockStops ==
    /\ step \in {"full", "BUG", "panic"}
    /\ pc \notin {"panic", "off"}
    /\ pc' = "panic"
    /\ UNCHANGED <<boot, initial_boot_params, dt, has_htif, consoles, kernel_dtb,
                   intact, power, mvars>>

\* test_shutdown: the power switch is written when the tree has one.
test_shutdown ==
    LET np == of_find_node_by_path(fdt, AbsPath("test"))
    IN  IF np # NULL /\ of_get_property(fdt, np, "reg").ok
        THEN Power("test", membase(np)) ELSE Power("spin", 0)

\* shutdown, called by do_mcall (SBI_SHUTDOWN) or by panic: it does not
\* return.  An overwritten tree may send the write anywhere or nowhere.
Shutdown ==
    /\ pc \in {"booted", "panic"}
    /\ power' = IF has_htif THEN Power("htif", 0)
                ELSE IF intact THEN test_shutdown ELSE Power("unknown", 0)
    /\ pc' = "off"
    /\ UNCHANGED <<boot, initial_boot_params, dt, has_htif, consoles, kernel_dtb, intact, mvars>>

\* shutdown spins in wait_for_interrupt, and a fault in M-mode comes back to
\* the same null pointer.
Halted == pc \in {"off", "fault"} /\ UNCHANGED vars

Next ==
    \/ EarlyInitDtVerify
    \/ Fault
    \/ HtifInit
    \/ Uart8250Init
    \/ SifiveInit
    \/ EarlyInitDtScanNodes
    \/ AddMemory
    \/ ReserveImage
    \/ ReservePayload
    \/ AllocCopy
    \/ MoveCopy
    \/ MemblockLoop
    \/ MemblockStops
    \/ Shutdown
    \/ Halted

Spec == Init /\ [][Next]_vars

-----------------------------------------------------------------------------
\* Properties.

Block(base, size) == base >= fdt_header_size_(fdt.version) /\ base + size <= fdt.totalsize

\* What libfdt answers about an undamaged blob, node by node.
NodeAnswers(T, i) ==
    LET N      == Len(T)
        at(j)  == IF j = 0 THEN -FDT_ERR_NOTFOUND ELSE NodeOffset(fdt, j)
        off    == NodeOffset(fdt, i)
        chain  == Append(Ancestors(T, i), i)
        after  == {j \in Children(T, T[i].parent) : j > i}
        length == PathLength(<<T[1].name>> \o PathOf(T, i))
        path   == fdt_get_path(fdt, off, Max({length, 2}))
    IN  /\ fdt_get_name(fdt, off).val = T[i].name
        /\ fdt_parent_offset(fdt, off) = at(T[i].parent)
        /\ fdt_node_depth(fdt, off) = Depth(T, i)
        /\ \A d \in DOMAIN chain :
             fdt_supernode_atdepth_offset(fdt, off, d - 1).offset = at(chain[d])
        /\ fdt_next_node(fdt, off) = at(IF i = N THEN 0 ELSE i + 1)
        /\ fdt_first_subnode(fdt, off) = at(First(Children(T, i), 0))
        /\ i # 1 => fdt_next_subnode(fdt, off) = at(First(after, 0))
        /\ path = [err |-> 0, names |-> PathOf(T, i)]
        /\ fdt_get_path(fdt, off, length - 1).err = -FDT_ERR_NOSPACE
        /\ fdt_path_offset(fdt, Path(PathOf(T, i))) = at(Lookup(T, PathOf(T, i)))
        /\ \A name \in PropNames(T) :
             LET p == fdt_getprop(fdt, off, name)
             IN  /\ p.ok = HasProp(T, i, name)
                 /\ p.ok => p.val = PropOf(T, i, name)
                 /\ ~p.ok => p.len = -FDT_ERR_NOTFOUND
                 /\ p.ok => LET n == fdt_node_offset_by_prop_value(fdt, -1, name, p.val)
                            IN  n >= 0 /\ n <= off
        /\ fdt_get_phandle(fdt, off) = Phandle(T, i)
        /\ fdt_address_cells(fdt, off)
             = IF ~HasProp(T, i, "#address-cells") THEN 2
               ELSE LET n == PropOf(T, i, "#address-cells")[1]
                    IN  IF n \in 1 .. 4 THEN n ELSE -FDT_ERR_BADNCELLS
        /\ fdt_size_cells(fdt, off)
             = IF ~HasProp(T, i, "#size-cells") THEN 2
               ELSE LET n == PropOf(T, i, "#size-cells")[1]
                    IN  IF n \in 0 .. 4 THEN n ELSE -FDT_ERR_BADNCELLS

\* What it answers about the list of strings at off.
ListAnswers(T, off, list) ==
    LET whole == list[Len(list)].nul
        bad(x) == IF whole THEN x ELSE -FDT_ERR_BADVALUE
    IN  /\ fdt_stringlist_count(fdt, off, "compatible") = bad(Len(list))
        /\ \A k \in DOMAIN list :
             LET get  == fdt_stringlist_get(fdt, off, "compatible", k - 1)
                 same == {j \in DOMAIN list : list[j].nul /\ list[j].s = list[k].s}
             IN  /\ IF list[k].nul THEN get.val = list[k].s
                                  ELSE get.len = -FDT_ERR_BADVALUE
                 /\ fdt_stringlist_search(fdt, off, "compatible", list[k].s)
                      = IF same = {} THEN bad(-FDT_ERR_NOTFOUND) ELSE Min(same) - 1
                 /\ fdt_node_offset_by_compatible(fdt, -1, list[k].s)
                      = First({NodeOffset(fdt, j) :
                                 j \in {n \in Nodes(T) : IsCompatible(T, n, list[k].s)}},
                              -FDT_ERR_NOTFOUND)

\* What it answers about the blob as a whole.
TreeAnswers(T) ==
    LET at(S) == First({NodeOffset(fdt, j) : j \in S}, -FDT_ERR_NOTFOUND)
        handles == {Phandle(T, i) : i \in Nodes(T)}
        lists   == {i \in Nodes(T) : HasProp(T, i, "compatible")}
        aliases == Lookup(T, <<Plain("aliases")>>)
        aliased == aliases # 0 /\ HasProp(T, aliases, "serial0")
        byAlias(rest) == fdt_path_offset(fdt, [absolute |-> FALSE,
                                               names |-> <<Plain("serial0")>> \o rest])
        meant(rest) == LET j == Lookup(T, PropOf(T, aliases, "serial0")[1].names \o rest)
                       IN  at(IF j = 0 THEN {} ELSE {j})
    IN  /\ fdt_check_full(fdt, fdt.totalsize) = 0
        /\ fdt_num_mem_rsv(fdt) = Len(fdt.rsv) - 1
        /\ \A n \in 1 .. Len(fdt.rsv) - 1 :
             fdt_get_mem_rsv(fdt, n - 1) = [err |-> 0, re |-> fdt.rsv[n]]
        /\ fdt_get_max_phandle(fdt) = Max(handles)
        /\ \A h \in handles \ {0} :
             fdt_node_offset_by_phandle(fdt, h) = at({i \in Nodes(T) : Phandle(T, i) = h})
        /\ \A rest \in {<<>>, <<Plain("b")>>} :
             byAlias(rest) = IF aliased THEN meant(rest) ELSE -FDT_ERR_BADPATH
        /\ \A i \in lists : ListAnswers(T, NodeOffset(fdt, i), PropOf(T, i, "compatible"))

\* What it answers about a blob that is torn or cut short after lost tokens.
DamagedAnswers(T) ==
    LET left == {i \in Nodes(T) : NodeOffset(fdt, i) < boot.lost}
    IN  /\ fdt_check_full(fdt, fdt.totalsize) < 0
        /\ \A i \in left :
             LET n == fdt_next_node(fdt, NodeOffset(fdt, i))
             IN  IF i + 1 \in left THEN n = NodeOffset(fdt, i + 1) ELSE n < 0
        /\ \A i \in Nodes(T) :
             LET j == Lookup(T, PathOf(T, i))
                 n == fdt_path_offset(fdt, Path(PathOf(T, i)))
             IN  IF j \in left THEN n = NodeOffset(fdt, j) ELSE n < 0

(***************************************************************************)
(* The blob mcall_init works with (early_init_dt_verify, of.c): there is   *)
(* one, its blocks lie inside it, an undamaged one is never refused, and   *)
(* every query that libfdt offers answers what the tree says, whatever     *)
(* NOPs the blob holds.  Of a damaged one the walks find the nodes before  *)
(* the damage and report an error for the rest.                            *)
(***************************************************************************)
VerifiedBlob ==
    pc = "htif" =>
      /\ boot.dtb # 0 /\ boot.whole => initial_boot_params
      /\ initial_boot_params =>
           /\ boot.dtb # 0
           /\ Block(fdt.off_mem_rsvmap, 0)
           /\ Block(fdt.off_dt_struct, IF fdt.version < 17 THEN 0 ELSE fdt.size_dt_struct)
           /\ Block(fdt.off_dt_strings, fdt.size_dt_strings)
           /\ IF boot.whole
              THEN TreeAnswers(boot.tree) /\ \A i \in Nodes(boot.tree) : NodeAnswers(boot.tree, i)
              ELSE DamagedAnswers(boot.tree)

\* The memory that the memory nodes of the tree describe.
Told == MemoryOf(boot.tree) \cap (0 .. PHYS_ADDR_MAX - 1)

\* The places where the copy could go: aligned, free, and not address 0.
Places(free) ==
    {a \in free : /\ a # 0
                  /\ a % SZ_4K = 0
                  /\ Span(a, fdt.totalsize) \subseteq free}

Free == Addresses("memory")
          \ ((boot.image.start .. boot.image.end - 1)
              \cup (boot.payload.start .. boot.payload.end - 1))

(***************************************************************************)
(* Memory and the copy of the tree (early_init_dt_scan_memory, mcall_init, *)
(* memblock.c together): the memory found is what the memory nodes of the  *)
(* tree describe (of a damaged tree: no more than that); the copy goes to  *)
(* the highest aligned place in it that is clear of the monitor and of the *)
(* payload, so above the payload whenever there is room there; mcall_init  *)
(* panics for want of memory only when there is no place at all; and the   *)
(* copy spoils the original only if that lay in memory nobody reserved.    *)
(***************************************************************************)
CopyPlaced ==
    /\ pc \in {"reserve payload", "alloc", "move", "booted"} =>
         /\ Addresses("memory") \subseteq Told
         /\ boot.whole => Addresses("memory") = Told
    /\ pc = "booted" => kernel_dtb \in Places(Free) /\ kernel_dtb = Max(Places(Free))
    /\ pc = "booted" /\ (\E a \in Places(Free) : a >= boot.payload.end)
         => kernel_dtb >= boot.payload.end
    /\ pc = "panic" /\ step # "full" => Places(Free) = {}
    /\ ~intact => Span(boot.dtb, fdt.totalsize) \cap Free # {}

(***************************************************************************)
(* The nodes for which of_n_addr_cells finds the cells that apply.  Its    *)
(* walk stops below the root, whose offset 0 is NULL, and asks a child of  *)
(* the root for its own #address-cells instead.                            *)
(***************************************************************************)
Regular(T, i) ==
    \/ \E j \in ToSet(Ancestors(T, i)) \ {1} : HasProp(T, j, "#address-cells")
    \/ /\ RootCells(T, "#address-cells", 2) = 2
       /\ T[i].parent = 1 => ~HasProp(T, i, "#address-cells")

\* Whether a device at node i of T may be driven at address at.
AddressOf(T, i, at) ==
    Regular(T, i) => at = Number(SubSeq(PropOf(T, i, "reg"), 1, AddrCells(T, i)))

\* The devices the probes should find: a driver and, unless it is htif, its node.
Probed(driver, i) == [driver |-> driver, node |-> i]

Htif(T) == IF Lookup(T, <<Plain("htif")>>) # 0 THEN <<Probed("htif", 0)>> ELSE <<>>

Uart(T) ==
    LET i == Lookup(T, <<Plain("uart")>>)
    IN  IF i # 0 /\ IsCompatible(T, i, "ns16550a") /\ HasProp(T, i, "reg")
        THEN <<Probed("ns16550a", i)>> ELSE <<>>

Sifive(T) ==
    LET all == Ascending({i \in Nodes(T) \ {1} :
                               /\ HasProp(T, i, "compatible")
                               /\ FirstString(T, i, "compatible") = "sifive,uart0"})
        two == SubSeq(all, 1, Min({2, Len(all)}))
        ports == SelectSeq(two, LAMBDA i : HasProp(T, i, "reg"))
    IN  [k \in DOMAIN ports |-> Probed("sifive,uart0", ports[k])]

(***************************************************************************)
(* The devices (htif.c, uart8250.c, sifive.c, shutdown.c): the consoles    *)
(* registered are the ones the tree describes, in the order of the probes, *)
(* and a shutdown reaches the power switch, after the copy was made as     *)
(* before.  Each is driven at the address the tree gives it, however deep  *)
(* its node and whichever ancestor sets the cells, unless the cells are    *)
(* ones the walk of of_n_addr_cells cannot see.                            *)
(***************************************************************************)
DevicesFound ==
    LET T    == boot.tree
        want == Htif(T) \o Uart(T) \o Sifive(T)
        test == Lookup(T, <<Plain("test")>>)
    IN  boot.whole =>
          /\ pc = "scan" =>
               /\ [k \in DOMAIN consoles |-> consoles[k].driver]
                    = [k \in DOMAIN want |-> want[k].driver]
               /\ \A k \in DOMAIN want :
                    want[k].driver # "htif" => AddressOf(T, want[k].node, consoles[k].membase)
          /\ pc = "off" /\ intact =>
               IF Htif(T) # <<>> THEN power.how = "htif"
               ELSE IF test # 0 /\ HasProp(T, test, "reg")
               THEN power.how = "test" /\ AddressOf(T, test, power.at)
               ELSE power.how = "spin"
=============================================================================
