--------------------------------- MODULE Of ---------------------------------
(***************************************************************************)
(* The device-tree layer of the kernel library (kernel/of.c): node handles *)
(* over the blob at initial_boot_params, and the boot-time scan that finds *)
(* the command line, the root's cell sizes and the memory.                 *)
(*                                                                         *)
(* A node handle is the node's offset, with 0 (the root, and every error)  *)
(* for NULL.                                                               *)
(***************************************************************************)
EXTENDS Fdt

CONSTANT CELL         \* a cell holds 0 .. CELL - 1, a uint64_t two cells

OF_ROOT_NODE_ADDR_CELLS_DEFAULT == 2
OF_ROOT_NODE_SIZE_CELLS_DEFAULT == 1

NULL == 0

of_node(offset) == IF offset <= 0 THEN NULL ELSE offset

of_find_all_nodes(fdt, prev) == of_node(fdt_next_node(fdt, prev))

of_find_node_by_path(fdt, path) == of_node(fdt_path_offset(fdt, path))

of_get_property(fdt, np, name) == fdt_getprop(fdt, np, name)

\* Only the first string of the list is compared (strcmp stops at its NUL).
RECURSIVE find_compatible_from(_, _, _)
find_compatible_from(fdt, np, compat) ==
    LET prop == of_get_property(fdt, np, "compatible")
    IN  IF np = NULL THEN NULL
        ELSE IF prop.ok /\ str_eq(prop.val[1], compat) THEN np
        ELSE find_compatible_from(fdt, of_find_all_nodes(fdt, np), compat)

of_find_compatible_node(fdt, from, compat) ==
    find_compatible_from(fdt, of_find_all_nodes(fdt, from), compat)

of_property_read_u32(fdt, np, propname) == of_get_property(fdt, np, propname)

of_device_is_compatible(fdt, np, compat) ==
    fdt_node_check_compatible(fdt, np, compat) = 0

get_parent(fdt, np) == of_node(fdt_parent_offset(fdt, np))

\* of_n_addr_cells and of_n_size_cells differ in the property and the default.
RECURSIVE n_cells(_, _, _, _)
n_cells(fdt, np, propname, default) ==
    LET parent == get_parent(fdt, np)
        here   == IF parent # NULL THEN parent ELSE np
        prop   == of_property_read_u32(fdt, here, propname)
    IN  IF prop.ok THEN prop.val[1]
        ELSE IF parent # NULL THEN n_cells(fdt, here, propname, default)
        ELSE default

\* Mutant of of_n_addr_cells: only the parent is asked.
of_n_addr_cells_parent(fdt, np) ==
    LET prop == of_property_read_u32(fdt, get_parent(fdt, np), "#address-cells")
    IN  IF prop.ok THEN prop.val[1] ELSE OF_ROOT_NODE_ADDR_CELLS_DEFAULT

of_n_addr_cells(fdt, np) ==
    n_cells(fdt, np, "#address-cells", OF_ROOT_NODE_ADDR_CELLS_DEFAULT)

of_n_size_cells(fdt, np) ==
    n_cells(fdt, np, "#size-cells", OF_ROOT_NODE_SIZE_CELLS_DEFAULT)

of_read_number(cell, size) ==
    FoldLeft(LAMBDA r, c : (r * CELL + c) % (CELL * CELL), 0, SubSeq(cell, 1, size))

-----------------------------------------------------------------------------
(***************************************************************************)
(* of_scan_flat_dt with each of its three callbacks.  What the callbacks   *)
(* write is the record dt: boot_command_line, dt_root_addr_cells,          *)
(* dt_root_size_cells and memory, the ranges for memblock_add in order of  *)
(* the calls (the scan reads nothing that memblock_add writes, so Boot     *)
(* makes the calls after it); a callback returns dt and rc.                *)
(***************************************************************************)
Goes(dt) == [dt |-> dt, rc |-> 0]

Stops(dt) == [dt |-> dt, rc |-> 1]

early_init_dt_scan_chosen(fdt, node, uname, depth, dt) ==
    LET p == fdt_getprop(fdt, node, "bootargs")
    IN  IF \/ depth # 1
           \/ uname \notin {Plain("chosen"), [base |-> "chosen", unit |-> "0"]}
        THEN Goes(dt)
        ELSE IF p.ok /\ p.len > 0
        THEN Stops([dt EXCEPT !.boot_command_line = p.val[1].s])
        ELSE Stops(dt)

early_init_dt_scan_root(fdt, node, uname, depth, dt) ==
    LET sc == fdt_getprop(fdt, node, "#size-cells")
        ac == fdt_getprop(fdt, node, "#address-cells")
    IN  IF depth # 0 THEN Goes(dt)
        ELSE Stops([dt EXCEPT
               !.dt_root_size_cells = IF sc.ok THEN sc.val[1]
                                      ELSE OF_ROOT_NODE_SIZE_CELLS_DEFAULT,
               !.dt_root_addr_cells = IF ac.ok THEN ac.val[1]
                                      ELSE OF_ROOT_NODE_ADDR_CELLS_DEFAULT])

\* The loop over the (base, size) pairs of a memory node's cells.
RECURSIVE add_memory(_, _)
add_memory(reg, dt) ==
    LET ac   == dt.dt_root_addr_cells
        sc   == dt.dt_root_size_cells
        base == of_read_number(reg, ac)
        size == of_read_number(SubSeq(reg, ac + 1, Len(reg)), sc)
    IN  IF Len(reg) < ac + sc THEN dt
        ELSE add_memory(SubSeq(reg, ac + sc + 1, Len(reg)),
                        IF size = 0 THEN dt
                        ELSE [dt EXCEPT !.memory = Append(@, [base |-> base, size |-> size])])

early_init_dt_scan_memory(fdt, node, uname, depth, dt) ==
    LET type   == fdt_getprop(fdt, node, "device_type")
        usable == fdt_getprop(fdt, node, "linux,usable-memory")
        reg    == IF usable.ok THEN usable ELSE fdt_getprop(fdt, node, "reg")
    IN  IF ~type.ok \/ ~str_eq(type.val[1], "memory") \/ ~reg.ok THEN Goes(dt)
        ELSE Goes(add_memory(reg.val, dt))

\* it is "chosen", "root" or "memory"
scan_callback(it, fdt, node, uname, depth, dt) ==
    CASE it = "chosen" -> early_init_dt_scan_chosen(fdt, node, uname, depth, dt)
      [] it = "root"   -> early_init_dt_scan_root(fdt, node, uname, depth, dt)
      [] it = "memory" -> early_init_dt_scan_memory(fdt, node, uname, depth, dt)

RECURSIVE scan_from(_, _, _, _, _)
scan_from(it, fdt, offset, depth, dt) ==
    IF offset < 0 \/ depth < 0 THEN dt
    ELSE LET r == scan_callback(it, fdt, offset, fdt_get_name(fdt, offset).val,
                                depth, dt)
             n == fdt_next_node_depth(fdt, offset, depth)
         IN  IF r.rc # 0 THEN r.dt ELSE scan_from(it, fdt, n.offset, n.depth, r.dt)

of_scan_flat_dt(it, fdt, dt) ==
    LET first == fdt_next_node_depth(fdt, -1, -1)
    IN  scan_from(it, fdt, first.offset, first.depth, dt)

early_init_dt_scan_nodes(fdt, dt) ==
    of_scan_flat_dt("memory", fdt,
        of_scan_flat_dt("root", fdt, of_scan_flat_dt("chosen", fdt, dt)))

of_get_flat_dt_size(fdt) == fdt.totalsize

of_dt_move(fdt, size) == fdt_move(fdt, size)
=============================================================================
