----------------------------- MODULE DeviceTree -----------------------------
(***************************************************************************)
(* The tree that a device-tree blob encodes, and what a query about it     *)
(* should answer.  A tree is the sequence of its nodes in preorder; a node *)
(* has its name, its parent's position (0 for the root) and its properties *)
(* in order.  Encode flattens a tree the way the format of fdt.h says.     *)
(***************************************************************************)
EXTENDS Of

Node(name, parent, props) == [name |-> name, parent |-> parent, props |-> props]

Prop(name, val) == [name |-> name, val |-> val]

Str(s) == [s |-> s, nul |-> TRUE, zero |-> FALSE]

Nodes(T) == DOMAIN T

Children(T, i) == {j \in Nodes(T) : T[j].parent = i}

\* The properties of the trees, in the order the strings block has them.
KnownProps ==
    <<"#address-cells", "#size-cells", "bootargs", "compatible", "device_type",
      "linux,phandle", "linux,usable-memory", "phandle", "reg", "serial0">>

PropNames(T) == {p.name : p \in UNION {ToSet(T[i].props) : i \in Nodes(T)}}

\* The elements of a set of positive numbers, ascending.
Ascending(S) ==
    IF S = {} THEN <<>> ELSE SelectSeq([k \in 1 .. Max(S) |-> k], LAMBDA k : k \in S)

First(S, none) == IF S = {} THEN none ELSE Min(S)

-----------------------------------------------------------------------------
\* The format.

NameOffset(strings, name) == CHOOSE k \in DOMAIN strings : strings[k].s = name

RECURSIVE NodeTokens(_, _, _, _)
NodeTokens(T, i, strings, pad) ==
    LET prop(p) == <<[tag |-> FDT_PROP, val |-> p.val,
                      nameoff |-> NameOffset(strings, p.name) - 1]>> \o pad
        props   == FlattenSeq([k \in DOMAIN T[i].props |-> prop(T[i].props[k])])
        below   == Ascending(Children(T, i))
        nodes   == FlattenSeq([k \in DOMAIN below |->
                                 NodeTokens(T, below[k], strings, pad)])
    IN  <<[tag |-> FDT_BEGIN_NODE, name |-> T[i].name]>> \o pad
          \o props \o nodes \o <<[tag |-> FDT_END_NODE]>> \o pad

\* The blob of tree T; pad is put behind every token, rsv is the reserve map
\* without its terminating entry.
Encode(T, pad, rsv) ==
    LET used(n) == n \in PropNames(T)
        strings == [k \in DOMAIN SelectSeq(KnownProps, used) |->
                      Str(SelectSeq(KnownProps, used)[k])]
        tokens  == NodeTokens(T, 1, strings, pad) \o <<[tag |-> FDT_END]>>
        map     == Append(rsv, [address |-> 0, size |-> 0])
        hdr     == fdt_header_size_(17)
        struct  == hdr + Len(map) * FDT_RESERVE_ENTRY_SIZE
    IN  [magic |-> FDT_MAGIC, version |-> 17, last_comp_version |-> 16,
         off_mem_rsvmap |-> hdr, rsv |-> map,
         off_dt_struct |-> struct, size_dt_struct |-> Len(tokens), tokens |-> tokens,
         off_dt_strings |-> struct + Len(tokens),
         size_dt_strings |-> Len(strings), strings |-> strings,
         totalsize |-> struct + Len(tokens) + Len(strings)]

\* Where node i of the tree stands in the structure block, torn or not.
NodeOffset(fdt, i) ==
    LET begins == {k \in DOMAIN fdt.tokens : "name" \in DOMAIN fdt.tokens[k]}
    IN  Ascending(begins)[i] - 1

-----------------------------------------------------------------------------
\* What the queries mean.

RECURSIVE Ancestors(_, _)
Ancestors(T, i) ==
    IF T[i].parent = 0 THEN <<>> ELSE Append(Ancestors(T, T[i].parent), T[i].parent)

Depth(T, i) == Len(Ancestors(T, i))

PathOf(T, i) ==
    LET line == Append(Ancestors(T, i), i)
    IN  [k \in 1 .. Len(line) - 1 |-> T[line[k + 1]].name]

\* The first child with a matching name, component by component.
RECURSIVE LookupFrom(_, _, _)
LookupFrom(T, i, names) ==
    IF names = <<>> \/ i = 0 THEN i
    ELSE LookupFrom(T, First({j \in Children(T, i) : name_eq(T[j].name, Head(names))}, 0),
                    Tail(names))

Lookup(T, names) == LookupFrom(T, 1, names)

PropPlaces(T, i, name) == {k \in DOMAIN T[i].props : T[i].props[k].name = name}

HasProp(T, i, name) == PropPlaces(T, i, name) # {}

PropOf(T, i, name) == T[i].props[Min(PropPlaces(T, i, name))].val

FirstString(T, i, name) == PropOf(T, i, name)[1].s

IsCompatible(T, i, compat) ==
    /\ HasProp(T, i, "compatible")
    /\ \E p \in ToSet(PropOf(T, i, "compatible")) : p.s = compat /\ (p.nul \/ p.zero)

Phandle(T, i) ==
    CASE HasProp(T, i, "phandle") -> PropOf(T, i, "phandle")[1]
      [] ~HasProp(T, i, "phandle") /\ HasProp(T, i, "linux,phandle")
           -> PropOf(T, i, "linux,phandle")[1]
      [] OTHER -> 0

\* The cells that the addresses of node i have: its nearest ancestor's say.
Cells(T, i, name, default) ==
    LET above == {j \in ToSet(Ancestors(T, i)) : HasProp(T, j, name)}
    IN  IF above = {} THEN default ELSE PropOf(T, Max(above), name)[1]

AddrCells(T, i) == Cells(T, i, "#address-cells", 2)

SizeCells(T, i) == Cells(T, i, "#size-cells", 1)

Number(cell) == IF cell = <<>> THEN 0 ELSE FoldLeft(LAMBDA r, c : r * CELL + c, 0, cell)

\* The (base, size) pairs of a reg property with the given cells.
Ranges(reg, ac, sc) ==
    {[base |-> Number(SubSeq(reg, k + 1, k + ac)),
      size |-> Number(SubSeq(reg, k + ac + 1, k + ac + sc))] :
        k \in {n * (ac + sc) : n \in 0 .. (Len(reg) \div (ac + sc)) - 1}}

MemoryNodes(T) ==
    {i \in Nodes(T) : /\ HasProp(T, i, "device_type")
                      /\ FirstString(T, i, "device_type") = "memory"}

RootCells(T, name, default) ==
    IF HasProp(T, 1, name) THEN PropOf(T, 1, name)[1] ELSE default

\* The addresses of the memory the tree describes.
MemoryOf(T) ==
    LET reg(i) == IF HasProp(T, i, "linux,usable-memory")
                  THEN PropOf(T, i, "linux,usable-memory")
                  ELSE IF HasProp(T, i, "reg") THEN PropOf(T, i, "reg") ELSE <<>>
        ranges == UNION {Ranges(reg(i), RootCells(T, "#address-cells", 2),
                                RootCells(T, "#size-cells", 1)) :
                            i \in MemoryNodes(T)}
    IN  UNION {r.base .. r.base + r.size - 1 : r \in ranges}
=============================================================================
