------------------------------- MODULE MCBoot -------------------------------
(***************************************************************************)
(* The boot loader's choices for TLC: memory in every order, the devices,  *)
(* and blobs that are padded, cut short, torn or wrongly described.        *)
(***************************************************************************)
EXTENDS Boot

Unit(base, unit) == [base |-> base, unit |-> unit]

Root(props) == Node(Plain(""), 0, props)

Compatible(list) == Prop("compatible", [k \in DOMAIN list |-> Str(list[k])])

CellProps(ac, sc) == <<Prop("#address-cells", <<ac>>), Prop("#size-cells", <<sc>>)>>

Cell1(x) == <<x>>
Cell2(x) == <<x \div CELL, x % CELL>>

CellsOf(x, n) == IF n = 1 THEN Cell1(x) ELSE Cell2(x)

Reg(ranges, ac, sc) ==
    FlattenSeq([k \in DOMAIN ranges |-> CellsOf(ranges[k].base, ac) \o CellsOf(ranges[k].size, sc)])

Memory(parent, reg) ==
    Node(Unit("memory", "80000000"), parent,
         <<Prop("device_type", <<Str("memory")>>), Prop("reg", reg)>>)

Chosen == Node(Plain("chosen"), 1, <<Prop("bootargs", <<Str("quiet")>>)>>)

Boot(T, f, whole, lost, dtb, image, payload) ==
    [tree |-> T, fdt |-> f, whole |-> whole, lost |-> lost, dtb |-> dtb,
     image |-> image, payload |-> payload]

Extent(start, end) == [start |-> start, end |-> end]

-----------------------------------------------------------------------------
\* Memory: up to three ranges in any order, in one node or a node for each.

MCRanges == {Region(0, 90), Region(256, 120), Region(370, 90), Region(376, 72),
             Region(512, 64), Region(448, 0), Region(16320, 100)}

MemorySeqs(most) == UNION {[1 .. n -> MCRanges] : n \in 1 .. most}

OneNode(ranges) == <<Root(<<>>), Chosen, Memory(1, Reg(ranges, 2, 1))>>

ManyNodes(ranges) ==
    <<Root(CellProps(2, 2)), Node(Plain("soc"), 1, CellProps(1, 1))>>
      \o [k \in DOMAIN ranges |-> Memory(1, Reg(<<ranges[k]>>, 2, 2))]

Usable(ranges) ==
    <<Root(CellProps(2, 1)),
      Node(Plain("memory"), 1,
           <<Prop("device_type", <<Str("memory")>>), Prop("reg", Reg(<<Region(64, 64)>>, 2, 1)),
             Prop("linux,usable-memory", Reg(ranges, 2, 1))>>)>>

Plans == {<<Extent(256, 300), Extent(300, 384)>>, <<Extent(320, 384), Extent(448, 448)>>,
          <<Extent(512, 520), Extent(256, 320)>>}

MemoryBoot(T, dtb, plan) ==
    Boot(T, Encode(T, <<>>, <<>>), TRUE, 0, dtb, plan[1], plan[2])

MemoryBoots ==
    {MemoryBoot(OneNode(m), 160, p) : m \in MemorySeqs(3), p \in Plans}
    \cup {MemoryBoot(OneNode(m), 540, p) : m \in MemorySeqs(2), p \in Plans}
    \cup {MemoryBoot(T, 160, p) :
            T \in UNION {{ManyNodes(m), Usable(m)} : m \in MemorySeqs(2)}, p \in Plans}

-----------------------------------------------------------------------------
\* Devices: which are there, where, and with which cells.

MCMemory == Memory(1, Reg(<<Region(512, 127)>>, 2, 1))

Device(name, parent, compat, reg) ==
    Node(name, parent, <<Compatible(compat)>> \o reg)

At(x) == <<Prop("reg", Cell2(x) \o <<1>>)>>

Short(x) == <<Prop("reg", <<x, 1>>)>>

Htifs == {<<>>, <<Node(Plain("htif"), 1, <<>>)>>}

Uarts == {<<>>,
          <<Device(Unit("uart", "1"), 1, <<"ns16550a">>, At(700))>>,
          <<Device(Unit("uart", "2"), 1, <<"ns16550", "ns16550a">>, At(701)),
            Device(Unit("uart", "1"), 1, <<"ns16550a">>, At(700))>>,
          <<Device(Plain("uart"), 1, <<"other">>, At(700))>>,
          <<Device(Plain("uart"), 1, <<"ns16550a">>, <<>>)>>,
          <<Device(Plain("uart2"), 1, <<"ns16550a">>, At(700))>>}

Tests == {<<>>, <<Device(Plain("test"), 1, <<"test">>, At(900))>>,
          <<Device(Unit("test", "9"), 1, <<"test">>, <<>>)>>}

\* The serial ports below /soc, which may have cells of its own.
Serial == {<<>>,
           <<<<"sifive,uart0">>>>,
           <<<<"sifive,uart0">>, <<"sifive,uart0">>, <<"sifive,uart0">>>>,
           <<<<"other", "sifive,uart0">>, <<"sifive,uart0">>>>}

Socs == {[own |-> own, serial |-> s, skip |-> skip] :
            own \in {0, 1, 2}, s \in Serial, skip \in {0, 1}}

RootOf(own) == IF own = 0 THEN Root(<<>>) ELSE Root(CellProps(2, 1))

DevTree(htif, uart, test, soc) ==
    LET before == <<RootOf(soc.own)>> \o htif \o <<MCMemory>> \o uart \o test
        place  == Len(before) + 1
        reg(k) == IF k = soc.skip THEN <<>>
                  ELSE IF soc.own = 1 THEN Short(80 + k) ELSE At(800 + k)
    IN  before
          \o <<Node(Plain("soc"), 1, IF soc.own = 0 THEN <<>> ELSE CellProps(soc.own, 1))>>
          \o [k \in DOMAIN soc.serial |->
                Device(Unit("serial", "1"), place, soc.serial[k], reg(k))]

DeviceBoots ==
    {Boot(T, Encode(T, <<>>, <<>>), TRUE, 0, 160, Extent(256, 300), Extent(300, 384)) :
        T \in {DevTree(h, u, t, s) : h \in Htifs, u \in Uarts, t \in Tests, s \in Socs}}

\* Serial ports below a bus of /soc: the cells are set by the bus, by /soc, by
\* both, or by neither, whatever the root has.
OwnCells(n) == IF n = 0 THEN <<>> ELSE CellProps(n, 1)

NestedTree(root, soc, bus, own) ==
    LET given == SelectSeq(<<bus, soc, root, 2>>, LAMBDA n : n # 0)
        ac    == Head(given)
    IN  <<Root(OwnCells(root)),
          Memory(1, Reg(<<Region(16, 112)>>, IF root = 0 THEN 2 ELSE root, 1)),
          Node(Plain("soc"), 1, OwnCells(soc)),
          Node(Plain("bus"), 3, OwnCells(bus)),
          Node(Plain("serial"), 4, OwnCells(own) \o <<Compatible(<<"sifive,uart0">>),
               Prop("reg", CellsOf(100, ac) \o <<1>>)>>)>>

NestedBoots ==
    {Boot(T, Encode(T, <<>>, <<>>), TRUE, 0, 160, Extent(0, 8), Extent(8, 16)) :
        T \in {NestedTree(r, s, b, o) : r, s, b, o \in {0, 1, 2}}}

\* Trees whose cells of_n_addr_cells does not see.
IrregularBoots ==
    {Boot(T, Encode(T, <<>>, <<>>), TRUE, 0, 160, Extent(0, 8), Extent(8, 16)) :
        T \in {<<Root(CellProps(1, 1)), Memory(1, <<16, 64>>),
                 Device(Plain("uart"), 1, <<"ns16550a">>, Short(7))>>,
               <<Root(CellProps(2, 1)), MCMemory,
                 Node(Plain("uart"), 1, CellProps(1, 1) \o <<Compatible(<<"ns16550a">>)>> \o At(700))>>}}

-----------------------------------------------------------------------------
\* Queries: names with and without units, the same name at two depths, empty
\* nodes, aliases and phandles, with and without NOPs.

Open(s, zero) == [s |-> s, nul |-> FALSE, zero |-> zero]

QueryTrees ==
    {<<Root(<<>>)>>,
     <<Root(<<>>), Node(Plain("a"), 1, <<>>), Node(Plain("a"), 2, <<>>),
       Node(Plain("b"), 3, <<>>), Node(Unit("a", "1"), 1, <<>>), Node(Plain("b"), 5, <<>>)>>,
     <<Root(<<Prop("phandle", <<4>>)>>),
       Node(Unit("a", "2"), 1, <<Prop("linux,phandle", <<3>>)>>),
       Node(Plain("c"), 2, <<Prop("phandle", <<2>>), Prop("linux,phandle", <<9>>)>>),
       Node(Unit("a", "1"), 1, <<Prop("reg", <<1>>), Prop("phandle", <<3>>), Prop("reg", <<2>>)>>)>>,
     <<Root(<<Compatible(<<"x">>)>>),
       Node(Plain("b"), 1, <<Compatible(<<"y", "x", "y">>)>>),
       Node(Plain("c"), 1, CellProps(0, 0)), Node(Plain("d"), 3, <<Compatible(<<"z", "y">>)>>)>>,
     <<Root(CellProps(3, 5)),
       Node(Plain("aliases"), 1, <<Prop("serial0", <<Path(<<Plain("a")>>)>>)>>),
       Node(Unit("a", "1"), 1, <<Prop("compatible", <<Str("x"), Open("y", TRUE)>>)>>),
       Node(Plain("b"), 3, <<Prop("compatible", <<Open("x", FALSE)>>)>>)>>,
     <<Root(<<>>), Node(Plain("b"), 1, <<>>),
       Node(Plain("aliases"), 1, <<Prop("serial0", <<Path(<<Plain("b"), Plain("b")>>)>>)>>)>>}

Nop == [tag |-> FDT_NOP]

QueryBoot(T, f, whole, lost) == Boot(T, f, whole, lost, 160, Extent(256, 300), Extent(300, 384))

WholeBoots ==
    {QueryBoot(T, [Encode(T, pad, rsv) EXCEPT !.version = v], TRUE, 0) :
        T \in QueryTrees, pad \in {<<>>, <<Nop>>, <<Nop, Nop>>},
        rsv \in {<<>>, <<[address |-> 5, size |-> 6]>>}, v \in {16, 17}}

\* The blob f cut short, or torn, behind its first k tokens.
Cut(f, k) == [f EXCEPT !.size_dt_struct = k]

Torn(f, k) == [f EXCEPT !.tokens[k + 1].tag = FDT_TORN]

DamagedBoots ==
    UNION {LET f == Encode(T, pad, <<>>)
           IN  {QueryBoot(T, g, FALSE, k) :
                  <<g, k>> \in UNION {{<<Cut(f, k), k>>, <<Torn(f, k), k>>} :
                                        k \in 1 .. Len(f.tokens) - 1}} :
             T \in QueryTrees \cup {OneNode(<<Region(512, 127)>>)}, pad \in {<<>>, <<Nop>>}}

BadHeaders ==
    LET T == <<Root(<<>>)>>
        f == Encode(T, <<>>, <<>>)
        bad == {[f EXCEPT !.magic = FDT_SW_MAGIC], [f EXCEPT !.magic = "other"],
                [f EXCEPT !.version = 1], [f EXCEPT !.last_comp_version = 18],
                [f EXCEPT !.version = 15], [f EXCEPT !.totalsize = 9],
                [f EXCEPT !.totalsize = INT_MAX + 1], [f EXCEPT !.off_mem_rsvmap = 9],
                [f EXCEPT !.off_dt_struct = f.totalsize + 1],
                [f EXCEPT !.size_dt_struct = UINT_MAX - f.off_dt_struct + 1],
                [f EXCEPT !.size_dt_struct = UINT_MAX],
                [f EXCEPT !.size_dt_strings = 1],
                [f EXCEPT !.size_dt_strings = UINT_MAX]}
    IN  {QueryBoot(T, b, FALSE, 0) : b \in bad}

\* The loader passes no blob.
NoBlob ==
    LET T == <<Root(<<>>)>>
    IN  {Boot(T, Encode(T, <<>>, <<>>), TRUE, 0, 0, Extent(256, 300), Extent(300, 384))}

MCBoots == MemoryBoots \cup DeviceBoots \cup NestedBoots \cup IrregularBoots
             \cup WholeBoots \cup DamagedBoots \cup BadHeaders \cup NoBlob
=============================================================================
