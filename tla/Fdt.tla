-------------------------------- MODULE Fdt --------------------------------
(***************************************************************************)
(* The flattened device tree and the queries libfdt answers about it       *)
(* (kernel/libfdt/fdt.c, fdt_ro.c).                                        *)
(*                                                                         *)
(* A blob is a record of its header fields, of the tokens of its structure *)
(* block, of the strings of its strings block and of its reserve map.  A   *)
(* token stands for one tag with what belongs to it and takes one unit; an *)
(* offset is the number of tokens before it, so every offset is aligned.   *)
(* A token whose tag is unknown, or whose name or value runs past the end  *)
(* of the block, has the tag FDT_TORN.  The layouts of versions before 16  *)
(* (full paths as names, 8-byte alignment of values) are left out.         *)
(*                                                                         *)
(* A node name is [base, unit]: what stands before and after its '@'.  A   *)
(* property value is the sequence of its cells, of its strings, or a path. *)
(* Where the C code returns NULL and stores a length or an error through   *)
(* lenp, the operator returns [ok, val, len].                              *)
(***************************************************************************)
EXTENDS Integers, Sequences, SequencesExt, FiniteSetsExt

CONSTANT UINT_MAX     \* the largest uint32_t of a header field

INT_MAX == UINT_MAX \div 2

U32(x) == x % (UINT_MAX + 1)

FDT_BEGIN_NODE == "begin_node"
FDT_END_NODE   == "end_node"
FDT_PROP       == "prop"
FDT_NOP        == "nop"
FDT_END        == "end"
FDT_TORN       == "torn"

FDT_MAGIC    == "magic"
FDT_SW_MAGIC == "sw_magic"

FDT_FIRST_SUPPORTED_VERSION == 2
FDT_LAST_SUPPORTED_VERSION  == 17

FDT_ERR_NOTFOUND     == 1
FDT_ERR_NOSPACE      == 3
FDT_ERR_BADOFFSET    == 4
FDT_ERR_BADPATH      == 5
FDT_ERR_BADPHANDLE   == 6
FDT_ERR_BADSTATE     == 7
FDT_ERR_TRUNCATED    == 8
FDT_ERR_BADMAGIC     == 9
FDT_ERR_BADVERSION   == 10
FDT_ERR_BADSTRUCTURE == 11
FDT_ERR_INTERNAL     == 13
FDT_ERR_BADNCELLS    == 14
FDT_ERR_BADVALUE     == 15

FDT_MAX_NCELLS == 4

\* The header sizes and the size of a reserve entry, in 32-bit words.
FDT_V1_SIZE == 7
FDT_RESERVE_ENTRY_SIZE == 4

fdt_header_size_(version) ==
    CASE version <= 1  -> FDT_V1_SIZE
      [] version = 2   -> FDT_V1_SIZE + 1
      [] version \in 3 .. 16 -> FDT_V1_SIZE + 2
      [] version > 16  -> FDT_V1_SIZE + 3

fdt_ro_probe_(fdt) ==
    CASE fdt.magic = FDT_MAGIC ->
           IF \/ fdt.version < FDT_FIRST_SUPPORTED_VERSION
              \/ fdt.last_comp_version > FDT_LAST_SUPPORTED_VERSION
           THEN -FDT_ERR_BADVERSION ELSE 0
      [] fdt.magic = FDT_SW_MAGIC ->
           IF fdt.size_dt_struct = 0 THEN -FDT_ERR_BADSTATE ELSE 0
      [] OTHER -> -FDT_ERR_BADMAGIC

check_off_(hdrsize, totalsize, off) == off >= hdrsize /\ off <= totalsize

\* Mutant of check_block_: base + size may wrap around.
check_block_wraps(hdrsize, totalsize, base, size) ==
    /\ check_off_(hdrsize, totalsize, base)
    /\ check_off_(hdrsize, totalsize, U32(base + size))

check_block_(hdrsize, totalsize, base, size) ==
    /\ check_off_(hdrsize, totalsize, base)
    /\ U32(base + size) >= base
    /\ check_off_(hdrsize, totalsize, U32(base + size))

fdt_check_header(fdt) ==
    LET hdrsize == fdt_header_size_(fdt.version)
    IN  IF fdt.magic # FDT_MAGIC THEN -FDT_ERR_BADMAGIC
        ELSE IF \/ fdt.version < FDT_FIRST_SUPPORTED_VERSION
                \/ fdt.last_comp_version > FDT_LAST_SUPPORTED_VERSION
                \/ fdt.version < fdt.last_comp_version
        THEN -FDT_ERR_BADVERSION
        ELSE IF \/ fdt.totalsize < hdrsize
                \/ fdt.totalsize > INT_MAX
                \/ ~check_off_(hdrsize, fdt.totalsize, fdt.off_mem_rsvmap)
                \/ IF fdt.version < 17
                   THEN ~check_off_(hdrsize, fdt.totalsize, fdt.off_dt_struct)
                   ELSE ~check_block_(hdrsize, fdt.totalsize,
                                      fdt.off_dt_struct, fdt.size_dt_struct)
                \/ ~check_block_(hdrsize, fdt.totalsize,
                                 fdt.off_dt_strings, fdt.size_dt_strings)
        THEN -FDT_ERR_TRUNCATED
        ELSE 0

\* Whether len units of the structure block can be read from offset on.
fdt_offset_ptr(fdt, offset, len) ==
    LET absoffset == U32(offset + fdt.off_dt_struct)
    IN  /\ absoffset >= U32(offset)
        /\ U32(absoffset + len) >= absoffset
        /\ U32(absoffset + len) <= fdt.totalsize
        /\ fdt.version >= 17 => /\ U32(offset + len) >= U32(offset)
                                /\ U32(offset + len) <= fdt.size_dt_struct

\* The token that the bytes at offset hold; what lies behind the tokens is
\* some other block, where no tag is to be expected.
Token(fdt, offset) ==
    IF offset < Len(fdt.tokens) THEN fdt.tokens[offset + 1] ELSE [tag |-> FDT_TORN]

fdt_next_tag(fdt, offset) ==
    IF ~fdt_offset_ptr(fdt, offset, 1)
    THEN [tag |-> FDT_END, next |-> -FDT_ERR_TRUNCATED]
    ELSE IF Token(fdt, offset).tag = FDT_TORN
    THEN [tag |-> FDT_END, next |-> -FDT_ERR_BADSTRUCTURE]
    ELSE [tag |-> Token(fdt, offset).tag, next |-> offset + 1]

check_offset(fdt, offset, tag) ==
    LET checked(t) == IF offset < 0 \/ t.tag # tag THEN -FDT_ERR_BADOFFSET ELSE t.next
    IN  checked(fdt_next_tag(fdt, offset))

fdt_check_node_offset_(fdt, offset) == check_offset(fdt, offset, FDT_BEGIN_NODE)

fdt_check_prop_offset_(fdt, offset) == check_offset(fdt, offset, FDT_PROP)

(***************************************************************************)
(* fdt_next_node: counted says whether the caller passed a depth pointer;  *)
(* the result holds the offset returned and the depth left behind.         *)
(***************************************************************************)
RECURSIVE node_from(_, _, _, _)
node_from(fdt, offset, depth, counted) ==
    LET step(t) ==
          CASE t.tag = FDT_BEGIN_NODE -> [offset |-> offset, depth |-> depth + 1]
            [] t.tag = FDT_END_NODE ->
                 IF counted /\ depth - 1 < 0
                 THEN [offset |-> t.next, depth |-> depth - 1]
                 ELSE node_from(fdt, t.next, depth - 1, counted)
            [] t.tag = FDT_END ->
                 [depth  |-> depth,
                  offset |-> IF \/ t.next >= 0
                                \/ t.next = -FDT_ERR_TRUNCATED /\ ~counted
                             THEN -FDT_ERR_NOTFOUND ELSE t.next]
            [] OTHER -> node_from(fdt, t.next, depth, counted)
    IN  step(fdt_next_tag(fdt, offset))

next_node(fdt, offset, depth, counted) ==
    LET from(start) == IF start < 0 THEN [offset |-> start, depth |-> depth]
                       ELSE node_from(fdt, start, depth, counted)
    IN  from(IF offset < 0 THEN 0 ELSE fdt_check_node_offset_(fdt, offset))

fdt_next_node(fdt, offset) == next_node(fdt, offset, 0, FALSE).offset

fdt_next_node_depth(fdt, offset, depth) == next_node(fdt, offset, depth, TRUE)

fdt_first_subnode(fdt, offset) ==
    LET first(n) == IF n.offset < 0 \/ n.depth # 1 THEN -FDT_ERR_NOTFOUND ELSE n.offset
    IN  first(fdt_next_node_depth(fdt, offset, 0))

RECURSIVE subnode_from(_, _, _)
subnode_from(fdt, offset, depth) ==
    LET next(n) == IF n.offset < 0 \/ n.depth < 1 THEN -FDT_ERR_NOTFOUND
                   ELSE IF n.depth > 1 THEN subnode_from(fdt, n.offset, n.depth)
                   ELSE n.offset
    IN  next(fdt_next_node_depth(fdt, offset, depth))

fdt_next_subnode(fdt, offset) == subnode_from(fdt, offset, 1)

\* The blob that a successful fdt_move leaves in the buffer is the blob itself.
fdt_move(fdt, bufsize) ==
    IF fdt_ro_probe_(fdt) # 0 THEN fdt_ro_probe_(fdt)
    ELSE IF fdt.totalsize > bufsize THEN -FDT_ERR_NOSPACE
    ELSE 0

-----------------------------------------------------------------------------
Found(val) == [ok |-> TRUE, val |-> val, len |-> Len(val)]

Missing(err) == [ok |-> FALSE, val |-> <<>>, len |-> err]

\* fdt_get_name: the name of a node, or the error that lenp gets.
fdt_get_name(fdt, offset) ==
    LET name(start) == IF start < 0 THEN Missing(start)
                       ELSE [ok |-> TRUE, val |-> Token(fdt, offset).name, len |-> 0]
    IN  IF fdt_ro_probe_(fdt) # 0 THEN Missing(fdt_ro_probe_(fdt))
        ELSE name(fdt_check_node_offset_(fdt, offset))

NoUnit == "none"

\* A name without a unit address also stands for the same name with one.
name_eq(name, s) ==
    name.base = s.base /\ (name.unit = s.unit \/ s.unit = NoUnit)

fdt_nodename_eq_(fdt, offset, s) ==
    LET eq(p) == p.ok /\ name_eq(p.val, s) IN eq(fdt_get_name(fdt, offset))

\* The strings block holds one string per unit; nul says it is terminated.
fdt_get_string(fdt, stroffset) ==
    LET absoffset == U32(stroffset + fdt.off_dt_strings)
        at == IF fdt.magic = FDT_MAGIC THEN stroffset
                                       ELSE stroffset + fdt.size_dt_strings
    IN  IF fdt_ro_probe_(fdt) # 0 THEN Missing(fdt_ro_probe_(fdt))
        ELSE IF \/ absoffset >= fdt.totalsize
                \/ /\ fdt.magic = FDT_MAGIC
                   /\ \/ stroffset < 0
                      \/ fdt.version >= 17 /\ stroffset >= fdt.size_dt_strings
                \/ /\ fdt.magic = FDT_SW_MAGIC
                   /\ stroffset >= 0 \/ stroffset < -fdt.size_dt_strings
        THEN Missing(-FDT_ERR_BADOFFSET)
        ELSE IF at >= Len(fdt.strings) \/ ~fdt.strings[at + 1].nul
        THEN Missing(-FDT_ERR_TRUNCATED)
        ELSE [ok |-> TRUE, val |-> fdt.strings[at + 1].s, len |-> 1]

fdt_string_eq_(fdt, stroffset, s) ==
    LET eq(p) == p.ok /\ p.val = s IN eq(fdt_get_string(fdt, stroffset))

RECURSIVE nextprop_(_, _)
nextprop_(fdt, offset) ==
    LET step(t) ==
          CASE t.tag = FDT_END  -> IF t.next >= 0 THEN -FDT_ERR_BADSTRUCTURE
                                                  ELSE t.next
            [] t.tag = FDT_PROP -> offset
            [] t.tag = FDT_NOP  -> nextprop_(fdt, t.next)
            [] OTHER            -> -FDT_ERR_NOTFOUND
    IN  step(fdt_next_tag(fdt, offset))

\* The property that follows a node's or a property's tag, checked to be one.
property_after(fdt, offset) == IF offset < 0 THEN offset ELSE nextprop_(fdt, offset)

fdt_first_property_offset(fdt, nodeoffset) ==
    property_after(fdt, fdt_check_node_offset_(fdt, nodeoffset))

fdt_next_property_offset(fdt, propoffset) ==
    property_after(fdt, fdt_check_prop_offset_(fdt, propoffset))

\* fdt_get_property_by_offset_ with the value, which follows the header.
fdt_get_property_by_offset_(fdt, offset) ==
    LET prop(after) == IF after < 0 THEN Missing(after) ELSE Found(Token(fdt, offset).val)
    IN  prop(fdt_check_prop_offset_(fdt, offset))

RECURSIVE property_from(_, _, _)
property_from(fdt, offset, name) ==
    LET step(prop) ==
          IF ~prop.ok THEN Missing(-FDT_ERR_INTERNAL)
          ELSE IF fdt_string_eq_(fdt, Token(fdt, offset).nameoff, name) THEN prop
          ELSE property_from(fdt, fdt_next_property_offset(fdt, offset), name)
    IN  IF offset < 0 THEN Missing(offset)
        ELSE step(fdt_get_property_by_offset_(fdt, offset))

fdt_getprop(fdt, nodeoffset, name) ==
    property_from(fdt, fdt_first_property_offset(fdt, nodeoffset), name)

\* fdt_getprop_by_offset, asked for the name of the property too.
fdt_getprop_by_offset(fdt, offset) ==
    LET named(prop, name) == IF prop.ok /\ ~name.ok THEN name ELSE prop
    IN  named(fdt_get_property_by_offset_(fdt, offset),
              fdt_get_string(fdt, Token(fdt, offset).nameoff))

-----------------------------------------------------------------------------
\* Searching the tree: paths, aliases, ancestors.

RECURSIVE subnode_named(_, _, _, _)
subnode_named(fdt, offset, depth, name) ==
    LET next(n) == subnode_named(fdt, n.offset, n.depth, name)
    IN  IF depth < 0 THEN -FDT_ERR_NOTFOUND
        ELSE IF offset < 0 THEN offset
        ELSE IF depth = 1 /\ fdt_nodename_eq_(fdt, offset, name) THEN offset
        ELSE next(fdt_next_node_depth(fdt, offset, depth))

fdt_subnode_offset(fdt, offset, name) ==
    IF fdt_ro_probe_(fdt) # 0 THEN fdt_ro_probe_(fdt)
    ELSE subnode_named(fdt, offset, 0, name)

Path(names) == [absolute |-> TRUE, names |-> names]

Plain(base) == [base |-> base, unit |-> NoUnit]

\* The components of a path, looked up one below the other.
RECURSIVE path_from(_, _, _)
path_from(fdt, offset, names) ==
    LET below(child) == IF child < 0 THEN child ELSE path_from(fdt, child, Tail(names))
    IN  IF names = <<>> THEN offset
        ELSE below(fdt_subnode_offset(fdt, offset, Head(names)))

fdt_get_alias(fdt, name) ==
    LET alias(aliasoffset) == IF aliasoffset < 0 THEN Missing(aliasoffset)
                              ELSE fdt_getprop(fdt, aliasoffset, name)
    IN  alias(path_from(fdt, 0, <<Plain("aliases")>>))

\* A path that does not start with '/' starts with the name of an alias,
\* whose value is again a path.
RECURSIVE fdt_path_offset(_, _)
fdt_path_offset(fdt, path) ==
    LET by(alias) == IF ~alias.ok THEN -FDT_ERR_BADPATH
                     ELSE path_from(fdt, fdt_path_offset(fdt, alias.val[1]),
                                    Tail(path.names))
    IN  IF fdt_ro_probe_(fdt) # 0 THEN fdt_ro_probe_(fdt)
        ELSE IF path.absolute THEN path_from(fdt, 0, path.names)
        ELSE by(fdt_get_alias(fdt, Head(path.names).base))

\* The error that a walk of the tree towards nodeoffset ends with.
walk_error(offset) ==
    CASE offset = -FDT_ERR_NOTFOUND \/ offset >= 0 -> -FDT_ERR_BADOFFSET
      [] offset = -FDT_ERR_BADOFFSET -> -FDT_ERR_BADSTRUCTURE
      [] OTHER -> offset

\* A name is one unit long and the root's is empty; each is followed by '/'.
Written(name) == IF name.base = "" THEN 1 ELSE 2

PathLength(names) == FoldSeq(LAMBDA name, n : n + Written(name), 0, names)

RECURSIVE get_path_from(_, _, _, _, _, _)
get_path_from(fdt, offset, depth, nodeoffset, buf, buflen) ==
    IF offset < 0 \/ offset > nodeoffset
    THEN [err |-> walk_error(offset), names |-> <<>>]
    ELSE LET kept == SubSeq(buf, 1, Min({Len(buf), depth}))
             name == fdt_get_name(fdt, offset)
             room == PathLength(kept) + Written(name.val) <= buflen
             now  == IF Len(kept) >= depth /\ room THEN Append(kept, name.val)
                                                  ELSE kept
             n    == fdt_next_node_depth(fdt, offset, depth)
         IN  IF Len(kept) >= depth /\ ~name.ok
             THEN [err |-> name.len, names |-> <<>>]
             ELSE IF offset = nodeoffset
             THEN IF Len(now) < depth + 1
                  THEN [err |-> -FDT_ERR_NOSPACE, names |-> <<>>]
                  ELSE [err |-> 0, names |-> Tail(now)]
             ELSE get_path_from(fdt, n.offset, n.depth, nodeoffset, now, buflen)

fdt_get_path(fdt, nodeoffset, buflen) ==
    IF fdt_ro_probe_(fdt) # 0 THEN [err |-> fdt_ro_probe_(fdt), names |-> <<>>]
    ELSE IF buflen < 2 THEN [err |-> -FDT_ERR_NOSPACE, names |-> <<>>]
    ELSE get_path_from(fdt, 0, 0, nodeoffset, <<>>, buflen)

RECURSIVE supernode_from(_, _, _, _, _, _)
supernode_from(fdt, offset, depth, nodeoffset, wanted, seen) ==
    LET super == IF depth = wanted THEN offset ELSE seen
        next(n) == supernode_from(fdt, n.offset, n.depth, nodeoffset, wanted, super)
    IN  IF offset < 0 \/ offset > nodeoffset
        THEN [offset |-> walk_error(offset), depth |-> 0]
        ELSE IF offset = nodeoffset
        THEN [offset |-> IF wanted > depth THEN -FDT_ERR_NOTFOUND ELSE super,
              depth  |-> depth]
        ELSE next(fdt_next_node_depth(fdt, offset, depth))

fdt_supernode_atdepth_offset(fdt, nodeoffset, supernodedepth) ==
    IF fdt_ro_probe_(fdt) # 0 THEN [offset |-> fdt_ro_probe_(fdt), depth |-> 0]
    ELSE IF supernodedepth < 0 THEN [offset |-> -FDT_ERR_NOTFOUND, depth |-> 0]
    ELSE supernode_from(fdt, 0, 0, nodeoffset, supernodedepth, -FDT_ERR_INTERNAL)

fdt_node_depth(fdt, nodeoffset) ==
    LET depth(s) == CASE s.offset = 0 -> s.depth
                      [] s.offset < 0 -> s.offset
                      [] OTHER        -> -FDT_ERR_INTERNAL
    IN  depth(fdt_supernode_atdepth_offset(fdt, nodeoffset, 0))

fdt_parent_offset(fdt, nodeoffset) ==
    LET parent(nodedepth) ==
          IF nodedepth < 0 THEN nodedepth
          ELSE fdt_supernode_atdepth_offset(fdt, nodeoffset, nodedepth - 1).offset
    IN  parent(fdt_node_depth(fdt, nodeoffset))

-----------------------------------------------------------------------------
\* Searching by what a node holds.

fdt_get_phandle(fdt, nodeoffset) ==
    LET either(php, legacy) ==
          CASE php.ok /\ php.len = 1 -> php.val[1]
            [] ~(php.ok /\ php.len = 1) /\ legacy.ok /\ legacy.len = 1 -> legacy.val[1]
            [] OTHER -> 0
    IN  either(fdt_getprop(fdt, nodeoffset, "phandle"),
               fdt_getprop(fdt, nodeoffset, "linux,phandle"))

RECURSIVE max_phandle_from(_, _, _)
max_phandle_from(fdt, offset, max_phandle) ==
    LET larger(phandle) == IF phandle # UINT_MAX /\ phandle > max_phandle
                           THEN phandle ELSE max_phandle
    IN  IF offset = -FDT_ERR_NOTFOUND THEN max_phandle
        ELSE IF offset < 0 THEN UINT_MAX
        ELSE max_phandle_from(fdt, fdt_next_node(fdt, offset),
                              larger(fdt_get_phandle(fdt, offset)))

fdt_get_max_phandle(fdt) == max_phandle_from(fdt, fdt_next_node(fdt, -1), 0)

RECURSIVE prop_value_from(_, _, _, _)
prop_value_from(fdt, offset, propname, propval) ==
    LET same(p) == p.ok /\ p.val = propval
    IN  IF offset < 0 THEN offset
        ELSE IF same(fdt_getprop(fdt, offset, propname)) THEN offset
        ELSE prop_value_from(fdt, fdt_next_node(fdt, offset), propname, propval)

fdt_node_offset_by_prop_value(fdt, startoffset, propname, propval) ==
    IF fdt_ro_probe_(fdt) # 0 THEN fdt_ro_probe_(fdt)
    ELSE prop_value_from(fdt, fdt_next_node(fdt, startoffset), propname, propval)

RECURSIVE phandle_from(_, _, _)
phandle_from(fdt, offset, phandle) ==
    IF offset < 0 \/ fdt_get_phandle(fdt, offset) = phandle THEN offset
    ELSE phandle_from(fdt, fdt_next_node(fdt, offset), phandle)

fdt_node_offset_by_phandle(fdt, phandle) ==
    IF phandle = 0 \/ phandle = UINT_MAX THEN -FDT_ERR_BADPHANDLE
    ELSE IF fdt_ro_probe_(fdt) # 0 THEN fdt_ro_probe_(fdt)
    ELSE phandle_from(fdt, fdt_next_node(fdt, -1), phandle)

\* A string list is a sequence of [s, nul, zero]; only its last string can
\* lack the terminating NUL, and then zero says whether the byte behind the
\* value happens to be one, which memcmp and strcmp cannot tell from it.
str_eq(p, str) == p.s = str /\ (p.nul \/ p.zero)

fdt_stringlist_contains(strlist, str) ==
    \E i \in DOMAIN strlist : str_eq(strlist[i], str)

Terminated(strlist) == \A i \in DOMAIN strlist : strlist[i].nul

fdt_stringlist_count(fdt, nodeoffset, property) ==
    LET count(list) == CASE ~list.ok -> list.len
                         [] list.ok /\ ~Terminated(list.val) -> -FDT_ERR_BADVALUE
                         [] OTHER -> Len(list.val)
    IN  count(fdt_getprop(fdt, nodeoffset, property))

RECURSIVE stringlist_search(_, _, _)
stringlist_search(list, string, idx) ==
    IF list = <<>> THEN -FDT_ERR_NOTFOUND
    ELSE IF ~Head(list).nul THEN -FDT_ERR_BADVALUE
    ELSE IF Head(list).s = string THEN idx
    ELSE stringlist_search(Tail(list), string, idx + 1)

fdt_stringlist_search(fdt, nodeoffset, property, string) ==
    LET list == fdt_getprop(fdt, nodeoffset, property)
    IN  IF ~list.ok THEN list.len ELSE stringlist_search(list.val, string, 0)

RECURSIVE stringlist_get(_, _)
stringlist_get(list, idx) ==
    IF list = <<>> THEN Missing(-FDT_ERR_NOTFOUND)
    ELSE IF ~Head(list).nul THEN Missing(-FDT_ERR_BADVALUE)
    ELSE IF idx = 0 THEN [ok |-> TRUE, val |-> Head(list).s, len |-> 1]
    ELSE stringlist_get(Tail(list), idx - 1)

fdt_stringlist_get(fdt, nodeoffset, property, idx) ==
    LET list == fdt_getprop(fdt, nodeoffset, property)
    IN  IF ~list.ok THEN list ELSE stringlist_get(list.val, idx)

fdt_node_check_compatible(fdt, nodeoffset, compatible) ==
    LET check(prop) == CASE ~prop.ok -> prop.len
                         [] prop.ok /\ fdt_stringlist_contains(prop.val, compatible) -> 0
                         [] OTHER -> 1
    IN  check(fdt_getprop(fdt, nodeoffset, "compatible"))

RECURSIVE compatible_from(_, _, _)
compatible_from(fdt, offset, compatible) ==
    LET step(err) ==
          CASE err < 0 /\ err # -FDT_ERR_NOTFOUND -> err
            [] err = 0 -> offset
            [] OTHER -> compatible_from(fdt, fdt_next_node(fdt, offset), compatible)
    IN  IF offset < 0 THEN offset
        ELSE step(fdt_node_check_compatible(fdt, offset, compatible))

fdt_node_offset_by_compatible(fdt, startoffset, compatible) ==
    IF fdt_ro_probe_(fdt) # 0 THEN fdt_ro_probe_(fdt)
    ELSE compatible_from(fdt, fdt_next_node(fdt, startoffset), compatible)

cells(fdt, nodeoffset, name, least) ==
    LET number(c) ==
          CASE ~c.ok -> 2
            [] c.ok /\ (c.len # 1 \/ c.val[1] < least \/ c.val[1] > FDT_MAX_NCELLS)
                 -> -FDT_ERR_BADNCELLS
            [] OTHER -> c.val[1]
    IN  number(fdt_getprop(fdt, nodeoffset, name))

fdt_address_cells(fdt, nodeoffset) == cells(fdt, nodeoffset, "#address-cells", 1)

fdt_size_cells(fdt, nodeoffset) == cells(fdt, nodeoffset, "#size-cells", 0)

-----------------------------------------------------------------------------
\* The reserve map, and the check of a whole blob.

NoEntry == [address |-> 0, size |-> -1]

\* What the bytes behind an unterminated reserve map read as.
OtherBlock == [address |-> 1, size |-> 1]

fdt_mem_rsv(fdt, n) ==
    LET absoffset == fdt.off_mem_rsvmap + n * FDT_RESERVE_ENTRY_SIZE
    IN  IF absoffset > fdt.totalsize - FDT_RESERVE_ENTRY_SIZE THEN NoEntry
        ELSE IF n < Len(fdt.rsv) THEN fdt.rsv[n + 1]
        ELSE OtherBlock

fdt_get_mem_rsv(fdt, n) ==
    IF fdt_ro_probe_(fdt) # 0 THEN [err |-> fdt_ro_probe_(fdt), re |-> NoEntry]
    ELSE IF fdt_mem_rsv(fdt, n) = NoEntry
    THEN [err |-> -FDT_ERR_BADOFFSET, re |-> NoEntry]
    ELSE [err |-> 0, re |-> fdt_mem_rsv(fdt, n)]

RECURSIVE num_mem_rsv_from(_, _)
num_mem_rsv_from(fdt, i) ==
    CASE fdt_mem_rsv(fdt, i) = NoEntry   -> -FDT_ERR_TRUNCATED
      [] fdt_mem_rsv(fdt, i).size = 0    -> i
      [] OTHER                           -> num_mem_rsv_from(fdt, i + 1)

fdt_num_mem_rsv(fdt) == num_mem_rsv_from(fdt, 0)

RECURSIVE check_from(_, _, _)
check_from(fdt, offset, depth) ==
    LET t == fdt_next_tag(fdt, offset)
        prop == fdt_getprop_by_offset(fdt, offset)
    IN  IF t.next < 0 THEN t.next
        ELSE CASE t.tag = FDT_NOP        -> check_from(fdt, t.next, depth)
               [] t.tag = FDT_END        -> IF depth # 0 THEN -FDT_ERR_BADSTRUCTURE
                                                         ELSE 0
               [] t.tag = FDT_BEGIN_NODE ->
                    IF depth + 1 > INT_MAX THEN -FDT_ERR_BADSTRUCTURE
                    ELSE check_from(fdt, t.next, depth + 1)
               [] t.tag = FDT_END_NODE   ->
                    IF depth = 0 THEN -FDT_ERR_BADSTRUCTURE
                    ELSE check_from(fdt, t.next, depth - 1)
               [] t.tag = FDT_PROP       ->
                    IF ~prop.ok THEN prop.len
                    ELSE check_from(fdt, t.next, depth)

fdt_check_full(fdt, bufsize) ==
    IF bufsize < FDT_V1_SIZE THEN -FDT_ERR_TRUNCATED
    ELSE IF fdt_check_header(fdt) # 0 THEN fdt_check_header(fdt)
    ELSE IF bufsize < fdt.totalsize THEN -FDT_ERR_TRUNCATED
    ELSE IF fdt_num_mem_rsv(fdt) < 0 THEN fdt_num_mem_rsv(fdt)
    ELSE check_from(fdt, 0, 0)
=============================================================================
