# Serval's monitors and BPF compilers in TLA+

The repository contains three security monitors for RISC-V, ports of Komodo,
CertiKOS and Keystone, together with the small kernel and BIOS they are linked
with, a host driver or user programs for each, a BPF interpreter and two BPF JIT
compilers, and Serval, the Rosette library that verifies one call of a monitor or
one compiled instruction at a time. The modules here model the monitors as
systems: every call in every order, with the software that runs in between and
the parts of the processor that keep it in bounds (page tables, PMP, TLB). They
model the boot of a monitor from the device tree to the payload, and the
compilers from the BPF program to the registers after each instruction. TLC
checks small instances. TLAPS proves, for all sizes, every safety property of the
monitors, the Komodo driver and the boot-time memory map that TLC checks, and both
refinements.

## The system

| Part | State | Operations | Hard behaviour | Properties |
|---|---|---|---|---|
| Komodo monitor (`monitors/komodo`) | page database, secure pages, host context, current dispatcher, CSRs, PMP | 13 SMC calls of the host, the exit call and the traps of an enclave | reuse of pages, stale tables, two-way world switch, interrupts at any instruction | ownership, exact counts, confined tables and walks, secrets, resume points, refinement |
| Komodo driver (`komodo/kernel`) | program counter, result | builds, runs and removes one enclave | resumes after any number of interrupts | the test passes, all pages come back |
| CertiKOS monitor (`monitors/certikos`) | process table, pages, current pid, PMP | spawn, yield, get_quota, getpid | a parent runs on after giving pages away, scheduling by linked ring | partition, ring, PMP, secrets, refinement, fairness |
| CertiKOS user library (`certikos/user`) | page and pid counters per process | load, page fault, spawn | counts kept twice | counts agree (they do not) |
| Keystone monitor (`monitors/keystone`) | enclave table, contexts, PMP entries, payload memory | create, destroy, run, resume, exit | overlapping regions, PMP priorities, mepc moved after a switch | regions, PMP agreement, isolation, secrets, resume points, calls return |
| Toy and test monitors | one word; none | two calls; unit tests | none | not modelled |
| Boot (`bios/mcall.c`, console drivers, `bios/shutdown.c`) | blob pointer, consoles, copy of the tree | the calls of `mcall_init`, shutdown | damaged trees, the copy may overwrite the original | copy placed clear of everything, devices found, shutdown works |
| Boot memory (`kernel/memblock.c`) | two sorted region arrays | add, reserve, allocate | merging, full arrays, capping, alignment | the map is exact, the highest place is taken |
| Device tree (`kernel/of.c`, `kernel/libfdt`) | none (a blob) | about 40 queries | truncation, wrap-around, NOPs, unterminated strings | queries answer what the tree says |
| BPF interpreter and JITs (`bpf`) | code, offset table, allocations, program objects | two passes and an extra pass, every opcode | failure at each step, 64-bit operations in halves, spilled registers | compiled code agrees with the interpreter, nothing leaks |
| Other kernel routines | none | strings, printing, cpio, hashes | none | not modelled |
| Serval, Racket utilities | none at run time | verification tools | none | not modelled |

A monitor runs on one hart in M-mode with interrupts disabled. A call or a trap
is therefore handled without interruption and is one action, from the trap to
the `mret`. What interleaves is what S-mode software does between calls.

## Modules

**Komodo.** `Komodo` models `monitor.c`, `traps.c` and `main.c`. `type` and
`addrspace_page` are `g_pagedb`; `secure_pages` holds for each page the structure
last written to it; `ctx`, `mepc`, `tlb`, `pmp5cfg`, `tvm` and `deleg` are the
processor. Each `kom_smc_*`, `kom_svc_exit` and `kom_handle_trap` is an action of
that name; the conditions under which it fails, in the order of the code, are in
an operator `*_err`. `load`, `store`, `compute` and `write_satp` are what the
processor lets software do: accesses go through a three-level walk of the actual
tables of every root the TLB may have cached, then through the PMP. Host tables
are arbitrary. `KomodoSpec` is the state machine of `verif/spec.rkt` without page
tables, counts, PMP or TLB, and `KomodoRefinement` the mapping: contexts of threads and
host map register group by register group (`a0` to `a2`, the other registers, the CSRs),
and the result of a call to the result the specification gives. `KomodoDriver`
runs `test()` of `kernel/main.c` and `kom_smc_execute` on top of the monitor.

**CertiKOS.** `Certikos` models `proc.c` and `traps.c`; `CertikosSpec` and
`CertikosRefinement` relate it to `verif/spec.rkt`, where each process has its
own registers and each page an owner. `CertikosUser` adds the bookkeeping of
`user/lib.c` and `user/loader.c`.

**Keystone.** `Keystone` models `enclave.c`, `pmp.c` and `traps.c`. Memory is
divided into the four-byte granules of the PMP, bounds are bytes, and
`pmp_range` drops the low bits as `pmpaddr_write` does. The lowest matching PMP
entry decides. `mepc` is followed through the `+ 4` at the end of
`do_trap_ecall_s`, which happens after a world switch. `scratch` is what `sscratch` and
`sie` hold: `csrs.h` does not list them, so host and enclaves share them.

**Boot.** `Fdt` has one operator for each function of libfdt's `fdt.c`, `fdt_ro.c` and
`fdt_addresses.c` that reads a tree. A blob is its header fields and a sequence of tokens,
one unit each; offsets count tokens, header arithmetic wraps at `UINT_MAX`.
`Of` is `of.c` on top of it. `DeviceTree` is
the tree itself, its encoding as a blob and the reference answers.
`Memblock` is `memblock.c`, a state machine of its own: `memblock` holds the two
arrays, each call is a step, and so is each iteration of its loops. `step` says which
loop the code is in, `adding` holds the locals of `memblock_add_range` and
`memblock_merge_regions`, `finding` those of `memblock_alloc` and the functions below
it. `PassBelow`, `PassCovered` and `PassPiece` are the ways through the body of the
loop that `memblock_add_range` runs twice, `CountRest` and `InsertRest` the ends of
its two rounds. `step` is `"full"` where the `BUG_ON` for a full array fires and `"BUG"`
where any other does. Two history variables that no guard reads, `asked` and
`counted`, record the ranges that were given and what the first round saw. `Boot` makes
the calls of `mcall_init` one by one: verify, the three console probes, the scan,
the two reservations, the allocation and the move of the copy, then the shutdown.
`Init` chooses what the boot loader left: the blob, its place, image and payload.

**BPF.** `BpfWords` has arithmetic on bytes of `ByteBits` bits, words of four and
double words of eight bytes; `BpfFilter` the instruction set (`filter.h`);
`BpfInterp` the interpreter (`kbpf.c`); `Riscv` the processor, as Serval's
`riscv/interp.rkt` executes it. `BpfJit32` and `BpfJit64` have one operator for each
emit function of the compilers; each returns the instructions it emits.
`BpfCompile` is `bpf_int_jit_compile` of the RV32 compiler with its two passes, the
extra pass, the allocations and the program objects; one call is one step.
`BpfJit` puts them together: compile, enter through the prologue, then in each
step the interpreter executes one BPF instruction and the processor the code that
was emitted for it, then return through the epilogue.

`MC*` modules hold constants that a configuration cannot express; `*Proofs`
modules hold the proofs.

## Abstractions

* A value is the enclave or process it is a secret of, or public. Registers and
  CSRs hold one label each, in Komodo with one more for the argument registers `a0` to
  `a2`, which `kom_smc_enter` writes. Enclaves are named by address-space page, pid or eid,
  so two enclaves that use the same name one after the other are not told apart
  by labels; stale contents of a page or table are.
* Stores of an enclave to insecure or shared memory, and exit values, are meant
  to be seen by others: they become public. So does what a Keystone enclave has in
  `sscratch` and `sie` when it exits, because the monitor leaves them as they are. The file id a parent passes to its
  child is public too, as is the read-only payload of CertiKOS, which is left out.
* Komodo page numbers are model values with page 0 named, because 0 is the idle
  value of `g_cur_dispatcher_pageno`.
* BPF words are scaled: with 3-bit bytes a word has 12 bits and a double word 24.
  Immediate fields of instructions have `ImmBits` bits, and the encodings are scaled
  with them; which instruction is emitted depends on the same comparisons as in
  the code. The field of a conditional branch is scaled too, to one bit more than
  `ImmBits`, so that programs of a few dozen instructions reach its limits. Register
  numbers, frame offsets, offset tables and the range of an unconditional jump are not
  scaled. A helper function is external: its result depends on all five arguments
  and it destroys everything it may; so is finding its address, which may fail in any
  pass.
* Device-tree names are pairs of base and unit address, values are sequences of
  cells, strings or paths. An unterminated string says whether the byte behind it
  happens to be zero.
* Not modelled: privilege (`mstatus.MPP`), floating-point registers, execute
  permission and entry addresses in Keystone, counters, device and console I/O.
* `CONFIG_VERIFICATION` branches are taken as disabled: the models are of the
  monitors that boot.

## Runs

| Run | Instance | What it shows |
|---|---|---|
| `komodo_calls` | 4 pages in every position and two indices, plus an invalid number and index | `TypeOK`, `Ownership`, `Refcount`, `NoAlias`, `WorldSwitch`, `ResumePoint` |
| `komodo_reuse` | two address spaces sharing 5 other pages | `PageTables`, `WalkConfined`, `Confined`, `Integrity`, `FinalFrozen`, `Refinement` |
| `komodo_driver` | the driver's 7 pages and 3 indices | `TestPasses`, `Reclaimed` |
| `certikos` | 7 pids, 2 pages, quotas 0 to 3 | eight properties, with refinement and `EveryoneRuns` |
| `keystone` | 2 enclaves, 3 granules, 6 secure and 3 shared regions | eight properties |
| `boot` | memory in up to 3 ranges, 864 combinations of devices, 81 of cells along a path, 6 query trees padded, cut and torn, and no tree | `VerifiedBlob`, `MemoryMap`, `AllocHighest`, `CopyPlaced`, `DevicesFound` |
| `bpf_jit` | 4544 programs with every opcode | `Agree`, `Returns`, `Accounting`, `PassesAgree` |
| `certikos_user` | 8 pages, 3 levels of pids | `QuotaMaintained` fails |
| `keystone_calls` | 1 enclave | `CallsReturn` fails |
| `bpf_saved` | the programs of `bpf_jit` | `CalleeSavedRestored` fails |
| `bpf_zext` | 32-bit operations on two registers, RV64 | `ZeroExtended` fails |
| `bpf_far` | 64-bit jumps of the last accepted lengths, RV32 | `JumpsLand` fails |

The bounds let each hazard happen. Two address spaces are what it takes for a
page to change hands; four pages in all positions include every confusion of
roles in one call, and two indices a table whose entries name the same page. With four
pages the links are those of L1 and L2 tables; data pages and L3 tables are in
`komodo_reuse`, which has one index, and the proofs are for any number of both. Seven pids give a child, a sibling and a grandchild; two pages give
ranges that are empty, whole and split. Three granules hold two regions that
touch, overlap or contain each other and one that lies past the end.

Region arrays of three entries fill up in the `boot` run, so both sides of the check
for a full array occur; the ranges touch, overlap, contain each other, are empty,
start at address 0 or run past the last address. Every blob of the query trees is cut and torn behind
each of its tokens. In `bpf_jit` each operation runs on operands at the boundaries
of a word and of a double word (0, 1, all ones, the sign bit, carries between the
halves), shifts on both sides of a word, immediates at the edges of their field,
with destination and source in registers, on the stack, and equal. Jumps have the last
lengths, forwards and backwards, at which each of their branches fits its field, and the
first that are refused. The compiler goes through every allocation failure, and every
failure to find the address of a helper, with and without a clone.
These are chosen operands, not all of them: what holds for every 64-bit value is
what Serval's symbolic check of one instruction shows. What it does not show, and
the run does, is how the instructions fit together: offsets of two passes, jumps,
the frame, calls, and the resources of the compiler.

Deadlock is checked in both runs: `Finished` and `Halted` are the only states in
which a program or the machine may stop, so no compiled program gets stuck.

The Komodo configurations use a view without `a0` and the live `mepc`. No step of
the monitor reads them: what a trap saves is the address of the trapped
instruction, which the processor has just put in `mepc`. Of the properties checked
there `TypeOK` mentions them, and `Refinement` the `a0` that a step leaves, which is
compared at every step whatever was there before; both are also proved.
`komodo_calls` uses symmetry on all pages but page 0 and on the indices, on invariants
only.

**Fairness.** `EveryoneRuns` assumes weak fairness of `sys_yield`: the programs of
`user/` end in `while (1) yield()` and `crt0.S` does so for any `main` that
returns; CertiKOS has no preemption (`mideleg` is 0). `Reclaimed` assumes that the
driver runs when no enclave does (weak) and that the enclave exits if it gets to
run again and again (strong): the program in `test.S` exits on every path, while
interrupts may come for ever. `CallsReturn` assumes that the processor does not
stop before an ecall.

## Findings

* `certikos_user`: `spawn()` in `user/lib.c` takes no pages off `avail_quota`, so a
  process goes on counting, and would hand out, pages that belong to its child.
  The comment above says quota is maintained in user space.
* `keystone_calls`: `do_trap_ecall_s` does not move `mepc` for `run_enclave` even if
  the call is refused. The caller repeats the ecall for ever, with `-EINVAL` as eid.
  `verif/spec.rkt` and the host's `CHECK(run_enclave(eid))` expect it to return.
* `bpf_saved`: `build_prologue` of the RV32 compiler saves S6 in the top word of the
  BPF stack, so a program that stores there changes what the epilogue restores.
  `Returns` holds for all other registers.
* `bpf_zext`: the RV64 compiler does not clear the high half after the 32-bit forms of
  ADD, SUB, AND, OR and XOR on registers, of shifts and of NEG. The interpreter does, and
  `riscv64.rkt`, from which the symbolic tests run, emits the extension. In `bpf_jit`
  `Agree` compares the low half of such a register (`not_extended`, `partial`), so that
  the rest of the compiler is checked all the same. On RV32 the same is left to the
  verifier only where the program says so (`left_to_verifier`).
* `bpf_far`: `rv_offset_check` tests the offset of the last branch of a 64-bit
  conditional jump of the RV32 compiler. The first branch is one or two instructions
  further away; at the last accepted forward lengths its offset overflows the field and
  it jumps backwards.

Other observations, each excluded or allowed for in a property as its comment says:

* If the extra pass of the RV32 compiler fails, the image is freed and the program
  object that is returned still has `jited` set and `bpf_func` in the image
  (`Accounting`, phase `"extra_failed"`). Whether the kernel can let this happen is
  decided outside the repository.
* Keystone switches neither `sscratch` nor `sie`, so an enclave hands them to the host when
  it exits. `Confined` counts this as given away by the enclave. What the host finds
  there can only be what the enclave left: that nothing else gets there is checked.
* `of_n_addr_cells` and `of_n_size_cells` cannot read the cells of the root, because
  the handle of the root is `NULL`: for a child of the root they read the child's
  own property, then use the default. `DevicesFound` compares the devices of every tree
  and the address of each one for which this makes no difference (`Regular`).
* `mcall_init` ignores the result of `early_init_dt_verify`; a refused blob, or none,
  leads to a null pointer (`Fault`).
* The comment in `mcall_init` says that the copy of the tree lies after the payload.
  That is so if there is room there, otherwise it is placed below (`CopyPlaced`).
  The original is not reserved and may be overwritten by its copy (`intact`).
* `memblock_add_range` counts regions before merging, so the array may be reported
  full although the result would fit; `memblock_alloc` takes address 0 for failure.
* If the root has zero address and size cells, `early_init_dt_scan_memory` does not
  end; no instance has such a root. A jump back to the first instruction of a
  program reads the entry before the offset table in both compilers, and negating
  the smallest immediate or rounding the largest one up overflows an `int`; no
  instance has these either.

## Proofs

All theorems assume only the named assumptions of the modules: `PageAssumption`
(finitely many pages; page, insecure and special names distinct), the two
`ParamAssumption`s (naturals; at least one pid; memory a multiple of four bytes),
`MemblockAssumption` (naturals; at least one entry; an alignment that is not 0)
and, for the driver, `DriverAssumption` (`pgalloc_alloc` hands out distinct pages,
the indices of the three mappings are distinct, and their permissions are ones that
callers may ask for).

**Komodo, state.** `KomodoProofs`, with the lemmas about calls in `KomodoCallProofs`:
`Inv` is `TypeOK`, `Ownership`, `Refcount`, `PageTables` and `WorldSwitch`. None is
inductive alone: what a store reaches depends on the tables and on the world, whether
it keeps the database right depends on what it reaches, and removal leaves no orphan
because the count is exact. `WalkConfined` follows from `Inv`. Calls that add a page
share one set of lemmas (`Grow*`); removal, the world switches and software have their
own.

**Komodo, steps.** The second part of `KomodoProofs` proves once, from `Inv`, what a step of each
kind does to the state (`NextStep`): it builds an address space, adds a page that is
blank, shares an insecure page, moves an address space to its next state, removes a
page, enters or leaves an enclave, or is the software that runs learning or storing a
value it can reach. The theorems of `KomodoSafetyProofs` and the refinement use these
descriptions and not the actions:

* `Confined` is inductive together with `Inv`. Secrets spread by loads and stores, and
  `Inv` is what confines these to the pages of the enclave that runs. A page that is
  added holds nothing of its last owner, and leaving restores the host's own context.
* `ResumePoint` needs that only leaving writes a dispatcher in use.
* `NoAlias` needs that what is linked is in use and owned like the table that links
  it, so a free page is linked from no live table (`LinkedInUse`, `OwnerInUse`).
  Removal leaves entries behind; the tables they are in belong to an address space
  that can no longer be entered.
* `Integrity` and `FinalFrozen` are action properties: they hold of each kind of step.
  What a step may do to a dispatcher that does not run is stated in full
  (`handed_over`): `kom_smc_enter` gives one that was not interrupted its arguments, and
  nothing else changes it.

**Komodo, refinement.** `KomodoSafetyProofs` also shows that the initial states map to
initial states of `KomodoSpec` and that each kind of step maps to the abstract action
of its name or to a stutter. A call that fails maps to `refuse`, and one that shares
an insecure page or removes a free one to `no_effect`, because the host sees their
results; software that changes only `satp` or what the TLB holds stutters.

**Komodo, driver.** `KomodoDriverProofs` proves `TestPasses` of `DriverSpec`. The
inductive invariant `DriverInv` adds to `Inv` what the calls made so far have left:
for each value of `pc` one definition (`AtDisp`, `AtL2pt`, ...) says which pages are
still free, which table has which entries empty, and in which state address space and
dispatcher are. The enclave runs only within `kom_smc_execute`, where an interrupted
dispatcher can be resumed (`AtLoop`). Stores of host and enclave change nothing that
the next call looks at (`Unseen`). The proof uses no fairness, and holds for any pages,
indices and numbers of interrupts.

The proofs of Komodo and of the memory map name the provers in the order in which they
are tried and allow them more than the default time (`USE` at the head of each module),
because their contexts are long.

**CertiKOS.** In `CertikosProofs` `Inv` adds to the checked invariants that pid 0
never runs. `SplitRanges` and `SplitRing` say what a spawn does to the partition and
to the ring: a set closed under `next` after it is one before it, with the child
added. `Integrity` is an action property that follows from `Inv`. The refinement
(`ImplementsSpec`) needs one more invariant, `Untouched`: the saved context of a pid
that was never spawned is the initial one. `proc_new` sets `mepc` and clears the
registers of the child, but its CSRs only start afresh, as `verif/spec.rkt` says,
because nothing was saved in them since boot.

**Keystone.** In `KeystoneProofs` `Inv` adds that all regions are aligned, without
which PMP and table disagree. `Isolated` and `Integrity` follow from `Inv`.

**Memory map.** `MemblockProofs` proves `MemoryMap` and `AllocHighest` of `MemblockSpec`,
in which any ranges are added and reserved and any amount is allocated, in any order,
for any address space and any length of the arrays. `Boot` makes such calls, so what
holds of `MemblockSpec` holds of the arrays during boot. `MemblockStepProofs` has the
inductive invariant `MInv` and the proof that each step keeps it. `MemoryMap` says
nothing of the middle of a call, so `MInv` adds what holds there:

* an array is sound at any time (`SoundArray`): its entries are sorted, disjoint,
  within the address space and, but for the dummy of an empty array, not empty, and
  `total_size` is the number of their addresses;
* in the loop, what is left of the new range lies above the entries passed
  (`PassRange`), and what was asked for and is not in the array is in what is left of
  the range (`Missing`);
* the second round repeats the first (`SecondPass`). The array moves up under the loop
  index as pieces are inserted, so this is stated with `counted`: at index `idx` with
  `nr_new` pieces inserted, `base` and `nr_new` are what the first round had at
  `idx - nr_new`, and the entries not yet reached are those that the first round saw,
  `nr_new` places up. Therefore no more pieces are inserted than were counted, and the
  `BUG_ON` in `memblock_insert_region` cannot fire;
* while merging, the entries below `i` touch no neighbour (`MergeInv`), so the `BUG_ON`
  for overlapping neighbours cannot fire and the result is minimal;
* in the search, every free and aligned place lies below the ranges already looked
  at (`FindInv`). This holds because a free range lies in one entry of a merged array
  (`OneEntry`) and below or above each reserved one (`BelowOrAbove`).

The parts of `MInv` are predicates of an array and the locals, and most lemmas are
about these and not about states. The facts about `Cardinality` that the steps need are
the hypothesis `Sizes`, which `MemblockProofs` proves from the library
(`CardinalityFacts`).

Model-checked only:

* liveness (`EveryoneRuns`, `Reclaimed`), which the proof system does not support;
* what boot reads from the device tree (`VerifiedBlob`, `CopyPlaced`, `DevicesFound`) and
  everything about BPF (`Agree`, `Returns`, `Accounting`, `PassesAgree`). The walks of
  libfdt, the passes over programs and the processor's loop are recursive operators,
  and the words of BPF use bitwise ones. The proof system supports neither, and what
  they compute would take induction over data. `CopyPlaced` is about the map after the
  scan; its part that concerns `memblock.c` is what `MapExact` and `AllocatesHighest`
  say.

## Not modelled

* Toy and test monitors: two calls on one word, and unit tests without a state
  machine of their own. The host program of Keystone is a straight-line test whose
  calls are among those that `Keystone` allows in any order.
* Assembly that sets up the hart and saves registers; device registers; printing.
* `string.c`, `cpio.c`, `bitops.c`, `vsprintf.c` and the hashes of HACL*: pure functions
  of bytes. The write interface of libfdt is declared and not part of the sources.
* Serval, the generators of the compilers and the Racket tests: tools that run
  before the system exists.

## Plan

* `KeystoneSpec`: an abstract specification from `verif/spec.rkt`, with a refinement
  checked in the `keystone` run. Secrets labelled by incarnation of an eid, to cover
  the CSRs that `sys_run_enclave` does not reset.
