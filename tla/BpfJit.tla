------------------------------- MODULE BpfJit -------------------------------
(***************************************************************************)
(* Compiled BPF programs beside interpreted ones.  A program is compiled   *)
(* by the RV32 JIT (BpfCompile) or, without prologue and epilogue, by the  *)
(* RV64 JIT.  Then the interpreter (BpfInterp) executes one BPF            *)
(* instruction while the processor (Riscv) executes the code of that       *)
(* instruction.  What the kernel does is external: the caller of the       *)
(* compiled function, the helper functions it calls, and the loop that     *)
(* drives the RV64 JIT.                                                    *)
(***************************************************************************)
EXTENDS BpfCompile

CONSTANTS Context,      \* address of the program's context
          ContextSize,  \* bytes that a program may access there
          StackTop,     \* the caller's stack pointer
          ReturnTo,     \* the caller's return address
          Fuel          \* instructions that the code of one BPF instruction may take

B == INSTANCE BpfInterp
R == INSTANCE BpfJit64
M == INSTANCE Riscv

VARIABLES
  bpf,        \* the interpreter: registers, memory, index of the instruction
  cpu,        \* the processor: registers, memory, program counter
  offset,     \* where the first pass found the end of each instruction's code
  ends,       \* where the pass that wrote the image left it
  partial,    \* BPF registers of which only the low half is defined
  undefined,  \* BPF registers that hold no defined value
  run         \* "idle", "running", "exited" or "returned"

layout == <<offset, ends>>
evars == <<bpf, cpu, layout, partial, undefined, run>>
vars == <<cvars, evars>>

xlen == IF source.arch = "rv32" THEN Word ELSE DWord
Caller == StackTop..(StackTop + 7)
Frame == (StackTop - 128)..(StackTop - 1)
ContextBytes == Context..(Context + ContextSize - 1)

(* The caller's registers: a value of its own in each.                     *)
entry_regs ==
  [r \in 0..31 |-> CASE r = 0 -> 0
                     [] r = J!RV_REG_RA -> ReturnTo
                     [] r = J!RV_REG_SP -> StackTop
                     [] r = J!RV_REG_A(0) -> Context
                     [] r = J!RV_REG_S(5) /\ source.arch = "rv64" -> StackTop
                     [] OTHER -> 2^(xlen - 1) + 5 * r]
entry_mem == [a \in ContextBytes \cup Frame \cup Caller |-> (3 * a + 1) % 2^ByteBits]
entry == [x |-> entry_regs, mem |-> entry_mem, pc |-> 0]

Init ==
  /\ CompileInit
  /\ bpf = [regs |-> [r \in 0..B!BPF_REG_AX |-> 0], mem |-> <<>>, pc |-> 0]
  /\ cpu = entry
  /\ offset = <<>>
  /\ ends = <<>>
  /\ partial = {}
  /\ undefined = {}
  /\ run = "idle"

-----------------------------------------------------------------------------
(* The driver of the RV64 JIT, external: the body in two passes.           *)
RECURSIVE body64_from(_, _, _, _)
body64_from(n, c, code, to) ==
  IF n = Len(c.prog.insnsi) THEN [ret |-> 0, ctx |-> c, code |-> code, ends |-> to]
  ELSE LET next(e) ==
             LET last == IF e.ret > 0 THEN n + 1 ELSE n
                 done == c.ninsns + Len(e.code)
                 measured == IF c.insns THEN c.offset ELSE [c.offset EXCEPT ![last] = done]
             IN  IF e.ret < 0 THEN [ret |-> e.ret, ctx |-> c, code |-> code, ends |-> to]
                 ELSE body64_from(last + 1, [c EXCEPT !.offset = measured, !.ninsns = done],
                                  code \o e.code, [to EXCEPT ![last] = done])
       IN  next(R!emit_insn(n, c))

Compile32 ==
  /\ source.arch = "rv32"
  /\ bpf_int_jit_compile
  /\ IF phase' \in {"subprog", "jited"}
     THEN \E c \in {IF phase = "loaded" THEN first_pass(new_ctx).ctx ELSE ctx} :
            /\ offset' = c.offset
            /\ ends' = second_pass(c, phase = "subprog").ends
     ELSE UNCHANGED layout
  /\ UNCHANGED <<bpf, cpu, partial, undefined, run>>

Compile64 ==
  /\ source.arch = "rv64" /\ phase = "loaded"
  /\ \E first \in {body64_from(0, new_ctx, <<>>, new_ctx.offset)} :
     \E second \in {body64_from(0, [first.ctx EXCEPT !.insns = TRUE, !.ninsns = 0],
                                <<>>, new_ctx.offset)} :
     LET ok == first.ret = 0 /\ second.ret = 0
     IN  /\ phase' = IF ok THEN "jited" ELSE "interpreted"
         /\ image' = IF ok THEN second.code ELSE image
         /\ offset' = first.ctx.offset
         /\ ends' = second.ends
         /\ prog' = IF ok THEN [prog EXCEPT !["orig"] = [jited |-> TRUE, bpf_func |-> "image",
                                                         jited_len |-> 4 * first.ctx.ninsns]]
                    ELSE prog
         /\ heap' = IF ok THEN [heap EXCEPT !.image = 1] ELSE heap
  /\ UNCHANGED <<source, live, current, jit_data, ctx, bpf, cpu, partial, undefined, run>>

-----------------------------------------------------------------------------
(* The code of the prologue, and of the instruction at n, in the image.    *)
prologue_len == IF source.arch = "rv32" THEN Len(J!build_prologue([no_ctx EXCEPT !.prog = source]))
                ELSE 0
is_wide(n) == source.insnsi[n + 1].code = <<"LD", "IMM", "DW">>
code_start(n) == prologue_len + IF n = 0 THEN 0 ELSE offset[n - 1]
code_end(n) == prologue_len + IF is_wide(n) THEN offset[n + 1] ELSE offset[n]
epilogue_start == code_end(Len(source.insnsi) - 1)

(* The BPF registers as the processor holds them.                          *)
word_at(m, slot) == Load(m.mem, m.x[J!RV_REG_FP] + slot, 4)
half(m, r) == IF J!is_stacked(r) THEN word_at(m, r) ELSE m.x[r]
held(m, r) ==
  IF source.arch = "rv64" THEN m.x[R!regmap[r]]
  ELSE Join(half(m, J!bpf2rv32[r].hi), half(m, J!bpf2rv32[r].lo))

execute(m, lo, hi) == M!Run(xlen, image, m, lo, hi, Fuel)

(* The caller calls the compiled function: the prologue runs.  The         *)
(* interpreter starts with the same stack and context pointer.             *)
Enter ==
  /\ run = "idle" /\ phase = "jited"
  /\ LET m == execute(cpu, 0, prologue_len)
         fp == held(m, BPF_REG_FP)
         bytes == ContextBytes \cup ((fp - source.stack_depth)..(fp - 1))
     IN  /\ cpu' = m
         /\ bpf' = [regs |-> [[r \in 0..BPF_REG_AX |-> held(m, r)] EXCEPT ![1] = Context],
                    mem |-> [a \in bytes |-> m.mem[a]], pc |-> 0]
  /\ run' = "running"
  /\ UNCHANGED <<cvars, layout, partial, undefined>>

(* 32-bit results of which only the low half is defined: on RV32, where    *)
(* the verifier has promised to insert the zero extensions itself.         *)
left_to_verifier(i) ==
  /\ source.arch = "rv32" /\ source.verifier_zext
  /\ BPF_CLASS(i.code) = "ALU" /\ BPF_OP(i.code) # "END" /\ ~J!is_zext(i)

(* 32-bit results whose high half the RV64 JIT does not clear, nobody      *)
(* having promised to: ZeroExtended is violated by them.                   *)
not_extended(i) ==
  /\ source.arch = "rv64"
  /\ BPF_CLASS(i.code) = "ALU"
  /\ \/ BPF_OP(i.code) \in {"LSH", "RSH", "ARSH", "NEG"}
     \/ BPF_OP(i.code) \in {"ADD", "SUB", "AND", "OR", "XOR"} /\ BPF_SRC(i.code) = "X"

leaves_partial(i) == left_to_verifier(i) \/ not_extended(i)

writes(i) == IF BPF_CLASS(i.code) \in {"ALU", "ALU64", "LD", "LDX"} THEN {i.dst_reg} ELSE {}

at == source.insnsi[bpf.pc + 1]
is_call == at.code = <<"JMP", "CALL", "K">>

Step ==
  /\ run = "running" /\ bpf.pc < Len(source.insnsi)
  /\ ~is_call
  /\ B!IsDefined(bpf.regs, at)
  /\ bpf' = B!Execute(xlen, source.insnsi, bpf)
  /\ cpu' = execute(cpu, code_start(bpf.pc), code_end(bpf.pc))
  /\ partial' = (partial \ writes(at)) \cup IF leaves_partial(at) THEN writes(at) ELSE {}
  /\ undefined' = undefined \ writes(at)
  /\ run' = IF bpf'.pc = B!Exit THEN "exited" ELSE "running"
  /\ UNCHANGED <<cvars, layout>>

(* A helper function: its result depends on all five arguments, the fifth  *)
(* of which is on the stack; it may change every caller-saved register and *)
(* the memory below its stack pointer.                                     *)
helper(args) == Unsigned(DWord, args[1] + 3 * args[2] + 5 * args[3] + 7 * args[4] + 11 * args[5])
CallerSaved == {1, 5, 6, 7} \cup (10..17) \cup (28..31)
helper_returns(m) ==
  LET sp == m.x[J!RV_REG_SP]
      arg(k) == Join(m.x[J!RV_REG_A(2 * k - 1)], m.x[J!RV_REG_A(2 * k - 2)])
      fifth == Join(Load(m.mem, sp + 4, 4), Load(m.mem, sp, 4))
      val == helper([k \in 1..5 |-> IF k < 5 THEN arg(k) ELSE fifth])
  IN  [x |-> [r \in 0..31 |-> CASE r = J!RV_REG_A(0) -> Low(val)
                                [] r = J!RV_REG_A(1) -> High(val)
                                [] r \in CallerSaved \ {10, 11} -> r
                                [] OTHER -> m.x[r]],
       mem |-> [a \in DOMAIN m.mem |-> IF a \in Frame /\ a < sp THEN 0 ELSE m.mem[a]],
       pc |-> m.x[J!RV_REG_RA]]

Call ==
  /\ run = "running" /\ bpf.pc < Len(source.insnsi)
  /\ is_call
  /\ LET m == execute(cpu, code_start(bpf.pc), code_end(bpf.pc))
     IN  /\ m.pc = at.imm
         /\ cpu' = execute(helper_returns(m), code_start(bpf.pc), code_end(bpf.pc))
  /\ bpf' = [bpf EXCEPT !.pc = @ + 1, !.regs[0] = helper([k \in 1..5 |-> bpf.regs[k]])]
  /\ partial' = partial \ (0..5)
  /\ undefined' = (undefined \ {0}) \cup (1..5)
  /\ UNCHANGED <<cvars, layout, run>>

(* The epilogue runs, back to the caller.                                  *)
Return ==
  /\ run = "exited"
  /\ cpu' = execute(cpu, epilogue_start, Len(image))
  /\ run' = "returned"
  /\ UNCHANGED <<cvars, bpf, layout, partial, undefined>>

(* The end of a behaviour: the program is left to the interpreter, its     *)
(* image is gone, or it has run to its end.  In any other state some step  *)
(* is possible.                                                            *)
Finished ==
  /\ \/ phase \in {"interpreted", "extra_failed"}
     \/ run = "returned"
     \/ source.arch = "rv64" /\ run = "running" /\ bpf.pc = Len(source.insnsi)
  /\ UNCHANGED vars

Next == Compile32 \/ Compile64 \/ Enter \/ Step \/ Call \/ Return \/ Finished

Spec == Init /\ [][Next]_vars

-----------------------------------------------------------------------------
(* Where the processor belongs when the interpreter is at bpf.pc.          *)
code_of_next ==
  CASE run = "exited" -> epilogue_start
    [] run = "running" /\ bpf.pc < Len(source.insnsi) -> code_start(bpf.pc)
    [] OTHER -> Len(image)

(* A conditional jump that is not refused as "not supported yet"           *)
(* (is_13b_check) goes where the program says: the processor is at the     *)
(* code of the instruction that the interpreter is at.                     *)
JumpsLand == run \in {"running", "exited"} => cpu.pc = 4 * code_of_next

(* A 32-bit operation leaves the high half of its result clear, as the     *)
(* interpreter does (kbpf.c: "DST = (u32) DST OP (u32) SRC;") and as the   *)
(* symbolic tests of the RV64 JIT require (riscv64.rkt emits the extension *)
(* under with-patch): every register is held whole.                        *)
ZeroExtended ==
  source.arch = "rv64" /\ run = "running" =>
    \A r \in (0..BPF_REG_FP) \ undefined : held(cpu, r) = bpf.regs[r]

(* After every BPF instruction the processor is at the code of the next    *)
(* one, and the registers, the context and the BPF stack hold what the     *)
(* interpreter (kbpf.c, select_insn) computed.  Of the registers in        *)
(* partial the low half does: those whose zero extension is left to the    *)
(* verifier, and those for which ZeroExtended fails.                       *)
Agree ==
  run \in {"running", "exited"} =>
    /\ JumpsLand
    /\ \A r \in (0..BPF_REG_FP) \ undefined :
         IF r \in partial THEN Low(held(cpu, r)) = Low(bpf.regs[r])
         ELSE held(cpu, r) = bpf.regs[r]
    /\ \A a \in DOMAIN bpf.mem : cpu.mem[a] = bpf.mem[a]

(* A compiled function returns to its caller with the result of the        *)
(* interpreter, the stack pointer, RA, FP, S1 to S5 and the caller's       *)
(* memory as they were (build_prologue, build_epilogue).                   *)
Returns ==
  run = "returned" =>
    /\ cpu.pc = ReturnTo
    /\ cpu.x[J!RV_REG_A(0)] = B!Result(bpf)
    /\ \A r \in {J!RV_REG_RA, J!RV_REG_SP, J!RV_REG_FP, J!RV_REG_S1} \cup (18..21) :
         cpu.x[r] = entry_regs[r]
    /\ \A a \in Caller : cpu.mem[a] = entry_mem[a]

(* Every register that the calling convention makes the callee preserve    *)
(* is restored: "Restore callee-saved registers." (build_epilogue).        *)
CalleeSavedRestored ==
  run = "returned" => \A k \in 2..11 : cpu.x[J!RV_REG_S(k)] = entry_regs[J!RV_REG_S(k)]

(* However a call of bpf_int_jit_compile ends, one program object is left, *)
(* the one returned, and jit_data and the offsets are kept only for the    *)
(* second call.  The image exists exactly if the object says that it is    *)
(* its code, except after an extra pass that failed: that frees the image  *)
(* once and leaves the object as the first call returned it, jited and     *)
(* with bpf_func in the freed image.                                       *)
Accounting ==
  /\ live = {current}
  /\ prog[current].jited = (prog[current].bpf_func = "image")
  /\ heap.image = (IF prog[current].jited /\ phase # "extra_failed" THEN 1 ELSE 0)
  /\ phase = "extra_failed" => prog[current].jited
  /\ (phase = "subprog") = jit_data
  /\ heap.jit_data = (IF jit_data THEN 1 ELSE 0)
  /\ heap.offset = heap.jit_data

(* The pass that wrote the image left the code of every instruction where  *)
(* the first pass had measured it, moved by the prologue, and the whole    *)
(* fills exactly the image that was asked for (ctx->offset, image_size).   *)
PassesAgree ==
  phase \in {"subprog", "jited"} =>
    /\ \A n \in DOMAIN offset : ~is_wide(n) => ends[n] = prologue_len + offset[n]
    /\ prog[current].jited_len = 4 * Len(image)
    /\ source.arch = "rv32" =>
         Len(image) = epilogue_start + Len(J!build_epilogue([no_ctx EXCEPT !.prog = source]))
=============================================================================
