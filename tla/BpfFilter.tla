----------------------------- MODULE BpfFilter ------------------------------
(***************************************************************************)
(* BPF instructions (bpf/jit/filter.h, bpf/jit/bpf_common.h).  An opcode   *)
(* is the triple of fields the header ORs together: the class, then the    *)
(* operation and the source of an ALU or jump instruction, or the mode and *)
(* the size of a load or store.                                            *)
(***************************************************************************)
EXTENDS BpfWords

(* Register numbers; AX is the hidden register behind R10.                 *)
BPF_REG_FP      == 10
BPF_REG_AX      == 11
MAX_BPF_JIT_REG == 12

insn(code, dst, src, off, imm) ==
  [code |-> code, dst_reg |-> dst, src_reg |-> src, off |-> off, imm |-> imm]

BPF_CLASS(code) == code[1]
BPF_OP(code)    == code[2]
BPF_SRC(code)   == code[3]
BPF_MODE(code)  == code[2]
BPF_SIZE(code)  == code[3]

BPF_ALU64_REG(OP, DST, SRC) == insn(<<"ALU64", OP, "X">>, DST, SRC, 0, 0)
BPF_ALU32_REG(OP, DST, SRC) == insn(<<"ALU", OP, "X">>, DST, SRC, 0, 0)
BPF_ALU64_IMM(OP, DST, IMM) == insn(<<"ALU64", OP, "K">>, DST, 0, 0, IMM)
BPF_ALU32_IMM(OP, DST, IMM) == insn(<<"ALU", OP, "K">>, DST, 0, 0, IMM)
BPF_ENDIAN(TYPE, DST, LEN)  == insn(<<"ALU", "END", TYPE>>, DST, 0, 0, LEN)
BPF_MOV64_REG(DST, SRC) == BPF_ALU64_REG("MOV", DST, SRC)
BPF_MOV64_IMM(DST, IMM) == BPF_ALU64_IMM("MOV", DST, IMM)
BPF_MOV32_RAW(TYPE, DST, SRC, IMM) == insn(<<"ALU", "MOV", TYPE>>, DST, SRC, 0, IMM)

(* A 64-bit immediate takes two slots; the second has a reserved opcode.   *)
BPF_LD_IMM64(DST, IMM) ==
  << insn(<<"LD", "IMM", "DW">>, DST, 0, 0, Signed(Word, Low(IMM))),
     insn(<<"LD", "IMM", "W">>, 0, 0, 0, Signed(Word, High(IMM))) >>

BPF_LDX_MEM(SIZE, DST, SRC, OFF)  == insn(<<"LDX", "MEM", SIZE>>, DST, SRC, OFF, 0)
BPF_STX_MEM(SIZE, DST, SRC, OFF)  == insn(<<"STX", "MEM", SIZE>>, DST, SRC, OFF, 0)
BPF_STX_XADD(SIZE, DST, SRC, OFF) == insn(<<"STX", "XADD", SIZE>>, DST, SRC, OFF, 0)
BPF_ST_MEM(SIZE, DST, OFF, IMM)   == insn(<<"ST", "MEM", SIZE>>, DST, 0, OFF, IMM)
BPF_JMP_REG(OP, DST, SRC, OFF)    == insn(<<"JMP", OP, "X">>, DST, SRC, OFF, 0)
BPF_JMP_IMM(OP, DST, IMM, OFF)    == insn(<<"JMP", OP, "K">>, DST, 0, OFF, IMM)
BPF_JMP32_REG(OP, DST, SRC, OFF)  == insn(<<"JMP32", OP, "X">>, DST, SRC, OFF, 0)
BPF_JMP32_IMM(OP, DST, IMM, OFF)  == insn(<<"JMP32", OP, "K">>, DST, 0, OFF, IMM)
BPF_JMP_A(OFF)      == insn(<<"JMP", "JA", "K">>, 0, 0, OFF, 0)
BPF_EMIT_CALL(FUNC) == insn(<<"JMP", "CALL", "K">>, 0, 0, 0, FUNC)
BPF_EXIT_INSN       == insn(<<"JMP", "EXIT", "K">>, 0, 0, 0, 0)

(* The number of bytes a load or store of a size moves.                    *)
bpf_size_to_bytes(size) ==
  CASE size = "B" -> 1 [] size = "H" -> 2 [] size = "W" -> 4 [] size = "DW" -> 8
=============================================================================
