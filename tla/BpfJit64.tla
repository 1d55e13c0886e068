------------------------------ MODULE BpfJit64 ------------------------------
(***************************************************************************)
(* The instruction emission of the BPF JIT for RV64                        *)
(* (bpf/jit/bpf_jit_riscv64.c).  A BPF register is one RISC-V register.    *)
(* The file holds emit_insn and what it needs; calls, tail calls, exits,   *)
(* the prologue and the epilogue are compiled out, and the loop over a     *)
(* program is the caller's.  Widths are scaled as BpfWords says.           *)
(***************************************************************************)
EXTENDS BpfFilter

RV_REG_ZERO == 0
RV_REG_T0 == 5
RV_REG_T1 == 6
RV_REG_T2 == 7
RV_REG_S1 == 9
RV_REG_A(k) == 10 + k                          \* A0 to A7
RV_REG_S(k) == 16 + k                          \* S2 to S11

regmap ==
  [r \in 0..BPF_REG_AX |->
     CASE r = 0 -> RV_REG_A(5)
       [] r \in 1..5 -> RV_REG_A(r - 1)
       [] r = 6 -> RV_REG_S1
       [] r \in 7..9 -> RV_REG_S(r - 5)
       [] r = BPF_REG_FP -> RV_REG_S(5)
       [] r = BPF_REG_AX -> RV_REG_T0]
bpf_to_rv_reg(r) == regmap[r]
init_regs(i) == [rd |-> bpf_to_rv_reg(i.dst_reg), rs |-> bpf_to_rv_reg(i.src_reg)]

-----------------------------------------------------------------------------
(* Instruction formats.  Each immediate is cut to its field.               *)
rv_r_insn(funct7, rs2, rs1, funct3, rd, opcode) ==
  [opcode |-> opcode, funct7 |-> funct7, funct3 |-> funct3,
   rs2 |-> rs2, rs1 |-> rs1, rd |-> rd]
rv_i_insn(imm11_0, rs1, funct3, rd, opcode) ==
  [opcode |-> opcode, imm |-> imm11_0 % 2^ImmBits, funct3 |-> funct3, rs1 |-> rs1, rd |-> rd]
rv_s_insn(imm11_0, rs2, rs1, funct3, opcode) ==
  LET imm11_5 == (imm11_0 \div 32) % 2^(ImmBits - 5)
      imm4_0 == imm11_0 % 32
  IN  rv_r_insn(imm11_5, rs2, rs1, funct3, imm4_0, opcode)
rv_sb_insn(imm12_1, rs2, rs1, funct3, opcode) ==
  LET imm12 == ((imm12_1 \div 2^(ImmBits - 1)) % 2) * 2^(ImmBits - 6)
               + ((imm12_1 % 2^(ImmBits - 2)) \div 2^4)
      imm4_1 == (imm12_1 % 2^4) * 2 + ((imm12_1 \div 2^(ImmBits - 2)) % 2)
  IN  rv_r_insn(imm12, rs2, rs1, funct3, imm4_1, opcode)
rv_u_insn(imm31_12, rd, opcode) ==
  [opcode |-> opcode, imm |-> imm31_12 % 2^(Word - ImmBits), rd |-> rd]
rv_uj_insn(imm20_1, rd, opcode) ==
  LET imm == ((imm20_1 \div 2^19) % 2) * 2^19 + (imm20_1 % 2^10) * 2^9
             + ((imm20_1 \div 2^10) % 2) * 2^8 + ((imm20_1 \div 2^11) % 2^8)
  IN  [opcode |-> opcode, imm |-> imm, rd |-> rd]
rv_amo_insn(funct5, aq, rl, rs2, rs1, funct3, rd, opcode) ==
  rv_r_insn(funct5 * 4 + aq * 2 + rl, rs2, rs1, funct3, rd, opcode)

(* The flag that srai and sraiw set in their immediate (0x400).            *)
SraiFlag == 2^(ImmBits - 2)

rv_addiw(rd, rs1, imm11_0)        == rv_i_insn(imm11_0, rs1, 0, rd, \h1b)
rv_addi(rd, rs1, imm11_0)         == rv_i_insn(imm11_0, rs1, 0, rd, \h13)
rv_addw(rd, rs1, rs2)             == rv_r_insn(0, rs2, rs1, 0, rd, \h3b)
rv_add(rd, rs1, rs2)              == rv_r_insn(0, rs2, rs1, 0, rd, \h33)
rv_subw(rd, rs1, rs2)             == rv_r_insn(\h20, rs2, rs1, 0, rd, \h3b)
rv_sub(rd, rs1, rs2)              == rv_r_insn(\h20, rs2, rs1, 0, rd, \h33)
rv_and(rd, rs1, rs2)              == rv_r_insn(0, rs2, rs1, 7, rd, \h33)
rv_or(rd, rs1, rs2)               == rv_r_insn(0, rs2, rs1, 6, rd, \h33)
rv_xor(rd, rs1, rs2)              == rv_r_insn(0, rs2, rs1, 4, rd, \h33)
rv_mulw(rd, rs1, rs2)             == rv_r_insn(1, rs2, rs1, 0, rd, \h3b)
rv_mul(rd, rs1, rs2)              == rv_r_insn(1, rs2, rs1, 0, rd, \h33)
rv_divuw(rd, rs1, rs2)            == rv_r_insn(1, rs2, rs1, 5, rd, \h3b)
rv_divu(rd, rs1, rs2)             == rv_r_insn(1, rs2, rs1, 5, rd, \h33)
rv_remuw(rd, rs1, rs2)            == rv_r_insn(1, rs2, rs1, 7, rd, \h3b)
rv_remu(rd, rs1, rs2)             == rv_r_insn(1, rs2, rs1, 7, rd, \h33)
rv_sllw(rd, rs1, rs2)             == rv_r_insn(0, rs2, rs1, 1, rd, \h3b)
rv_sll(rd, rs1, rs2)              == rv_r_insn(0, rs2, rs1, 1, rd, \h33)
rv_srlw(rd, rs1, rs2)             == rv_r_insn(0, rs2, rs1, 5, rd, \h3b)
rv_srl(rd, rs1, rs2)              == rv_r_insn(0, rs2, rs1, 5, rd, \h33)
rv_sraw(rd, rs1, rs2)             == rv_r_insn(\h20, rs2, rs1, 5, rd, \h3b)
rv_sra(rd, rs1, rs2)              == rv_r_insn(\h20, rs2, rs1, 5, rd, \h33)
rv_lui(rd, imm31_12)              == rv_u_insn(imm31_12, rd, \h37)
rv_slli(rd, rs1, imm11_0)         == rv_i_insn(imm11_0, rs1, 1, rd, \h13)
rv_andi(rd, rs1, imm11_0)         == rv_i_insn(imm11_0, rs1, 7, rd, \h13)
rv_ori(rd, rs1, imm11_0)          == rv_i_insn(imm11_0, rs1, 6, rd, \h13)
rv_xori(rd, rs1, imm11_0)         == rv_i_insn(imm11_0, rs1, 4, rd, \h13)
rv_slliw(rd, rs1, imm11_0)        == rv_i_insn(imm11_0, rs1, 1, rd, \h1b)
rv_srliw(rd, rs1, imm11_0)        == rv_i_insn(imm11_0, rs1, 5, rd, \h1b)
rv_srli(rd, rs1, imm11_0)         == rv_i_insn(imm11_0, rs1, 5, rd, \h13)
rv_sraiw(rd, rs1, imm11_0)        == rv_i_insn(SraiFlag + imm11_0, rs1, 5, rd, \h1b)
rv_srai(rd, rs1, imm11_0)         == rv_i_insn(SraiFlag + imm11_0, rs1, 5, rd, \h13)
rv_jal(rd, imm20_1)               == rv_uj_insn(imm20_1, rd, \h6f)
rv_jalr(rd, rs1, imm11_0)         == rv_i_insn(imm11_0, rs1, 0, rd, \h67)
rv_beq(rs1, rs2, imm12_1)         == rv_sb_insn(imm12_1, rs2, rs1, 0, \h63)
rv_bltu(rs1, rs2, imm12_1)        == rv_sb_insn(imm12_1, rs2, rs1, 6, \h63)
rv_bgeu(rs1, rs2, imm12_1)        == rv_sb_insn(imm12_1, rs2, rs1, 7, \h63)
rv_bne(rs1, rs2, imm12_1)         == rv_sb_insn(imm12_1, rs2, rs1, 1, \h63)
rv_blt(rs1, rs2, imm12_1)         == rv_sb_insn(imm12_1, rs2, rs1, 4, \h63)
rv_bge(rs1, rs2, imm12_1)         == rv_sb_insn(imm12_1, rs2, rs1, 5, \h63)
rv_sb(rs1, imm11_0, rs2)          == rv_s_insn(imm11_0, rs2, rs1, 0, \h23)
rv_sh(rs1, imm11_0, rs2)          == rv_s_insn(imm11_0, rs2, rs1, 1, \h23)
rv_sw(rs1, imm11_0, rs2)          == rv_s_insn(imm11_0, rs2, rs1, 2, \h23)
rv_sd(rs1, imm11_0, rs2)          == rv_s_insn(imm11_0, rs2, rs1, 3, \h23)
rv_lbu(rd, imm11_0, rs1)          == rv_i_insn(imm11_0, rs1, 4, rd, \h03)
rv_lhu(rd, imm11_0, rs1)          == rv_i_insn(imm11_0, rs1, 5, rd, \h03)
rv_lwu(rd, imm11_0, rs1)          == rv_i_insn(imm11_0, rs1, 6, rd, \h03)
rv_ld(rd, imm11_0, rs1)           == rv_i_insn(imm11_0, rs1, 3, rd, \h03)
rv_amoadd_w(rd, rs2, rs1, aq, rl) == rv_amo_insn(0, aq, rl, rs2, rs1, 2, rd, \h2f)
rv_amoadd_d(rd, rs2, rs1, aq, rl) == rv_amo_insn(0, aq, rl, rs2, rs1, 3, rd, \h2f)

-----------------------------------------------------------------------------
is_12b_int(val) == -(2^(ImmBits - 1)) <= val /\ val < 2^(ImmBits - 1)
is_13b_int(val) == -(2^ImmBits) <= val /\ val < 2^ImmBits
is_21b_int(val) == -(2^20) <= val /\ val < 2^20
is_32b_int(val) == -(2^(Word - 1)) <= val /\ val < 2^(Word - 1)

(* The position of the lowest bit set in a nonzero word.                   *)
__ffs(word) == CHOOSE k \in 0..DWord : word % 2^(k + 1) = 2^k

(* rd = val, a signed 64-bit value.  One lui and addiw load a signed       *)
(* 32-bit value; a longer one is loaded without its trailing zeros,        *)
(* shifted into place and completed by an addi.                            *)
RECURSIVE emit_imm(_, _)
emit_imm(rd, val) ==
  LET upper == Signed(DWord, val + 2^(ImmBits - 1)) \div 2^ImmBits
      lower == val % 2^ImmBits
      shift == __ffs(upper)
  IN  CASE is_32b_int(val) /\ upper # 0 -> << rv_lui(rd, upper), rv_addiw(rd, rd, lower) >>
        [] is_32b_int(val) /\ upper = 0 -> << rv_addi(rd, RV_REG_ZERO, lower) >>
        [] OTHER -> emit_imm(rd, upper \div 2^shift)
                    \o << rv_slli(rd, rd, shift + ImmBits) >>
                    \o (IF lower # 0 THEN << rv_addi(rd, rd, lower) >> ELSE <<>>)

(* offset[i] is the index of the instruction after the code of i.          *)
rv_offset(bpf_to, bpf_from, ctx) ==
  LET from == ctx.offset[bpf_from] - 1
      to == ctx.offset[bpf_to]
  IN  (to - from) * 4
rv_offset_check(off, i, ctx) == is_13b_int(rv_offset(i + off, i, ctx))

emit_zext_32(reg) == << rv_slli(reg, reg, Word), rv_srli(reg, reg, Word) >>

(* Copies of the operands, extended to 64 bits, in T2 and T1.              *)
emit_zext_32_rd_rs(rd, rs) ==
  << rv_addi(RV_REG_T2, rd, 0) >> \o emit_zext_32(RV_REG_T2)
  \o << rv_addi(RV_REG_T1, rs, 0) >> \o emit_zext_32(RV_REG_T1)
emit_sext_32_rd_rs(rd, rs) == << rv_addiw(RV_REG_T2, rd, 0), rv_addiw(RV_REG_T1, rs, 0) >>
emit_zext_32_rd_t1(rd) ==
  << rv_addi(RV_REG_T2, rd, 0) >> \o emit_zext_32(RV_REG_T2) \o emit_zext_32(RV_REG_T1)
emit_sext_32_rd(rd) == << rv_addiw(RV_REG_T2, rd, 0) >>

emitted(code) == [ret |-> 0, code |-> code]
failed == [ret |-> -1, code |-> <<>>]

-----------------------------------------------------------------------------
(* rd = rd OP rs, in 64 or 32 bits.                                        *)
arith(is64, op, rd, rs) ==
  CASE op = "MOV"  -> IF is64 THEN rv_addi(rd, rs, 0) ELSE rv_addiw(rd, rs, 0)
    [] op = "ADD"  -> IF is64 THEN rv_add(rd, rd, rs) ELSE rv_addw(rd, rd, rs)
    [] op = "SUB"  -> IF is64 THEN rv_sub(rd, rd, rs) ELSE rv_subw(rd, rd, rs)
    [] op = "AND"  -> rv_and(rd, rd, rs)
    [] op = "OR"   -> rv_or(rd, rd, rs)
    [] op = "XOR"  -> rv_xor(rd, rd, rs)
    [] op = "MUL"  -> IF is64 THEN rv_mul(rd, rd, rs) ELSE rv_mulw(rd, rd, rs)
    [] op = "DIV"  -> IF is64 THEN rv_divu(rd, rd, rs) ELSE rv_divuw(rd, rd, rs)
    [] op = "MOD"  -> IF is64 THEN rv_remu(rd, rd, rs) ELSE rv_remuw(rd, rd, rs)
    [] op = "LSH"  -> IF is64 THEN rv_sll(rd, rd, rs) ELSE rv_sllw(rd, rd, rs)
    [] op = "RSH"  -> IF is64 THEN rv_srl(rd, rd, rs) ELSE rv_srlw(rd, rd, rs)
    [] op = "ARSH" -> IF is64 THEN rv_sra(rd, rd, rs) ELSE rv_sraw(rd, rd, rs)

(* Only these operations on registers clear the high half of rd.           *)
emit_alu_x(is64, op, rd, rs) ==
  << arith(is64, op, rd, rs) >>
  \o (IF ~is64 /\ op \in {"MOV", "MUL", "DIV", "MOD"} THEN emit_zext_32(rd) ELSE <<>>)

emit_neg(is64, rd) ==
  << IF is64 THEN rv_sub(rd, RV_REG_ZERO, rd) ELSE rv_subw(rd, RV_REG_ZERO, rd) >>

(* An immediate that fits takes one instruction, any other goes through T1.*)
short_k(is64, op, rd, imm) ==
  CASE op = "ADD" -> IF is64 THEN rv_addi(rd, rd, imm) ELSE rv_addiw(rd, rd, imm)
    [] op = "SUB" -> IF is64 THEN rv_addi(rd, rd, -imm) ELSE rv_addiw(rd, rd, -imm)
    [] op = "AND" -> rv_andi(rd, rd, imm)
    [] op = "OR"  -> rv_ori(rd, rd, imm)
    [] op = "XOR" -> rv_xori(rd, rd, imm)
shift_k(is64, op, rd, imm) ==
  CASE op = "LSH"  -> IF is64 THEN rv_slli(rd, rd, imm) ELSE rv_slliw(rd, rd, imm)
    [] op = "RSH"  -> IF is64 THEN rv_srli(rd, rd, imm) ELSE rv_srliw(rd, rd, imm)
    [] op = "ARSH" -> IF is64 THEN rv_srai(rd, rd, imm) ELSE rv_sraiw(rd, rd, imm)

emit_alu_k(is64, op, rd, imm) ==
  LET fits == \/ op \in {"ADD", "AND", "OR", "XOR"} /\ is_12b_int(imm)
              \/ op = "SUB" /\ is_12b_int(-imm)
      zext == IF is64 THEN <<>> ELSE emit_zext_32(rd)
  IN  CASE op \in {"LSH", "RSH", "ARSH"} -> << shift_k(is64, op, rd, imm) >>
        [] op = "MOV" -> emit_imm(rd, imm) \o zext
        [] fits -> << short_k(is64, op, rd, imm) >> \o zext
        [] op \in {"ADD", "SUB", "AND", "OR", "XOR", "MUL", "DIV", "MOD"} /\ ~fits ->
             emit_imm(RV_REG_T1, imm) \o << arith(is64, op, rd, RV_REG_T1) >> \o zext

(* Byte swap: T2 collects the bytes of rd, the lowest first.               *)
next_byte(rd) ==
  << rv_andi(RV_REG_T1, rd, 2^ByteBits - 1), rv_add(RV_REG_T2, RV_REG_T2, RV_REG_T1) >>
push_byte(rd) ==
  next_byte(rd) \o << rv_slli(RV_REG_T2, RV_REG_T2, ByteBits), rv_srli(rd, rd, ByteBits) >>
push_bytes(rd, k) ==
  LET push[j \in 0..k] == IF j = 0 THEN <<>> ELSE push[j - 1] \o push_byte(rd) IN push[k]

emit_end(rd, type, imm) ==
  IF type = "TO_LE"
  THEN << rv_slli(rd, rd, DWord - imm), rv_srli(rd, rd, DWord - imm) >>
  ELSE << rv_addi(RV_REG_T2, RV_REG_ZERO, 0) >>
       \o push_bytes(rd, CASE imm = Half -> 1 [] imm = Word -> 3 [] OTHER -> 7)
       \o next_byte(rd) \o << rv_addi(rd, RV_REG_T2, 0) >>

-----------------------------------------------------------------------------
(* Conditional jumps: the branch taken when a OP b, at the end of the code *)
(* of the instruction.                                                     *)
branch(op, a, b, imm) ==
  CASE op = "JEQ"  -> << rv_beq(a, b, imm) >>
    [] op = "JNE"  -> << rv_bne(a, b, imm) >>
    [] op = "JGT"  -> << rv_bltu(b, a, imm) >>
    [] op = "JLT"  -> << rv_bltu(a, b, imm) >>
    [] op = "JGE"  -> << rv_bgeu(a, b, imm) >>
    [] op = "JLE"  -> << rv_bgeu(b, a, imm) >>
    [] op = "JSGT" -> << rv_blt(b, a, imm) >>
    [] op = "JSLT" -> << rv_blt(a, b, imm) >>
    [] op = "JSGE" -> << rv_bge(a, b, imm) >>
    [] op = "JSLE" -> << rv_bge(b, a, imm) >>
    [] op = "JSET" -> << rv_and(RV_REG_T1, a, b), rv_bne(RV_REG_T1, RV_REG_ZERO, imm) >>
is_signed(op) == op \in {"JSGT", "JSLT", "JSGE", "JSLE"}

emit_cond_x(is64, op, rd, rs, rvoff) ==
  LET extend == IF is_signed(op) THEN emit_sext_32_rd_rs(rd, rs) ELSE emit_zext_32_rd_rs(rd, rs)
  IN  IF is64 THEN branch(op, rd, rs, rvoff \div 2)
      ELSE extend \o branch(op, RV_REG_T2, RV_REG_T1, rvoff \div 2)

emit_cond_k(is64, op, rd, imm, rvoff) ==
  LET extend == IF is_signed(op) THEN emit_sext_32_rd(rd) ELSE emit_zext_32_rd_t1(rd)
  IN  emit_imm(RV_REG_T1, imm)
      \o IF is64 THEN branch(op, rd, RV_REG_T1, rvoff \div 2)
         ELSE extend \o branch(op, RV_REG_T2, RV_REG_T1, rvoff \div 2)

emit_ja(i, n, ctx) ==
  LET rvoff == rv_offset(n + i.off, n, ctx)
  IN  IF is_21b_int(rvoff) THEN emitted(<< rv_jal(RV_REG_ZERO, rvoff \div 2) >>) ELSE failed

-----------------------------------------------------------------------------
(* Loads and stores, at an offset that fits or through a scratch register. *)
load(size, rd, off, rs) ==
  CASE size = "B"  -> rv_lbu(rd, off, rs)
    [] size = "H"  -> rv_lhu(rd, off, rs)
    [] size = "W"  -> rv_lwu(rd, off, rs)
    [] size = "DW" -> rv_ld(rd, off, rs)
store(size, rs1, off, rs2) ==
  CASE size = "B"  -> rv_sb(rs1, off, rs2)
    [] size = "H"  -> rv_sh(rs1, off, rs2)
    [] size = "W"  -> rv_sw(rs1, off, rs2)
    [] size = "DW" -> rv_sd(rs1, off, rs2)
far(tmp, base, off) == emit_imm(tmp, off) \o << rv_add(tmp, tmp, base) >>

emit_ldx(size, rd, rs, off) ==
  IF is_12b_int(off) THEN << load(size, rd, off, rs) >>
  ELSE far(RV_REG_T1, rs, off) \o << load(size, rd, 0, RV_REG_T1) >>

emit_st(size, rd, off, imm) ==
  emit_imm(RV_REG_T1, imm)
  \o IF is_12b_int(off) THEN << store(size, rd, off, RV_REG_T1) >>
     ELSE far(RV_REG_T2, rd, off) \o << store(size, RV_REG_T2, 0, RV_REG_T1) >>

emit_stx(size, rd, rs, off) ==
  IF is_12b_int(off) THEN << store(size, rd, off, rs) >>
  ELSE far(RV_REG_T1, rd, off) \o << store(size, RV_REG_T1, 0, rs) >>

emit_xadd(size, rd, rs, off) ==
  LET address == CASE off = 0 -> <<>>
                   [] off # 0 /\ is_12b_int(off) -> << rv_addi(RV_REG_T1, rd, off) >>
                   [] OTHER -> far(RV_REG_T1, rd, off)
      at == IF off = 0 THEN rd ELSE RV_REG_T1
  IN  address \o << IF size = "W" THEN rv_amoadd_w(RV_REG_ZERO, rs, at, 0, 0)
                    ELSE rv_amoadd_d(RV_REG_ZERO, rs, at, 0, 0) >>

-----------------------------------------------------------------------------
(* One BPF instruction: what emit_insn returns and the code it emits.  1   *)
(* says that the next slot is used up, -1 that it cannot be compiled.      *)
emit_alu(i) ==
  LET is64 == BPF_CLASS(i.code) = "ALU64"
      op == BPF_OP(i.code)
      rd == init_regs(i).rd
      ops == {"MOV", "ADD", "SUB", "AND", "OR", "XOR", "MUL", "DIV", "MOD", "LSH", "RSH", "ARSH"}
  IN CASE op \in ops /\ BPF_SRC(i.code) = "X" ->
            emitted(emit_alu_x(is64, op, rd, init_regs(i).rs))
       [] op \in ops /\ BPF_SRC(i.code) = "K" -> emitted(emit_alu_k(is64, op, rd, i.imm))
       [] op = "NEG" /\ BPF_SRC(i.code) = "K" -> emitted(emit_neg(is64, rd))
       [] op = "END" /\ ~is64 -> emitted(emit_end(rd, BPF_SRC(i.code), i.imm))
       [] OTHER -> failed

emit_jmp(i, n, ctx) ==
  LET is64 == BPF_CLASS(i.code) = "JMP"
      op == BPF_OP(i.code)
      rd == init_regs(i).rd
      rvoff == rv_offset(n + i.off, n, ctx)
  IN CASE i.code = <<"JMP", "JA", "K">> -> emit_ja(i, n, ctx)
       [] op \notin {"JEQ", "JNE", "JGT", "JLT", "JGE", "JLE", "JSET"} /\ ~is_signed(op)
          /\ op # "JA" -> failed
       [] OTHER ->
            IF ~rv_offset_check(i.off, n, ctx) THEN failed
            ELSE emitted(IF BPF_SRC(i.code) = "X"
                         THEN emit_cond_x(is64, op, rd, init_regs(i).rs, rvoff)
                         ELSE emit_cond_k(is64, op, rd, i.imm, rvoff))

emit_mem(i) ==
  LET c == BPF_CLASS(i.code)
      mode == BPF_MODE(i.code)
      size == BPF_SIZE(i.code)
      rd == init_regs(i).rd
      rs == init_regs(i).rs
  IN CASE c = "LDX" /\ mode = "MEM" -> emitted(emit_ldx(size, rd, rs, i.off))
       [] c = "ST" /\ mode = "MEM"  -> emitted(emit_st(size, rd, i.off, i.imm))
       [] c = "STX" /\ mode = "MEM" -> emitted(emit_stx(size, rd, rs, i.off))
       [] c = "STX" /\ mode = "XADD" /\ size \in {"W", "DW"} ->
            emitted(emit_xadd(size, rd, rs, i.off))
       [] OTHER -> failed

emit_ld_imm64(i, insn1) ==
  LET imm64 == Signed(DWord, Join(Unsigned(Word, insn1.imm), Unsigned(Word, i.imm)))
  IN  [ret |-> 1, code |-> emit_imm(init_regs(i).rd, imm64)]

emit_insn(n, ctx) ==
  LET i == ctx.prog.insnsi[n + 1]
      c == BPF_CLASS(i.code)
  IN CASE c \in {"ALU", "ALU64"} -> emit_alu(i)
       [] c \in {"JMP", "JMP32"} -> emit_jmp(i, n, ctx)
       [] i.code = <<"LD", "IMM", "DW">> -> emit_ld_imm64(i, ctx.prog.insnsi[n + 2])
       [] c \in {"LDX", "ST", "STX"} -> emit_mem(i)
       [] OTHER -> failed
=============================================================================
