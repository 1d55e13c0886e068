------------------------------ MODULE BpfJit32 ------------------------------
(***************************************************************************)
(* The BPF JIT for RV32 (bpf/jit/bpf_jit_comp32.c): which instructions it  *)
(* emits for each BPF instruction, and the two passes over a program.  The *)
(* code a function emits is the sequence it returns.  Widths are scaled as *)
(* BpfWords says: 8, 16, 32 and 64 bits are ByteBits, Half, Word and       *)
(* DWord, and the 12 of the immediates is ImmBits, so that a branch        *)
(* reaches ImmBits + 1 bits.                                               *)
(***************************************************************************)
EXTENDS BpfFilter

RV_REG_ZERO == 0
RV_REG_RA == 1
RV_REG_SP == 2
RV_REG_T0 == 5
RV_REG_T1 == 6
RV_REG_T2 == 7
RV_REG_FP == 8
RV_REG_S1 == 9
RV_REG_A(k) == 10 + k                          \* A0 to A7
RV_REG_S(k) == 16 + k                          \* S2 to S11
RV_REG_T(k) == 25 + k                          \* T3 to T6

(* A BPF register is a pair of registers, or of slots below FP.            *)
STACK_OFFSET(k) == -4 - k * 4
BPF_JIT_SCRATCH_REGS == 12
TMP_REG_1 == MAX_BPF_JIT_REG
TMP_REG_2 == MAX_BPF_JIT_REG + 1
TCALL_CNT == MAX_BPF_JIT_REG + 2

bpf2rv32 ==
  LET regs(hi, lo) == [hi |-> hi, lo |-> lo]
      slots(k) == [hi |-> STACK_OFFSET(2 * k), lo |-> STACK_OFFSET(2 * k + 1)]
  IN  [r \in 0..TCALL_CNT |->
         CASE r = 0 -> regs(RV_REG_S(2), RV_REG_S1)
           [] r \in 1..4 -> regs(RV_REG_A(2 * r - 1), RV_REG_A(2 * r - 2))
           [] r = 5 -> regs(RV_REG_S(4), RV_REG_S(3))
           [] r \in 6..9 -> slots(r - 6)
           [] r = BPF_REG_FP -> regs(RV_REG_S(6), RV_REG_S(5))
           [] r = TMP_REG_1 -> regs(RV_REG_T(3), RV_REG_T2)
           [] r = TMP_REG_2 -> regs(RV_REG_T(5), RV_REG_T(4))
           [] r = TCALL_CNT -> slots(4)
           [] r = BPF_REG_AX -> slots(5)]

-----------------------------------------------------------------------------
(* Instruction formats.  Each immediate is cut to its field.               *)
rv_r_insn(funct7, rs2, rs1, funct3, rd, opcode) ==
  [opcode |-> opcode, funct7 |-> funct7, funct3 |-> funct3,
   rs2 |-> rs2, rs1 |-> rs1, rd |-> rd]
rv_i_insn(imm11_0, rs1, funct3, rd, opcode) ==
  [opcode |-> opcode, imm |-> imm11_0 % 2^ImmBits, funct3 |-> funct3, rs1 |-> rs1, rd |-> rd]
rv_s_insn(imm11_0, rs2, rs1, funct3, opcode) ==
  LET imm11_5 == (imm11_0 \div 32) % 2^(ImmBits - 5)
      imm4_0 == imm11_0 % 32
  IN  rv_r_insn(imm11_5, rs2, rs1, funct3, imm4_0, opcode)
rv_sb_insn(imm12_1, rs2, rs1, funct3, opcode) ==
  LET imm12 == ((imm12_1 \div 2^(ImmBits - 1)) % 2) * 2^(ImmBits - 6)
               + ((imm12_1 % 2^(ImmBits - 2)) \div 2^4)
      imm4_1 == (imm12_1 % 2^4) * 2 + ((imm12_1 \div 2^(ImmBits - 2)) % 2)
  IN  rv_r_insn(imm12, rs2, rs1, funct3, imm4_1, opcode)
rv_u_insn(imm31_12, rd, opcode) ==
  [opcode |-> opcode, imm |-> imm31_12 % 2^(Word - ImmBits), rd |-> rd]
rv_uj_insn(imm20_1, rd, opcode) ==
  LET imm == ((imm20_1 \div 2^19) % 2) * 2^19 + (imm20_1 % 2^10) * 2^9
             + ((imm20_1 \div 2^10) % 2) * 2^8 + ((imm20_1 \div 2^11) % 2^8)
  IN  [opcode |-> opcode, imm |-> imm, rd |-> rd]
rv_amo_insn(funct5, aq, rl, rs2, rs1, funct3, rd, opcode) ==
  rv_r_insn(funct5 * 4 + aq * 2 + rl, rs2, rs1, funct3, rd, opcode)

(* The flag that srai sets in its immediate (0x400).                       *)
SraiFlag == 2^(ImmBits - 2)

rv_addi(rd, rs1, imm11_0)         == rv_i_insn(imm11_0, rs1, 0, rd, \h13)
rv_add(rd, rs1, rs2)              == rv_r_insn(0, rs2, rs1, 0, rd, \h33)
rv_sub(rd, rs1, rs2)              == rv_r_insn(\h20, rs2, rs1, 0, rd, \h33)
rv_and(rd, rs1, rs2)              == rv_r_insn(0, rs2, rs1, 7, rd, \h33)
rv_or(rd, rs1, rs2)               == rv_r_insn(0, rs2, rs1, 6, rd, \h33)
rv_xor(rd, rs1, rs2)              == rv_r_insn(0, rs2, rs1, 4, rd, \h33)
rv_mul(rd, rs1, rs2)              == rv_r_insn(1, rs2, rs1, 0, rd, \h33)
rv_mulhu(rd, rs1, rs2)            == rv_r_insn(1, rs2, rs1, 3, rd, \h33)
rv_divu(rd, rs1, rs2)             == rv_r_insn(1, rs2, rs1, 5, rd, \h33)
rv_remu(rd, rs1, rs2)             == rv_r_insn(1, rs2, rs1, 7, rd, \h33)
rv_sll(rd, rs1, rs2)              == rv_r_insn(0, rs2, rs1, 1, rd, \h33)
rv_srl(rd, rs1, rs2)              == rv_r_insn(0, rs2, rs1, 5, rd, \h33)
rv_sra(rd, rs1, rs2)              == rv_r_insn(\h20, rs2, rs1, 5, rd, \h33)
rv_sltu(rd, rs1, rs2)             == rv_r_insn(0, rs2, rs1, 3, rd, \h33)
rv_lui(rd, imm31_12)              == rv_u_insn(imm31_12, rd, \h37)
rv_slli(rd, rs1, imm11_0)         == rv_i_insn(imm11_0, rs1, 1, rd, \h13)
rv_srli(rd, rs1, imm11_0)         == rv_i_insn(imm11_0, rs1, 5, rd, \h13)
rv_srai(rd, rs1, imm11_0)         == rv_i_insn(SraiFlag + imm11_0, rs1, 5, rd, \h13)
rv_andi(rd, rs1, imm11_0)         == rv_i_insn(imm11_0, rs1, 7, rd, \h13)
rv_jal(rd, imm20_1)               == rv_uj_insn(imm20_1, rd, \h6f)
rv_jalr(rd, rs1, imm11_0)         == rv_i_insn(imm11_0, rs1, 0, rd, \h67)
rv_beq(rs1, rs2, imm12_1)         == rv_sb_insn(imm12_1, rs2, rs1, 0, \h63)
rv_bltu(rs1, rs2, imm12_1)        == rv_sb_insn(imm12_1, rs2, rs1, 6, \h63)
rv_bgeu(rs1, rs2, imm12_1)        == rv_sb_insn(imm12_1, rs2, rs1, 7, \h63)
rv_bne(rs1, rs2, imm12_1)         == rv_sb_insn(imm12_1, rs2, rs1, 1, \h63)
rv_blt(rs1, rs2, imm12_1)         == rv_sb_insn(imm12_1, rs2, rs1, 4, \h63)
rv_bge(rs1, rs2, imm12_1)         == rv_sb_insn(imm12_1, rs2, rs1, 5, \h63)
rv_sb(rs1, imm11_0, rs2)          == rv_s_insn(imm11_0, rs2, rs1, 0, \h23)
rv_sh(rs1, imm11_0, rs2)          == rv_s_insn(imm11_0, rs2, rs1, 1, \h23)
rv_sw(rs1, imm11_0, rs2)          == rv_s_insn(imm11_0, rs2, rs1, 2, \h23)
rv_lbu(rd, imm11_0, rs1)          == rv_i_insn(imm11_0, rs1, 4, rd, \h03)
rv_lhu(rd, imm11_0, rs1)          == rv_i_insn(imm11_0, rs1, 5, rd, \h03)
rv_lw(rd, imm11_0, rs1)           == rv_i_insn(imm11_0, rs1, 2, rd, \h03)
rv_amoadd_w(rd, rs2, rs1, aq, rl) == rv_amo_insn(0, aq, rl, rs2, rs1, 2, rd, \h2f)

-----------------------------------------------------------------------------
is_13b_int(val) == -(2^ImmBits) <= val /\ val < 2^ImmBits
is_21b_int(val) == -(2^20) <= val /\ val < 2^20

(* Mutant of emit_imm: the upper part is not rounded.                      *)
emit_imm_truncated(rd, imm) ==
  LET upper == Signed(Word, imm) \div 2^ImmBits
      lower == imm % 2^ImmBits
  IN  IF upper # 0 THEN << rv_lui(rd, upper), rv_addi(rd, rd, lower) >>
      ELSE << rv_addi(rd, RV_REG_ZERO, lower) >>

(* rd = imm.  addi sign-extends its immediate, so the upper part is        *)
(* rounded to the nearest multiple of 2^ImmBits.                           *)
emit_imm(rd, imm) ==
  LET upper == Signed(Word, imm + 2^(ImmBits - 1)) \div 2^ImmBits
      lower == imm % 2^ImmBits
  IN  IF upper # 0 THEN << rv_lui(rd, upper), rv_addi(rd, rd, lower) >>
      ELSE << rv_addi(rd, RV_REG_ZERO, lower) >>

emit_imm32(rd, imm) ==
  emit_imm(rd.lo, imm) \o << rv_addi(rd.hi, rd.lo, 0), rv_srai(rd.hi, rd.hi, Word - 1) >>

emit_imm64(rd, imm_hi, imm_lo) == emit_imm(rd.lo, imm_lo) \o emit_imm(rd.hi, imm_hi)

(* offset[i] is the index of the instruction after the code of i.          *)
rv_offset(bpf_to, bpf_from, ctx) ==
  LET from == ctx.offset[bpf_from] - 1
      to == ctx.offset[bpf_to]
  IN  (to - from) * 4

epilogue_offset(ctx) == (ctx.epilogue_offset - ctx.ninsns) * 4

(* The registers the prologue saves and the epilogue restores, in order.   *)
CalleeSaved == << RV_REG_RA, RV_REG_FP, RV_REG_S1, RV_REG_S(2), RV_REG_S(3),
                  RV_REG_S(4), RV_REG_S(5), RV_REG_S(6) >>

(* Mutant of build_epilogue: the scratch registers are not skipped.        *)
build_epilogue_high(ctx) ==
  LET stack_adjust == ctx.stack_size
      store_offset == stack_adjust - 8
      r0 == bpf2rv32[0]
  IN  << rv_addi(RV_REG_A(0), r0.lo, 0), rv_addi(RV_REG_A(1), r0.hi, 0) >>
      \o [k \in 1..8 |-> rv_lw(CalleeSaved[k], store_offset - 4 * (k - 1), RV_REG_SP)]
      \o << rv_addi(RV_REG_SP, RV_REG_SP, stack_adjust), rv_jalr(RV_REG_ZERO, RV_REG_RA, 0) >>

build_epilogue(ctx) ==
  LET stack_adjust == ctx.stack_size
      store_offset == stack_adjust - 8 - 4 * BPF_JIT_SCRATCH_REGS
      r0 == bpf2rv32[0]
  IN  << rv_addi(RV_REG_A(0), r0.lo, 0), rv_addi(RV_REG_A(1), r0.hi, 0) >>
      \o [k \in 1..8 |-> rv_lw(CalleeSaved[k], store_offset - 4 * (k - 1), RV_REG_SP)]
      \o << rv_addi(RV_REG_SP, RV_REG_SP, stack_adjust), rv_jalr(RV_REG_ZERO, RV_REG_RA, 0) >>

is_stacked(reg) == reg < 0

(* The pair that holds a BPF register after get_reg: itself or tmp.        *)
held(reg, tmp) == IF is_stacked(reg.lo) THEN tmp ELSE reg

rv32_bpf_get_reg64(reg, tmp) ==
  IF is_stacked(reg.hi)
  THEN << rv_lw(tmp.hi, reg.hi, RV_REG_FP), rv_lw(tmp.lo, reg.lo, RV_REG_FP) >> ELSE <<>>

rv32_bpf_put_reg64(reg, src) ==
  IF is_stacked(reg.hi)
  THEN << rv_sw(RV_REG_FP, reg.hi, src.hi), rv_sw(RV_REG_FP, reg.lo, src.lo) >> ELSE <<>>

rv32_bpf_get_reg32(reg, tmp) ==
  IF is_stacked(reg.lo) THEN << rv_lw(tmp.lo, reg.lo, RV_REG_FP) >> ELSE <<>>

(* Unless the verifier has inserted zero extensions, clear the high half.  *)
rv32_bpf_put_reg32(reg, src, ctx) ==
  LET zext == ~ctx.prog.verifier_zext
  IN  IF is_stacked(reg.lo)
      THEN << rv_sw(RV_REG_FP, reg.lo, src.lo) >>
           \o (IF zext THEN << rv_sw(RV_REG_FP, reg.hi, RV_REG_ZERO) >> ELSE <<>>)
      ELSE IF zext THEN << rv_addi(reg.hi, RV_REG_ZERO, 0) >> ELSE <<>>

tmp1 == bpf2rv32[TMP_REG_1]
tmp2 == bpf2rv32[TMP_REG_2]

-----------------------------------------------------------------------------
(* ALU instructions.  T0 and T1 are free within one instruction.           *)
emit_rv32_alu_i64(dst, imm, op) ==
  LET rd == held(dst, tmp1)
      T0 == RV_REG_T0
      body ==
        CASE op = "MOV" -> emit_imm32(rd, imm)
          [] op \in {"LSH", "RSH", "ARSH"} /\ imm = 0 -> <<>>
          [] op = "LSH" /\ imm >= Word ->
               << rv_slli(rd.hi, rd.lo, imm - Word), rv_addi(rd.lo, RV_REG_ZERO, 0) >>
          [] op = "LSH" /\ imm < Word ->
               << rv_srli(T0, rd.lo, Word - imm), rv_slli(rd.hi, rd.hi, imm),
                  rv_or(rd.hi, T0, rd.hi), rv_slli(rd.lo, rd.lo, imm) >>
          [] op = "RSH" /\ imm >= Word ->
               << rv_srli(rd.lo, rd.hi, imm - Word), rv_addi(rd.hi, RV_REG_ZERO, 0) >>
          [] op = "RSH" /\ imm < Word ->
               << rv_slli(T0, rd.hi, Word - imm), rv_srli(rd.lo, rd.lo, imm),
                  rv_or(rd.lo, T0, rd.lo), rv_srli(rd.hi, rd.hi, imm) >>
          [] op = "ARSH" /\ imm >= Word ->
               << rv_srai(rd.lo, rd.hi, imm - Word), rv_srai(rd.hi, rd.hi, Word - 1) >>
          [] op = "ARSH" /\ imm < Word ->
               << rv_slli(T0, rd.hi, Word - imm), rv_srli(rd.lo, rd.lo, imm),
                  rv_or(rd.lo, T0, rd.lo), rv_srai(rd.hi, rd.hi, imm) >>
  IN  rv32_bpf_get_reg64(dst, tmp1) \o body \o rv32_bpf_put_reg64(dst, rd)

emit_rv32_alu_i32(dst, imm, ctx, op) ==
  LET rd == held(dst, tmp1)
      body == IF op = "MOV" THEN emit_imm32(rd, imm) ELSE <<>>
  IN  rv32_bpf_get_reg32(dst, tmp1) \o body \o rv32_bpf_put_reg32(dst, rd, ctx)

(* A 64-bit shift by a register: by Word or more, or by less.              *)
shift_r64(rd, rs, long, short) ==
  LET T0 == RV_REG_T0
  IN  << rv_addi(T0, rs.lo, -Word), rv_blt(T0, RV_REG_ZERO, 16 \div 2) >>
      \o long \o << rv_jal(RV_REG_ZERO, 32 \div 2) >> \o short

emit_rv32_alu_r64(dst, src, op) ==
  LET rd == held(dst, tmp1)
      rs == held(src, tmp2)
      Z == RV_REG_ZERO
      T0 == RV_REG_T0
      T1 == RV_REG_T1
      body ==
        CASE op = "MOV" -> << rv_addi(rd.hi, rs.hi, 0), rv_addi(rd.lo, rs.lo, 0) >>
          [] op = "ADD" ->
               << rv_addi(T0, rd.lo, 0), rv_add(rd.lo, rd.lo, rs.lo), rv_sltu(T0, rd.lo, T0),
                  rv_add(rd.hi, rd.hi, rs.hi), rv_add(rd.hi, rd.hi, T0) >>
          [] op = "SUB" ->
               << rv_addi(T0, rd.lo, 0), rv_sub(rd.lo, rd.lo, rs.lo), rv_sltu(T0, T0, rd.lo),
                  rv_sub(rd.hi, rd.hi, rs.hi), rv_sub(rd.hi, rd.hi, T0) >>
          [] op = "AND" -> << rv_and(rd.hi, rd.hi, rs.hi), rv_and(rd.lo, rd.lo, rs.lo) >>
          [] op = "OR"  -> << rv_or(rd.hi, rd.hi, rs.hi), rv_or(rd.lo, rd.lo, rs.lo) >>
          [] op = "XOR" -> << rv_xor(rd.hi, rd.hi, rs.hi), rv_xor(rd.lo, rd.lo, rs.lo) >>
          [] op = "MUL" ->
               << rv_mul(T0, rs.hi, rd.lo), rv_mul(rd.hi, rd.hi, rs.lo),
                  rv_mulhu(T1, rd.lo, rs.lo), rv_add(rd.hi, rd.hi, T0),
                  rv_mul(rd.lo, rd.lo, rs.lo), rv_add(rd.hi, rd.hi, T1) >>
          [] op = "LSH" -> shift_r64(rd, rs,
               << rv_sll(rd.hi, rd.lo, T0), rv_addi(rd.lo, Z, 0) >>,
               << rv_addi(T1, Z, Word - 1), rv_srli(T0, rd.lo, 1), rv_sub(T1, T1, rs.lo),
                  rv_srl(T0, T0, T1), rv_sll(rd.hi, rd.hi, rs.lo), rv_or(rd.hi, T0, rd.hi),
                  rv_sll(rd.lo, rd.lo, rs.lo) >>)
          [] op = "RSH" -> shift_r64(rd, rs,
               << rv_srl(rd.lo, rd.hi, T0), rv_addi(rd.hi, Z, 0) >>,
               << rv_addi(T1, Z, Word - 1), rv_slli(T0, rd.hi, 1), rv_sub(T1, T1, rs.lo),
                  rv_sll(T0, T0, T1), rv_srl(rd.lo, rd.lo, rs.lo), rv_or(rd.lo, T0, rd.lo),
                  rv_srl(rd.hi, rd.hi, rs.lo) >>)
          [] op = "ARSH" -> shift_r64(rd, rs,
               << rv_sra(rd.lo, rd.hi, T0), rv_srai(rd.hi, rd.hi, Word - 1) >>,
               << rv_addi(T1, Z, Word - 1), rv_slli(T0, rd.hi, 1), rv_sub(T1, T1, rs.lo),
                  rv_sll(T0, T0, T1), rv_srl(rd.lo, rd.lo, rs.lo), rv_or(rd.lo, T0, rd.lo),
                  rv_sra(rd.hi, rd.hi, rs.lo) >>)
          [] op = "NEG" ->
               << rv_sub(rd.lo, Z, rd.lo), rv_sltu(T0, Z, rd.lo),
                  rv_sub(rd.hi, Z, rd.hi), rv_sub(rd.hi, rd.hi, T0) >>
  IN  rv32_bpf_get_reg64(dst, tmp1) \o rv32_bpf_get_reg64(src, tmp2) \o body
      \o rv32_bpf_put_reg64(dst, rd)

emit_rv32_alu_r32(dst, src, ctx, op) ==
  LET rd == held(dst, tmp1).lo
      rs == held(src, tmp2).lo
      body ==
        CASE op = "MOV"  -> rv_addi(rd, rs, 0)
          [] op = "ADD"  -> rv_add(rd, rd, rs)
          [] op = "SUB"  -> rv_sub(rd, rd, rs)
          [] op = "AND"  -> rv_and(rd, rd, rs)
          [] op = "OR"   -> rv_or(rd, rd, rs)
          [] op = "XOR"  -> rv_xor(rd, rd, rs)
          [] op = "MUL"  -> rv_mul(rd, rd, rs)
          [] op = "DIV"  -> rv_divu(rd, rd, rs)
          [] op = "MOD"  -> rv_remu(rd, rd, rs)
          [] op = "LSH"  -> rv_sll(rd, rd, rs)
          [] op = "RSH"  -> rv_srl(rd, rd, rs)
          [] op = "ARSH" -> rv_sra(rd, rd, rs)
          [] op = "NEG"  -> rv_sub(rd, RV_REG_ZERO, rd)
  IN  rv32_bpf_get_reg32(dst, tmp1) \o rv32_bpf_get_reg32(src, tmp2) \o << body >>
      \o rv32_bpf_put_reg32(dst, held(dst, tmp1), ctx)

-----------------------------------------------------------------------------
(* Jumps.  The last branch of a 64-bit comparison is at rvoff from its     *)
(* target; the ones before it are 4 or 8 bytes further away.               *)
rv_offset_check(off, i, ctx) == is_13b_int(rv_offset(i + off, i, ctx))

emit_rv32_jump_r64(src1, src2, off, i, ctx, op) ==
  LET rs1 == held(src1, tmp1)
      rs2 == held(src2, tmp2)
      rvoff == rv_offset(i + off, i, ctx)
      T0 == RV_REG_T0
      body ==
        CASE op = "JEQ" ->
               << rv_bne(rs1.hi, rs2.hi, 8 \div 2), rv_beq(rs1.lo, rs2.lo, rvoff \div 2) >>
          [] op = "JNE" ->
               << rv_bne(rs1.hi, rs2.hi, (rvoff + 4) \div 2), rv_bne(rs1.lo, rs2.lo, rvoff \div 2) >>
          [] op = "JLE" ->
               << rv_bltu(rs1.hi, rs2.hi, (rvoff + 8) \div 2), rv_bltu(rs2.hi, rs1.hi, 8 \div 2),
                  rv_bgeu(rs2.lo, rs1.lo, rvoff \div 2) >>
          [] op = "JLT" ->
               << rv_bltu(rs1.hi, rs2.hi, (rvoff + 8) \div 2), rv_bltu(rs2.hi, rs1.hi, 8 \div 2),
                  rv_bltu(rs1.lo, rs2.lo, rvoff \div 2) >>
          [] op = "JGE" ->
               << rv_bltu(rs2.hi, rs1.hi, (rvoff + 8) \div 2), rv_bltu(rs1.hi, rs2.hi, 8 \div 2),
                  rv_bgeu(rs1.lo, rs2.lo, rvoff \div 2) >>
          [] op = "JGT" ->
               << rv_bltu(rs2.hi, rs1.hi, (rvoff + 8) \div 2), rv_bltu(rs1.hi, rs2.hi, 8 \div 2),
                  rv_bltu(rs2.lo, rs1.lo, rvoff \div 2) >>
          [] op = "JSLE" ->
               << rv_blt(rs1.hi, rs2.hi, (rvoff + 8) \div 2), rv_bne(rs2.hi, rs1.hi, 8 \div 2),
                  rv_bgeu(rs2.lo, rs1.lo, rvoff \div 2) >>
          [] op = "JSLT" ->
               << rv_blt(rs1.hi, rs2.hi, (rvoff + 8) \div 2), rv_bne(rs2.hi, rs1.hi, 8 \div 2),
                  rv_bltu(rs1.lo, rs2.lo, rvoff \div 2) >>
          [] op = "JSGE" ->
               << rv_blt(rs2.hi, rs1.hi, (rvoff + 8) \div 2), rv_bne(rs1.hi, rs2.hi, 8 \div 2),
                  rv_bgeu(rs1.lo, rs2.lo, rvoff \div 2) >>
          [] op = "JSGT" ->
               << rv_blt(rs2.hi, rs1.hi, (rvoff + 8) \div 2), rv_bne(rs1.hi, rs2.hi, 8 \div 2),
                  rv_bltu(rs2.lo, rs1.lo, rvoff \div 2) >>
          [] op = "JSET" ->
               << rv_and(T0, rs1.hi, rs2.hi), rv_bne(T0, RV_REG_ZERO, (rvoff + 8) \div 2),
                  rv_and(T0, rs1.lo, rs2.lo), rv_bne(T0, RV_REG_ZERO, rvoff \div 2) >>
  IN  rv32_bpf_get_reg64(src1, tmp1) \o rv32_bpf_get_reg64(src2, tmp2) \o body

emit_rv32_jump_r32(src1, src2, off, i, ctx, op) ==
  LET rs1 == held(src1, tmp1).lo
      rs2 == held(src2, tmp2).lo
      imm == rv_offset(i + off, i, ctx) \div 2
      body ==
        CASE op = "JEQ"  -> << rv_beq(rs1, rs2, imm) >>
          [] op = "JNE"  -> << rv_bne(rs1, rs2, imm) >>
          [] op = "JLE"  -> << rv_bgeu(rs2, rs1, imm) >>
          [] op = "JLT"  -> << rv_bltu(rs1, rs2, imm) >>
          [] op = "JGE"  -> << rv_bgeu(rs1, rs2, imm) >>
          [] op = "JGT"  -> << rv_bltu(rs2, rs1, imm) >>
          [] op = "JSLE" -> << rv_bge(rs2, rs1, imm) >>
          [] op = "JSLT" -> << rv_blt(rs1, rs2, imm) >>
          [] op = "JSGE" -> << rv_bge(rs1, rs2, imm) >>
          [] op = "JSGT" -> << rv_blt(rs2, rs1, imm) >>
          [] op = "JSET" -> << rv_and(RV_REG_T0, rs1, rs2), rv_bne(RV_REG_T0, RV_REG_ZERO, imm) >>
  IN  rv32_bpf_get_reg32(src1, tmp1) \o rv32_bpf_get_reg32(src2, tmp2) \o body

-----------------------------------------------------------------------------
(* Loads, stores and byte swaps.                                           *)
emit_rv32_load_r64(dst, src, off, size) ==
  LET rd == held(dst, tmp1)
      rs == held(src, tmp2)
      T0 == RV_REG_T0
      clear == rv_addi(rd.hi, RV_REG_ZERO, 0)
      body ==
        CASE size = "B"  -> << rv_lbu(rd.lo, 0, T0), clear >>
          [] size = "H"  -> << rv_lhu(rd.lo, 0, T0), clear >>
          [] size = "W"  -> << rv_lw(rd.lo, 0, T0), clear >>
          [] size = "DW" -> << rv_lw(rd.lo, 0, T0), rv_lw(rd.hi, 4, T0) >>
  IN  rv32_bpf_get_reg64(dst, tmp1) \o rv32_bpf_get_reg64(src, tmp2)
      \o emit_imm(T0, off) \o << rv_add(T0, T0, rs.lo) >> \o body
      \o rv32_bpf_put_reg64(dst, rd)

emit_rv32_store_r64(dst, src, off, size, mode) ==
  LET rd == held(dst, tmp1)
      rs == held(src, tmp2)
      T0 == RV_REG_T0
      body ==
        CASE size = "B"  -> << rv_sb(T0, 0, rs.lo) >>
          [] size = "H"  -> << rv_sh(T0, 0, rs.lo) >>
          [] size = "W" /\ mode = "MEM"  -> << rv_sw(T0, 0, rs.lo) >>
          [] size = "W" /\ mode = "XADD" -> << rv_amoadd_w(RV_REG_ZERO, rs.lo, T0, 0, 0) >>
          [] size = "DW" -> << rv_sw(T0, 0, rs.lo), rv_sw(T0, 4, rs.hi) >>
  IN  rv32_bpf_get_reg64(dst, tmp1) \o rv32_bpf_get_reg64(src, tmp2)
      \o emit_imm(T0, off) \o << rv_add(T0, T0, rd.lo) >> \o body

(* T1 collects the bytes of rd, the lowest first.                          *)
next_byte(rd) ==
  << rv_andi(RV_REG_T0, rd, 2^ByteBits - 1), rv_add(RV_REG_T1, RV_REG_T1, RV_REG_T0) >>
push_byte(rd) ==
  next_byte(rd) \o << rv_slli(RV_REG_T1, RV_REG_T1, ByteBits), rv_srli(rd, rd, ByteBits) >>

emit_rv32_rev16(rd) ==
  << rv_addi(RV_REG_T1, RV_REG_ZERO, 0) >> \o push_byte(rd) \o next_byte(rd)
  \o << rv_addi(rd, RV_REG_T1, 0) >>

emit_rv32_rev32(rd) ==
  << rv_addi(RV_REG_T1, RV_REG_ZERO, 0) >> \o push_byte(rd) \o push_byte(rd) \o push_byte(rd)
  \o next_byte(rd) \o << rv_addi(rd, RV_REG_T1, 0) >>

emit_rv32_zext64(dst) ==
  LET rd == held(dst, tmp1)
  IN  rv32_bpf_get_reg64(dst, tmp1) \o << rv_addi(rd.hi, RV_REG_ZERO, 0) >>
      \o rv32_bpf_put_reg64(dst, rd)

emit_end(dst, type, imm) ==
  LET rd == held(dst, tmp1)
      clear == << rv_addi(rd.hi, RV_REG_ZERO, 0) >>
      T0 == RV_REG_T0
      body ==
        CASE type = "TO_LE" /\ imm = Half ->
               << rv_slli(rd.lo, rd.lo, Half), rv_srli(rd.lo, rd.lo, Half) >> \o clear
          [] type = "TO_LE" /\ imm = Word -> clear
          [] type = "TO_LE" /\ imm = DWord -> <<>>
          [] type = "TO_BE" /\ imm = Half -> emit_rv32_rev16(rd.lo) \o clear
          [] type = "TO_BE" /\ imm = Word -> emit_rv32_rev32(rd.lo) \o clear
          [] type = "TO_BE" /\ imm = DWord ->
               << rv_addi(T0, rd.lo, 0), rv_addi(rd.lo, rd.hi, 0), rv_addi(rd.hi, T0, 0) >>
               \o emit_rv32_rev32(rd.lo) \o emit_rv32_rev32(rd.hi)
  IN  rv32_bpf_get_reg64(dst, tmp1) \o body \o rv32_bpf_put_reg64(dst, rd)

(* The address of a helper function, loaded into T0; R1 to R4 are already  *)
(* the argument registers and R5 goes on the stack.                        *)
emit_call(addr) ==
  LET r0 == bpf2rv32[0]
      r5 == bpf2rv32[5]
      SP == RV_REG_SP
  IN  emit_imm(RV_REG_T0, Signed(Word, addr))
      \o << rv_addi(SP, SP, -8), rv_sw(SP, 0, r5.lo), rv_sw(SP, 4, r5.hi),
            rv_jalr(RV_REG_RA, RV_REG_T0, 0),
            rv_addi(r0.lo, RV_REG_A(0), 0), rv_addi(r0.hi, RV_REG_A(1), 0),
            rv_addi(SP, SP, 8) >>

-----------------------------------------------------------------------------
(* One BPF instruction: what emit_insn returns and the code it emits.  1   *)
(* says that the next slot is used up, a negative value that the program   *)
(* cannot be compiled.                                                     *)
EFAULT == 14
EINVAL == 22
emitted(code) == [ret |-> 0, code |-> code]
failed(ret) == [ret |-> ret, code |-> <<>>]

(* The kernel's answer for a call: helpers have a fixed address, calls of  *)
(* other BPF functions (BPF_PSEUDO_CALL) do not.  It may be an error, which*)
(* may depend on the pass: prog.unresolved holds the values of extra_pass  *)
(* for which it is.                                                        *)
BPF_PSEUDO_CALL == 1
bpf_jit_get_func_addr(prog, i, extra_pass) ==
  [ret |-> IF extra_pass \in prog.unresolved THEN -EINVAL ELSE 0,
   addr |-> i.imm, fixed |-> i.src_reg # BPF_PSEUDO_CALL]

(* An immediate operand is loaded into the second scratch pair.            *)
operand(i) ==
  IF BPF_SRC(i.code) = "K" THEN [code |-> emit_imm32(tmp2, i.imm), src |-> tmp2]
  ELSE [code |-> <<>>, src |-> bpf2rv32[i.src_reg]]

(* The verifier marks the zero extensions it inserts by an imm of 1.       *)
is_zext(i) == BPF_OP(i.code) = "MOV" /\ BPF_SRC(i.code) = "X" /\ i.imm = 1

emit_alu64(i) ==
  LET op == BPF_OP(i.code)
      src == BPF_SRC(i.code)
      dst == bpf2rv32[i.dst_reg]
  IN CASE is_zext(i) -> emitted(emit_rv32_zext64(dst))
       [] \/ op \in {"ADD", "SUB", "AND", "OR", "XOR", "MUL"}
          \/ op \in {"MOV", "LSH", "RSH", "ARSH"} /\ src = "X" /\ ~is_zext(i) ->
            emitted(operand(i).code \o emit_rv32_alu_r64(dst, operand(i).src, op))
       [] op = "NEG" /\ src = "K" -> emitted(emit_rv32_alu_r64(dst, tmp2, op))
       [] op \in {"DIV", "MOD"} -> failed(-EFAULT)
       [] op \in {"MOV", "LSH", "RSH", "ARSH"} /\ src = "K" ->
            emitted(emit_rv32_alu_i64(dst, i.imm, op))
       [] OTHER -> failed(-EINVAL)

emit_alu(i, ctx) ==
  LET op == BPF_OP(i.code)
      src == BPF_SRC(i.code)
      dst == bpf2rv32[i.dst_reg]
  IN CASE is_zext(i) -> emitted(emit_rv32_zext64(dst))
       [] \/ op \in {"ADD", "SUB", "AND", "OR", "XOR", "MUL", "DIV", "MOD", "LSH", "RSH", "ARSH"}
          \/ op = "MOV" /\ src = "X" /\ ~is_zext(i) ->
            emitted(operand(i).code \o emit_rv32_alu_r32(dst, operand(i).src, ctx, op))
       [] op = "MOV" /\ src = "K" -> emitted(emit_rv32_alu_i32(dst, i.imm, ctx, op))
       [] op = "NEG" /\ src = "K" -> emitted(emit_rv32_alu_r32(dst, tmp2, ctx, op))
       [] op = "END" -> IF i.imm \in {Half, Word, DWord} THEN emitted(emit_end(dst, src, i.imm))
                        ELSE failed(-1)
       [] OTHER -> failed(-EINVAL)

(* Mutant of emit_ja: a jump to the next instruction is left out.          *)
emit_ja_elided(i, n, ctx) ==
  LET rvoff == rv_offset(n + i.off, n, ctx)
  IN  CASE rvoff = 4 -> emitted(<<>>)
        [] rvoff # 4 /\ is_21b_int(rvoff) -> emitted(<< rv_jal(RV_REG_ZERO, rvoff \div 2) >>)
        [] OTHER -> failed(-1)

(* JA, CALL and EXIT.  The last EXIT falls through to the epilogue.        *)
emit_ja(i, n, ctx) ==
  LET rvoff == rv_offset(n + i.off, n, ctx)
  IN  IF is_21b_int(rvoff) THEN emitted(<< rv_jal(RV_REG_ZERO, rvoff \div 2) >>) ELSE failed(-1)
emit_exit(n, ctx) ==
  CASE n = Len(ctx.prog.insnsi) - 1 -> emitted(<<>>)
    [] n # Len(ctx.prog.insnsi) - 1 /\ is_21b_int(epilogue_offset(ctx)) ->
         emitted(<< rv_jal(RV_REG_ZERO, epilogue_offset(ctx) \div 2) >>)
    [] OTHER -> failed(-1)

emit_cond(i, n, ctx) ==
  LET dst == bpf2rv32[i.dst_reg]
      src == operand(i).src
      jump == IF BPF_CLASS(i.code) = "JMP"
              THEN emit_rv32_jump_r64(dst, src, i.off, n, ctx, BPF_OP(i.code))
              ELSE emit_rv32_jump_r32(dst, src, i.off, n, ctx, BPF_OP(i.code))
  IN  IF rv_offset_check(i.off, n, ctx) THEN emitted(operand(i).code \o jump) ELSE failed(-1)

emit_jmp(i, n, ctx, extra_pass) ==
  CASE i.code = <<"JMP", "JA", "K">> -> emit_ja(i, n, ctx)
    [] i.code = <<"JMP", "CALL", "K">> ->
         LET func == bpf_jit_get_func_addr(ctx.prog, i, extra_pass)
         IN  CASE func.ret < 0 -> failed(func.ret)
               [] func.ret >= 0 /\ func.fixed -> emitted(emit_call(func.addr))
               [] OTHER -> failed(-1)
    [] i.code = <<"JMP", "EXIT", "K">> -> emit_exit(n, ctx)
    [] BPF_OP(i.code) \in {"JEQ", "JNE", "JLE", "JLT", "JGE", "JGT",
                           "JSLE", "JSLT", "JSGE", "JSGT", "JSET"} -> emit_cond(i, n, ctx)
    [] OTHER -> failed(-EINVAL)

emit_ld_imm64(i, insn1) ==
  LET dst == bpf2rv32[i.dst_reg]
      rd == held(dst, tmp1)
  IN  [ret |-> 1, code |-> rv32_bpf_get_reg64(dst, tmp1) \o emit_imm64(rd, insn1.imm, i.imm)
                           \o rv32_bpf_put_reg64(dst, rd)]

emit_store(i) ==
  LET dst == bpf2rv32[i.dst_reg]
      src == bpf2rv32[i.src_reg]
      size == BPF_SIZE(i.code)
  IN CASE i.code = <<"STX", "XADD", "DW">> -> failed(-EFAULT)
       [] BPF_CLASS(i.code) = "ST" /\ BPF_MODE(i.code) = "MEM" ->
            emitted(emit_imm32(tmp2, i.imm) \o emit_rv32_store_r64(dst, tmp2, i.off, size, "MEM"))
       [] BPF_CLASS(i.code) = "STX" /\ (BPF_MODE(i.code) = "MEM" \/ size = "W") ->
            emitted(emit_rv32_store_r64(dst, src, i.off, size, BPF_MODE(i.code)))
       [] OTHER -> failed(-EINVAL)

emit_insn(n, ctx, extra_pass) ==
  LET i == ctx.prog.insnsi[n + 1]
      c == BPF_CLASS(i.code)
  IN CASE c = "ALU64" -> emit_alu64(i)
       [] c = "ALU" -> emit_alu(i, ctx)
       [] c \in {"JMP", "JMP32"} -> emit_jmp(i, n, ctx, extra_pass)
       [] i.code = <<"LD", "IMM", "DW">> -> emit_ld_imm64(i, ctx.prog.insnsi[n + 2])
       [] c = "LDX" /\ BPF_MODE(i.code) = "MEM" ->
            emitted(emit_rv32_load_r64(bpf2rv32[i.dst_reg], bpf2rv32[i.src_reg], i.off,
                                       BPF_SIZE(i.code)))
       [] c \in {"ST", "STX"} -> emit_store(i)
       [] OTHER -> failed(-EINVAL)

-----------------------------------------------------------------------------
(* The frame: 32 bytes and the BPF stack, then the slots of the stacked    *)
(* registers at its top.                                                   *)
round_up(n, k) == ((n + k - 1) \div k) * k
bpf_stack_adjust(ctx) == round_up(ctx.prog.stack_depth, 16)
stack_adjust(ctx) == 32 + bpf_stack_adjust(ctx) + 4 * BPF_JIT_SCRATCH_REGS

build_prologue(ctx) ==
  LET store_offset == 32 + bpf_stack_adjust(ctx) - 8
      SP == RV_REG_SP
      fp == bpf2rv32[BPF_REG_FP]
      r1 == bpf2rv32[1]
  IN  << rv_addi(SP, SP, -stack_adjust(ctx)) >>
      \o [k \in 1..8 |-> rv_sw(SP, store_offset - 4 * (k - 1), CalleeSaved[k])]
      \o << rv_addi(RV_REG_FP, SP, stack_adjust(ctx)),
            rv_addi(fp.lo, SP, bpf_stack_adjust(ctx)), rv_addi(fp.hi, RV_REG_ZERO, 0),
            rv_addi(r1.lo, RV_REG_A(0), 0), rv_addi(r1.hi, RV_REG_ZERO, 0) >>

(* One pass over the program from instruction n on, with the code emitted  *)
(* so far and, in ends, where the code of each instruction ended in this   *)
(* pass.  Only the first pass records that in the context; offsets and     *)
(* instruction indices count from 0.                                       *)
RECURSIVE body_from(_, _, _, _, _)
body_from(n, ctx, extra_pass, code, ends) ==
  IF n = Len(ctx.prog.insnsi) THEN [ret |-> 0, ctx |-> ctx, code |-> code, ends |-> ends]
  ELSE LET next(e) ==
             LET last == IF e.ret > 0 THEN n + 1 ELSE n
                 done == ctx.ninsns + Len(e.code)
                 offset == IF ctx.insns THEN ctx.offset ELSE [ctx.offset EXCEPT ![last] = done]
             IN  IF e.ret < 0 THEN [ret |-> e.ret, ctx |-> ctx, code |-> code, ends |-> ends]
                 ELSE body_from(last + 1, [ctx EXCEPT !.offset = offset, !.ninsns = done],
                                extra_pass, code \o e.code, [ends EXCEPT ![last] = done])
       IN  next(emit_insn(n, ctx, extra_pass))
build_body(ctx, extra_pass) ==
  body_from(0, ctx, extra_pass, <<>>, [i \in DOMAIN ctx.offset |-> 0])
=============================================================================
