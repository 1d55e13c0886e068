------------------------------- MODULE Riscv --------------------------------
(***************************************************************************)
(* The RISC-V instructions that the BPF JITs emit, as the verifier's       *)
(* interpreter executes them (serval/serval/riscv/interp.rkt).  An         *)
(* instruction word is the record of its fields, in the format of its      *)
(* major opcode; decoding reads the fields back (encoder.rkt).  xlen is    *)
(* the width of a register: Word on RV32, DWord on RV64.  The shift-amount *)
(* mask xlen - 1 is the remainder modulo xlen.                             *)
(***************************************************************************)
EXTENDS BpfWords

(* The opcode bit 0x400 of an arithmetic right shift by an immediate.      *)
SraiFlag == 2^(ImmBits - 2)

(* Immediates of the S, B and J formats, put together from their fields.   *)
ImmS(i) == i.funct7 * 32 + i.rd
ImmB(i) ==
  LET bit11 == i.funct7 \div 2^(ImmBits - 6)
      bits9_4 == i.funct7 % 2^(ImmBits - 6)
      bits3_0 == i.rd \div 2
      bit10 == i.rd % 2
  IN  bit11 * 2^(ImmBits - 1) + bit10 * 2^(ImmBits - 2) + bits9_4 * 2^4 + bits3_0
ImmJ(i) ==
  LET bit19 == i.imm \div 2^19
      bits9_0 == (i.imm \div 2^9) % 2^10
      bit10 == (i.imm \div 2^8) % 2
      bits18_11 == i.imm % 2^8
  IN  bit19 * 2^19 + bits18_11 * 2^11 + bit10 * 2^10 + bits9_0

(* The operation of an OP or OP-32 instruction, on n-bit operands.         *)
evaluate_binary_op(n, funct7, funct3, v1, v2) ==
  CASE <<funct7, funct3>> = <<0, 0>>  -> Unsigned(n, v1 + v2)
    [] <<funct7, funct3>> = <<32, 0>> -> Unsigned(n, v1 - v2)
    [] <<funct7, funct3>> = <<0, 1>>  -> ShiftLeft(n, v1, v2 % n)
    [] <<funct7, funct3>> = <<0, 3>>  -> IF v1 < v2 THEN 1 ELSE 0
    [] <<funct7, funct3>> = <<0, 4>>  -> v1 ^^ v2
    [] <<funct7, funct3>> = <<0, 5>>  -> ShiftRight(n, v1, v2 % n)
    [] <<funct7, funct3>> = <<32, 5>> -> ShiftArith(n, v1, v2 % n)
    [] <<funct7, funct3>> = <<0, 6>>  -> v1 | v2
    [] <<funct7, funct3>> = <<0, 7>>  -> v1 & v2
    [] <<funct7, funct3>> = <<1, 0>>  -> Product(n, v1, v2)
    [] <<funct7, funct3>> = <<1, 3>>  -> (v1 * v2) \div 2^n       \* Word only
    [] <<funct7, funct3>> = <<1, 5>>  -> IF v2 = 0 THEN 2^n - 1 ELSE v1 \div v2
    [] <<funct7, funct3>> = <<1, 7>>  -> IF v2 = 0 THEN v1 ELSE v1 % v2

(* The same with an immediate, whose high bits tell srai from srli.        *)
EvaluateImm(n, funct3, v, imm) ==
  CASE funct3 \in {0, 4, 6, 7} ->
         evaluate_binary_op(n, 0, funct3, v, Unsigned(n, Signed(ImmBits, imm)))
    [] funct3 = 1 -> ShiftLeft(n, v, imm % n)
    [] funct3 = 5 -> IF imm >= SraiFlag THEN ShiftArith(n, v, (imm % SraiFlag) % n)
                     ELSE ShiftRight(n, v, imm % n)

evaluate_binary_conditional(n, funct3, v1, v2) ==
  CASE funct3 = 0 -> v1 = v2
    [] funct3 = 1 -> v1 # v2
    [] funct3 = 4 -> Signed(n, v1) < Signed(n, v2)
    [] funct3 = 5 -> Signed(n, v1) >= Signed(n, v2)
    [] funct3 = 6 -> v1 < v2
    [] funct3 = 7 -> v1 >= v2

(* Bytes moved by a load or store; funct3 4 to 6 are the unsigned loads.   *)
memop_size(funct3) == 2^(funct3 % 4)

(* Register writes: x0 stays 0.                                            *)
gpr_set(m, r, v) == IF r = 0 THEN m ELSE [m EXCEPT !.x[r] = v]
cpu_next(m) == [m EXCEPT !.pc = @ + 4]
SignExtend(xlen, n, v) == Unsigned(xlen, Signed(n, v))

(* One instruction.  The target of a branch or jump is a multiple of 2     *)
(* bytes away; addresses are xlen bits.                                    *)
interpret_instr(xlen, m, i) ==
  LET x == m.x
      jump(off) == Unsigned(xlen, m.pc + 2 * off)
      addr(imm) == Unsigned(xlen, x[i.rs1] + Signed(ImmBits, imm))
      size == memop_size(i.funct3)
      value == Load(m.mem, addr(i.imm), size)
  IN CASE i.opcode = \h33 ->
            cpu_next(gpr_set(m, i.rd,
              evaluate_binary_op(xlen, i.funct7, i.funct3, x[i.rs1], x[i.rs2])))
       [] i.opcode = \h3b ->
            cpu_next(gpr_set(m, i.rd, SignExtend(xlen, Word,
              evaluate_binary_op(Word, i.funct7, i.funct3, Low(x[i.rs1]), Low(x[i.rs2])))))
       [] i.opcode = \h13 ->
            cpu_next(gpr_set(m, i.rd, EvaluateImm(xlen, i.funct3, x[i.rs1], i.imm)))
       [] i.opcode = \h1b ->
            cpu_next(gpr_set(m, i.rd, SignExtend(xlen, Word,
              EvaluateImm(Word, i.funct3, Low(x[i.rs1]), i.imm))))
       [] i.opcode = \h37 ->
            cpu_next(gpr_set(m, i.rd, SignExtend(xlen, Word, i.imm * 2^ImmBits)))
       [] i.opcode = \h03 ->
            cpu_next(gpr_set(m, i.rd,
              IF i.funct3 >= 4 THEN value ELSE SignExtend(xlen, size * ByteBits, value)))
       [] i.opcode = \h23 ->
            cpu_next([m EXCEPT !.mem = Store(@, addr(ImmS(i)), size, x[i.rs2])])
       [] i.opcode = \h63 ->
            IF evaluate_binary_conditional(xlen, i.funct3, x[i.rs1], x[i.rs2])
            THEN [m EXCEPT !.pc = jump(Signed(ImmBits, ImmB(i)))] ELSE cpu_next(m)
       [] i.opcode = \h6f ->
            [gpr_set(m, i.rd, Unsigned(xlen, m.pc + 4)) EXCEPT !.pc = jump(Signed(20, ImmJ(i)))]
       [] i.opcode = \h67 ->
            [gpr_set(m, i.rd, Unsigned(xlen, m.pc + 4)) EXCEPT !.pc = 2 * (addr(i.imm) \div 2)]

(* amoadd: the memory at rs1 gains rs2.  The interpreter has no atomics;   *)
(* this is the instruction's definition in the RISC-V manual.              *)
amoadd(xlen, m, i) ==
  LET a == m.x[i.rs1]
      size == memop_size(i.funct3)
      old == Load(m.mem, a, size)
  IN  cpu_next(gpr_set([m EXCEPT !.mem = Store(@, a, size, old + m.x[i.rs2])],
                       i.rd, SignExtend(xlen, size * ByteBits, old)))

Exec(xlen, m, i) ==
  IF i.opcode = \h2f THEN amoadd(xlen, m, i) ELSE interpret_instr(xlen, m, i)

(* Run the code while the pc is in the instructions lo to hi - 1, for at   *)
(* most fuel instructions.                                                 *)
RECURSIVE Run(_, _, _, _, _, _)
Run(xlen, code, m, lo, hi, fuel) ==
  IF fuel = 0 \/ m.pc \notin (4 * lo)..(4 * hi - 1) THEN m
  ELSE Run(xlen, code, Exec(xlen, m, code[(m.pc \div 4) + 1]), lo, hi, fuel - 1)
=============================================================================
