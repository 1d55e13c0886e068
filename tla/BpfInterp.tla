----------------------------- MODULE BpfInterp ------------------------------
(***************************************************************************)
(* The BPF interpreter (bpf/kbpf.c).  One pass through select_insn is      *)
(* Execute: it takes the registers, the memory and the index of the        *)
(* current instruction to the next ones.  A program has stopped when its   *)
(* pc is Exit.                                                             *)
(***************************************************************************)
EXTENDS BpfFilter

Exit == -1

AluOps  == {"ADD", "SUB", "AND", "OR", "LSH", "RSH", "XOR", "MUL", "MOV", "ARSH", "DIV", "MOD"}
JumpOps == {"JEQ", "JNE", "JGT", "JLT", "JGE", "JLE", "JSGT", "JSLT", "JSGE", "JSLE", "JSET"}
Sizes   == {"B", "H", "W", "DW"}

(* The opcodes the interpreter has a label for; any other is BUG_ON(1).    *)
BPF_INSN_MAP ==
  {"ALU", "ALU64"} \X AluOps \X {"X", "K"}
  \cup {"ALU", "ALU64"} \X {"NEG"} \X {"K"}
  \cup {"ALU"} \X {"END"} \X {"TO_BE", "TO_LE"}
  \cup {"JMP"} \X {"CALL", "EXIT", "JA"} \X {"K"}
  \cup {"JMP", "JMP32"} \X JumpOps \X {"X", "K"}
  \cup {"STX", "ST", "LDX"} \X {"MEM"} \X Sizes
  \cup {"STX"} \X {"XADD"} \X {"W", "DW"}
  \cup {<<"LD", "IMM", "DW">>}

(* DST OP SRC on n-bit unsigned operands: the ALU macro and the labels for *)
(* ARSH, DIV and MOD.                                                      *)
ALU(n, op, a, b) ==
  CASE op = "ADD"  -> Unsigned(n, a + b)
    [] op = "SUB"  -> Unsigned(n, a - b)
    [] op = "AND"  -> a & b
    [] op = "OR"   -> a | b
    [] op = "XOR"  -> a ^^ b
    [] op = "MUL"  -> Product(n, a, b)
    [] op = "MOV"  -> b
    [] op = "LSH"  -> ShiftLeft(n, a, b)
    [] op = "RSH"  -> ShiftRight(n, a, b)
    [] op = "ARSH" -> ShiftArith(n, a, b)
    [] op = "DIV"  -> a \div b
    [] op = "MOD"  -> a % b
    [] op = "NEG"  -> Unsigned(n, -a)

(* What C leaves undefined: a shift by the width or more, a division by 0. *)
Undefined(n, op, b) ==
  \/ op \in {"LSH", "RSH", "ARSH"} /\ b >= n
  \/ op \in {"DIV", "MOD"} /\ b = 0

(* The comparison of a conditional jump, on n-bit operands.                *)
COND_JMP(n, op, a, b) ==
  CASE op = "JEQ"  -> a = b
    [] op = "JNE"  -> a # b
    [] op = "JGT"  -> a > b
    [] op = "JLT"  -> a < b
    [] op = "JGE"  -> a >= b
    [] op = "JLE"  -> a <= b
    [] op = "JSET" -> (a & b) # 0
    [] op = "JSGT" -> Signed(n, a) > Signed(n, b)
    [] op = "JSLT" -> Signed(n, a) < Signed(n, b)
    [] op = "JSGE" -> Signed(n, a) >= Signed(n, b)
    [] op = "JSLE" -> Signed(n, a) <= Signed(n, b)

(* cpu_to_be and cpu_to_le of a length in bits, on a little-endian host.   *)
(* Any other length leaves the register alone.                             *)
END(type, len, a) ==
  IF len \notin {Half, Word, DWord} THEN a
  ELSE IF type = "TO_BE" THEN SwapBytes(len \div ByteBits, Unsigned(len, a))
       ELSE Unsigned(len, a)

Width(code) == IF BPF_CLASS(code) \in {"ALU64", "JMP"} THEN DWord ELSE Word

(* The second operand: a register or the sign-extended immediate.          *)
Operand(regs, i) ==
  Unsigned(Width(i.code), IF BPF_SRC(i.code) = "X" THEN regs[i.src_reg] ELSE i.imm)

(* ALU_ARSH_X shifts by all of SRC, the other labels by its low half.      *)
IsDefined(regs, i) ==
  LET amount == IF i.code = <<"ALU", "ARSH", "X">> THEN regs[i.src_reg]
                ELSE Operand(regs, i)
  IN  BPF_CLASS(i.code) \in {"ALU", "ALU64"} /\ BPF_OP(i.code) # "END"
        => ~Undefined(Width(i.code), BPF_OP(i.code), amount)

(* ALU_MOD and ALU_DIV go through AX, which is left with the remainder of  *)
(* ALU64_MOD, and with the quotient of the 32-bit forms.                   *)
Arith(regs, i) ==
  LET n == Width(i.code)
      op == BPF_OP(i.code)
      a == Unsigned(n, regs[i.dst_reg])
      b == Operand(regs, i)
      val == IF op = "END" THEN END(BPF_SRC(i.code), i.imm, regs[i.dst_reg])
             ELSE ALU(n, op, a, b)
  IN  [regs EXCEPT
         ![BPF_REG_AX] = CASE op = "MOD" /\ n = DWord -> a % b
                           [] op \in {"DIV", "MOD"} /\ n = Word -> a \div b
                           [] OTHER -> @,
         ![i.dst_reg] = val]

(* An address is truncated to the host's unsigned long (xlen bits).        *)
Address(xlen, base, off) == Unsigned(xlen, base + off)

Execute(xlen, prog, s) ==
  LET i == prog[s.pc + 1]
      c == BPF_CLASS(i.code)
      regs == s.regs
      next == [s EXCEPT !.pc = @ + 1]
      to == Address(xlen, regs[i.dst_reg], i.off)
      from == Address(xlen, regs[i.src_reg], i.off)
      k == bpf_size_to_bytes(BPF_SIZE(i.code))
      n == Width(i.code)
  IN CASE c \in {"ALU", "ALU64"} -> [next EXCEPT !.regs = Arith(regs, i)]
       [] c = "LD" ->
            [s EXCEPT !.pc = @ + 2,
                      !.regs[i.dst_reg] = Join(Unsigned(Word, prog[s.pc + 2].imm),
                                               Unsigned(Word, i.imm))]
       [] c = "LDX" -> [next EXCEPT !.regs[i.dst_reg] = Load(s.mem, from, k)]
       [] c = "ST"  -> [next EXCEPT !.mem = Store(@, to, k, Unsigned(DWord, i.imm))]
       [] c = "STX" /\ BPF_MODE(i.code) = "MEM" ->
            [next EXCEPT !.mem = Store(@, to, k, regs[i.src_reg])]
       [] c = "STX" /\ BPF_MODE(i.code) = "XADD" ->
            [next EXCEPT !.mem = Store(@, to, k, Load(@, to, k) + regs[i.src_reg])]
       [] i.code = <<"JMP", "JA", "K">>   -> [next EXCEPT !.pc = @ + i.off]
       [] i.code = <<"JMP", "EXIT", "K">> -> [s EXCEPT !.pc = Exit]
       [] i.code = <<"JMP", "CALL", "K">> -> next
       [] c \in {"JMP", "JMP32"} /\ BPF_OP(i.code) \in JumpOps ->
            IF COND_JMP(n, BPF_OP(i.code), Unsigned(n, regs[i.dst_reg]), Operand(regs, i))
            THEN [next EXCEPT !.pc = @ + i.off] ELSE next

(* bpf_prog_run returns the low half of R0.                                *)
Result(s) == Low(s.regs[0])
=============================================================================
