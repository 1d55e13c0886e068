------------------------------ MODULE MCBpfJit ------------------------------
(***************************************************************************)
(* Programs for the BPF JITs: registers are loaded with 64-bit immediates, *)
(* then the instruction under test runs, on registers that the RV32 JIT    *)
(* keeps in registers and on ones it keeps on the stack, then the program  *)
(* exits.  With 3-bit bytes a word has 12 bits and a double word 24.       *)
(***************************************************************************)
EXTENDS BpfJit

Word0 == 2^Word
Top == 2^(DWord - 1)
A == 5938235                        \* 5a9 c3b
Pairs == {<<0, 0>>, <<1, 0>>, <<Word0 - 1, 1>>, <<Top, 1>>, <<Top - 1, 2 * Top - 1>>,
          <<A, 2 * Top - 1 - A>>, <<A, A + 1>>, <<A + Word0, A - 1>>}
Shifts == {A, 2 * Top - A} \X {0, 1, Word - 1, Word, Word + 1, DWord - 1}
ShortShifts == {A, 2 * Top - A} \X {0, 1, Word - 1}
Quotients == {<<0, 1>>, <<Word0 + 7, 3>>, <<2 * Top - 1, Word0 - 1>>, <<A, A>>}

Operands(class, op) ==
  CASE op \in {"LSH", "RSH", "ARSH"} -> IF class = "ALU64" THEN Shifts ELSE ShortShifts
    [] op \in {"DIV", "MOD"} -> Quotients
    [] OTHER -> Pairs

(* Destination and source: in registers, on the stack, or the same.        *)
Registers(arch) == IF arch = "rv32" THEN {<<2, 5>>, <<6, 9>>, <<0, 7>>, <<8, 3>>, <<7, 7>>}
                   ELSE {<<2, 7>>, <<6, 6>>}

Exits(arch) == IF arch = "rv32" THEN << BPF_EXIT_INSN >> ELSE <<>>
Setup(d, a, s, b) == BPF_LD_IMM64(d, a) \o BPF_LD_IMM64(s, b)

program(arch, insns) ==
  [arch |-> arch, insnsi |-> insns, stack_depth |-> 8, verifier_zext |-> FALSE,
   is_func |-> FALSE, jit_requested |-> TRUE, blinding |-> "off", unresolved |-> {}]

Test(arch, d, a, s, b, i) == program(arch, Setup(d, a, s, b) \o << i >> \o Exits(arch))

AluOps == {"ADD", "SUB", "AND", "OR", "XOR", "MUL", "DIV", "MOD", "LSH", "RSH", "ARSH", "MOV"}
AluX(arch) ==
  UNION {{Test(arch, r[1], v[1], r[2], v[2], insn(<<class, op, "X">>, r[1], r[2], 0, 0)) :
            r \in Registers(arch), v \in Operands(class, op)} :
         class \in {"ALU", "ALU64"}, op \in AluOps}

Immediates == {0, 1, -1, 2^(ImmBits - 1) - 1, 2^(ImmBits - 1), 1 - 2^(Word - 1), 2^(Word - 1) - 1}
ImmOperands(class, op) ==
  CASE op \in {"LSH", "RSH", "ARSH"} -> {v[2] : v \in Operands(class, op)}
    [] op \in {"DIV", "MOD"} -> Immediates \ {0}
    [] OTHER -> Immediates
AluK(arch) ==
  UNION {{program(arch, BPF_LD_IMM64(r, A) \o << insn(<<class, op, "K">>, r, 0, 0, k) >> \o Exits(arch)) :
            r \in {3, 8}, k \in ImmOperands(class, op)} :
         class \in {"ALU", "ALU64"}, op \in AluOps}
Unary(arch) ==
  {program(arch, BPF_LD_IMM64(r, a) \o << i >> \o Exits(arch)) :
     r \in {4, 6}, a \in {0, A, 2 * Top - 1},
     i \in UNION {{insn(<<class, "NEG", "K">>, r, 0, 0, 0) : class \in {"ALU", "ALU64"}}
                  \cup {BPF_ENDIAN(type, r, len) : type \in {"TO_BE", "TO_LE"},
                                                   len \in {Half, Word, DWord}} : r \in {4, 6}}}

(* A jump over the instruction that sets R0 to 1; the paths do not meet.   *)
JumpOps == {"JEQ", "JNE", "JGT", "JLT", "JGE", "JLE", "JSGT", "JSLT", "JSGE", "JSLE", "JSET"}
Paths(arch) ==
  IF arch = "rv32"
  THEN << BPF_MOV64_IMM(0, 1), BPF_EXIT_INSN, BPF_MOV64_IMM(0, 2), BPF_EXIT_INSN >>
  ELSE << BPF_MOV64_IMM(0, 1), BPF_JMP_A(1), BPF_MOV64_IMM(0, 2) >>
Jumps(arch) ==
  UNION {{program(arch, Setup(r[1], v[1], r[2], v[2])
                        \o << insn(<<class, op, "X">>, r[1], r[2], 2, 0) >> \o Paths(arch)) :
            r \in {<<2, 5>>, <<7, 9>>}, v \in Pairs} :
         class \in {"JMP", "JMP32"}, op \in JumpOps}
  \cup
  UNION {{program(arch, BPF_LD_IMM64(r, a) \o << insn(<<class, op, "K">>, r, 0, 2, k) >> \o Paths(arch)) :
            r \in {2, 7}, a \in {1, A, 2 * Top - 1}, k \in {1, -1, 2^ImmBits}} :
         class \in {"JMP", "JMP32"}, op \in JumpOps}

(* Jumps at the limit of a branch, which reaches Reach instructions back   *)
(* and Reach - 1 forward: over code of a given length, and back to an exit *)
(* in front of it.  The code of the two byte swaps has Swaps instructions. *)
Reach == 2^ImmBits \div 4
Swaps(arch) == IF arch = "rv32" THEN 52 ELSE 48
Padding(arch, len) == << BPF_ENDIAN("TO_BE", 3, DWord), BPF_ENDIAN("TO_BE", 3, Word) >>
                      \o [k \in 1..(len - Swaps(arch)) |-> BPF_JMP_A(0)]
Forward(arch, class, op, v, len) ==
  program(arch, Setup(2, v[1], 5, v[2])
                \o << insn(<<class, op, "X">>, 2, 5, Len(Padding(arch, len)), 0) >>
                \o Padding(arch, len) \o << BPF_MOV64_IMM(0, 1) >> \o Exits(arch))
Backward(class, op, v, len) ==
  LET skipped == Len(Padding("rv32", len))
  IN  program("rv32", Setup(2, v[1], 5, v[2]) \o << BPF_JMP_A(skipped + 1), BPF_EXIT_INSN >>
                      \o Padding("rv32", len)
                      \o << insn(<<class, op, "X">>, 2, 5, -(skipped + 2), 0), BPF_EXIT_INSN >>)

(* The instructions before the last of a comparison: a branch among them   *)
(* is that much further from its target.                                   *)
Before(arch, class, op) ==
  CASE arch = "rv64" \/ class = "JMP32" -> IF op = "JSET" THEN 1 ELSE 0
    [] arch = "rv32" /\ class = "JMP" ->
         CASE op \in {"JEQ", "JNE"} -> 1 [] op = "JSET" -> 3 [] OTHER -> 2
Further(arch, class, op) ==
  IF arch = "rv64" \/ class = "JMP32" \/ op = "JEQ" THEN 0 ELSE IF op = "JNE" THEN 1 ELSE 2
Close == {<<Top, 1>>, <<1, Top>>, <<A, A>>, <<A, A + 1>>, <<A + 1, A>>}
Limits ==
  UNION {{Forward(arch, class, op, v, Reach - 2 - Further(arch, class, op)) : v \in Close}
         \cup {Forward(arch, class, op, <<A, A>>, Reach - 1)} :
         arch \in {"rv32", "rv64"}, class \in {"JMP", "JMP32"}, op \in JumpOps}
  \cup
  UNION {{Backward(class, op, v, Reach - 1 - Before("rv32", class, op)) : v \in Close}
         \cup {Backward(class, op, <<A, A>>, Reach - Before("rv32", class, op))} :
         class \in {"JMP", "JMP32"}, op \in JumpOps}

(* Jumps as long as the check of the last branch allows, with one before   *)
(* it that is further away.                                                *)
MCFar == {Forward("rv32", "JMP", op, v, Reach - 2) : op \in JumpOps, v \in Close}

(* Loads and stores of the context and of the BPF stack, near and far.     *)
Far == 2^ImmBits + 8
Memory(arch) ==
  UNION {{program(arch, BPF_LD_IMM64(s, A) \o << BPF_STX_MEM(size, FP, s, off),
                        BPF_LDX_MEM(size, d, FP, off) >> \o Exits(arch)) :
            d \in {2, 8}, s \in {3, 7}, off \in {-8}}
         \cup {program(arch, BPF_LD_IMM64(d, Context - off)
                             \o << BPF_ST_MEM(size, d, off, k), BPF_LDX_MEM(size, s, d, off) >>
                             \o Exits(arch)) :
            d \in {2, 8}, s \in {3, 8}, off \in {0, 4, -4, -Far}, k \in {5, -3, 1 - 2^ImmBits}} :
         size \in {"B", "H", "W", "DW"}, FP \in {BPF_REG_FP}}
  \cup {program(arch, Setup(d, Context - off, s, A)
                      \o << BPF_STX_MEM("DW", d, s, off), BPF_STX_XADD(size, d, s, off) >>
                      \o Exits(arch)) :
          d \in {2, 8}, s \in {3, 7}, off \in {0, 4, -Far}, size \in {"W", "DW"}}

(* A helper called with five arguments, with values to survive the call in *)
(* R6, in R9 and on the BPF stack; a jump back; every opcode that is       *)
(* refused.                                                                *)
Helper == 1800
Calls ==
  {[program("rv32", BPF_LD_IMM64(6, A) \o BPF_LD_IMM64(9, Top)
       \o << BPF_MOV64_REG(1, 6), BPF_MOV64_IMM(2, 2), BPF_MOV64_REG(3, 9), BPF_MOV64_IMM(4, -4),
             BPF_MOV64_REG(5, 6), BPF_STX_MEM("DW", BPF_REG_FP, 9, -depth),
             BPF_EMIT_CALL(Helper), BPF_ALU64_REG("ADD", 0, 6),
             BPF_LDX_MEM("DW", 1, BPF_REG_FP, -depth), BPF_ALU64_REG("XOR", 0, 1),
             BPF_EXIT_INSN >>) EXCEPT !.stack_depth = depth] : depth \in {8, 16, 32}}
Back(arch) ==
  {program(arch, << BPF_JMP_A(2), BPF_MOV64_IMM(0, 7), BPF_JMP_A(1), BPF_JMP_A(-3) >> \o Exits(arch))}
Refused ==
  {program("rv32", << i, BPF_EXIT_INSN >>) :
     i \in {insn(<<"JMP", "CALL", "K">>, 0, 1, 0, Helper), BPF_ENDIAN("TO_BE", 0, ByteBits),
            insn(<<"LD", "ABS", "W">>, 0, 0, 0, 0)}}
  \cup {program("rv64", << i >>) : i \in {BPF_EXIT_INSN, BPF_EMIT_CALL(Helper)}}

(* The verifier's own zero extensions after 32-bit operations.             *)
Extended ==
  {[program("rv32", Setup(r[1], A, r[2], Top + 1)
       \o << BPF_ALU32_REG(op, r[1], r[2]), BPF_MOV32_RAW("X", r[1], r[1], 1) >> \o Exits("rv32"))
     EXCEPT !.verifier_zext = TRUE] :
     r \in {<<2, 5>>, <<8, 3>>}, op \in {"ADD", "MUL", "XOR", "MOV"}}

(* Every way through bpf_int_jit_compile: a program too long for a         *)
(* conditional jump over it, and a call whose address the kernel does not  *)
(* find, in the first passes or only in the extra pass, are among them.    *)
Long == << BPF_JMP_IMM("JEQ", 1, 0, 2) >> \o [k \in 1..2 |-> BPF_ENDIAN("TO_BE", 1, DWord)]
        \o << BPF_EXIT_INSN >>
Lifecycle ==
  {[program("rv32", insns) EXCEPT !.is_func = is_func, !.blinding = blinding, !.jit_requested = on,
                                  !.unresolved = unresolved] :
     insns \in {<< BPF_MOV64_IMM(0, 1), BPF_EMIT_CALL(Helper), BPF_EXIT_INSN >>,
                << BPF_ALU64_REG("DIV", 0, 1), BPF_EXIT_INSN >>, Long},
     is_func \in BOOLEAN, blinding \in {"off", "clone", "error"}, on \in BOOLEAN,
     unresolved \in {{}, {FALSE}, {TRUE}}}

Everything(arch) == AluX(arch) \cup AluK(arch) \cup Unary(arch) \cup Jumps(arch) \cup Memory(arch) \cup Back(arch)
MCAluX64 == AluX("rv64")
MCPrograms == Everything("rv32") \cup Everything("rv64") \cup Limits \cup Calls \cup Refused \cup Extended \cup Lifecycle
=============================================================================
