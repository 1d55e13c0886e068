------------------------------ MODULE BpfWords ------------------------------
(***************************************************************************)
(* Machine words and byte-addressed memory for the BPF interpreter, the    *)
(* BPF JITs and the RISC-V code they emit.  A byte has ByteBits bits (8 in *)
(* the code) and u16, u32 and u64 have two, four and eight bytes.  The     *)
(* narrow instances that TLC checks keep every ratio of the code's widths. *)
(* A word is a natural number below 2^n; the signed types are its          *)
(* two's-complement reading.                                               *)
(***************************************************************************)
EXTENDS Integers, Sequences, Bitwise

CONSTANTS ByteBits,     \* bits of a byte                                8
          ImmBits       \* bits of an I-, S- or B-type immediate        12

Half  == 2 * ByteBits
Word  == 4 * ByteBits
DWord == 8 * ByteBits

(* The unsigned and the signed value of the low n bits of v.               *)
Unsigned(n, v) == v % 2^n
Signed(n, v) == LET u == v % 2^n IN IF u < 2^(n - 1) THEN u ELSE u - 2^n

(* Products and shifts modulo 2^n, for n at most DWord.  No intermediate   *)
(* value exceeds 2^(DWord + 2).                                            *)
Low(v)  == v % 2^Word
High(v) == v \div 2^Word
Join(hi, lo) == hi * 2^Word + lo
Product(n, a, b) ==
  Unsigned(n, Low(a) * Low(b)
              + Low(Low(a) * High(b) + High(a) * Low(b)) * 2^Word)
ShiftLeft(n, a, k)  == Unsigned(n - k, a) * 2^k
ShiftRight(n, a, k) == a \div 2^k
ShiftArith(n, a, k) == Unsigned(n, Signed(n, a) \div 2^k)

(* The k bytes of v in the opposite order.                                 *)
ByteOf(v, i) == (v \div 2^(ByteBits * i)) % 2^ByteBits
SwapBytes(k, v) ==
  LET r[i \in 0..k] == IF i = 0 THEN 0 ELSE r[i - 1] * 2^ByteBits + ByteOf(v, i - 1)
  IN  r[k]

(* Little-endian loads and stores of k bytes.  An access outside the       *)
(* domain of the memory is an error of the model, which TLC reports.       *)
Load(mem, a, k) ==
  LET r[i \in 0..k] == IF i = 0 THEN 0 ELSE r[i - 1] * 2^ByteBits + mem[a + k - i]
  IN  r[k]
Store(mem, a, k, v) ==
  [b \in DOMAIN mem |-> IF b \in a..(a + k - 1) THEN ByteOf(v, b - a) ELSE mem[b]]
=============================================================================
