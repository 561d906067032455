------------------------------ MODULE Numerics ------------------------------
(***************************************************************************)
(* The values and the scalar operators of WebAssembly as the interpreter   *)
(* computes them (executor.rs: exec_binop!, cmp_i32, cmp_i64 and the       *)
(* stack_op! arms).                                                        *)
(*                                                                         *)
(* Everything is scaled down by eight: ONE BYTE OF THE CODE IS ONE BIT     *)
(* here.  An i32 has 4 bits, an i64 has 8 and a v128 has 16, a memory is a *)
(* sequence of bits, `shl 16' is a shift by two and `extend16_s' extends a *)
(* value of two bits.  The relations between the widths that the lowering  *)
(* and the optimizer rely on are kept.  A value is its unsigned form.      *)
(***************************************************************************)
EXTENDS Integers, Sequences, FiniteSets

Sizes == {32, 64, 128}            \* OperandSize
Bits(w) == w \div 8
Modulus(w) == 2 ^ Bits(w)
Signed(n, v) == IF v >= 2 ^ (n - 1) THEN v - 2 ^ n ELSE v

Shl(w, a, k) == (a * 2 ^ k) % Modulus(w)
Rotl(w, a, k) == Shl(w, a, k) + (a \div 2 ^ (Bits(w) - k))

(***************************************************************************)
(* Floating-point operators are uninterpreted in the code that is modelled *)
(* here; what matters is which of them commute and that none associates.   *)
(* FAdd and FMul stand for the ones that commute (add, mul, min, max), and *)
(* FSub for the ones that do not (sub, div, copysign).                     *)
(***************************************************************************)
FloatOps == {"FAdd", "FMul", "FSub"}
FloatVal(w, f, a, b) ==
  CASE f = "FAdd" -> ((a + b) * (a + b) + 1) % Modulus(w)
    [] f = "FMul" -> LET p == (a * b) % Modulus(w) IN (p * p + 2) % Modulus(w)
    [] f = "FSub" -> (a + 2 * b) % Modulus(w)

\* The bitwise operators, on values of at most the 16 bits of a v128.
BitAnd(a, b) ==
  LET bit(v, k) == (v \div 2 ^ k) % 2
      f[n \in 0 .. Bits(128)] ==
        IF n = 0 THEN 0 ELSE f[n - 1] + bit(a, n - 1) * bit(b, n - 1) * 2 ^ (n - 1)
  IN f[Bits(128)]
BitOr(a, b) == a + b - BitAnd(a, b)
BitXor(a, b) == a + b - 2 * BitAnd(a, b)

\* BinOp, and div_u for the operators that are never fused and may trap.
IntOps == {"IAdd", "ISub", "IMul", "IAnd", "IOr", "IXor", "IShl", "IShrS",
           "IShrU", "IRotl", "IRotr"}
BinOps == IntOps \cup FloatOps
IntVal(w, f, a, b) ==
  LET k == b % Bits(w) IN
  CASE f = "IAdd"  -> (a + b) % Modulus(w)
    [] f = "ISub"  -> (a - b) % Modulus(w)
    [] f = "IMul"  -> (a * b) % Modulus(w)
    [] f = "IAnd"  -> BitAnd(a, b)
    [] f = "IOr"   -> BitOr(a, b)
    [] f = "IXor"  -> BitXor(a, b)
    [] f = "IShl"  -> Shl(w, a, k)
    [] f = "IShrS" -> (Signed(Bits(w), a) \div 2 ^ k) % Modulus(w)
    [] f = "IShrU" -> a \div 2 ^ k
    [] f = "IRotl" -> Rotl(w, a, k)
    [] f = "IRotr" -> Rotl(w, a, (Bits(w) - k) % Bits(w))
    [] f = "DivU"  -> a \div b

\* BinOp128; the lanes of i64x2 are the two halves.
BinOps128 == {"And", "AndNot", "Or", "Xor", "I64x2Add"}
Val128(f, a, b) ==
  LET m == Modulus(64) IN
  CASE f = "And"      -> BitAnd(a, b)
    [] f = "AndNot"   -> BitAnd(a, Modulus(128) - 1 - b)
    [] f = "Or"       -> BitOr(a, b)
    [] f = "Xor"      -> BitXor(a, b)
    [] f = "I64x2Add" -> ((a + b) % m) + m * (((a \div m) + (b \div m)) % m)

\* Vector operators that move values between the lanes of the value stack.
\* A 128-bit vector has four 32-bit parts or two of 64 bits.
VecVal(f, a) ==
  LET m == Modulus(64)
      part(v, k) == (v \div m ^ k) % m
      pair(lo, hi) == lo + m * hi
      q == Modulus(32)
  IN CASE f = "I32x4Splat"       -> a[1] * (1 + q + q ^ 2 + q ^ 3)
       [] f = "I64x2Splat"       -> pair(a[1], a[1])
       [] f = "I64x2ExtractLane" -> part(a[1], 1)
       [] f = "I64x2ReplaceLane" -> pair(a[2], part(a[1], 1))
       [] f = "I64x2Shl"         -> LET k == a[2] % Bits(64)
                                    IN pair(Shl(64, part(a[1], 0), k), Shl(64, part(a[1], 1), k))
       [] f = "V128AnyTrue"      -> IF a[1] # 0 THEN 1 ELSE 0
       [] f = "V128Not"          -> Modulus(128) - 1 - a[1]
       [] f = "V128Bitselect"    -> BitOr(BitAnd(a[1], a[3]), BitAnd(a[2], Modulus(128) - 1 - a[3]))

exec_binop(w, f, a, b) ==
  IF w = 128 THEN Val128(f, a, b)
  ELSE IF f \in FloatOps THEN FloatVal(w, f, a, b)
  ELSE IntVal(w, f, a, b)

CmpOps == {"Eq", "Ne", "LtS", "LtU", "GtS", "GtU", "LeS", "LeU", "GeS", "GeU"}
cmp(w, op, a, b) ==
  LET s == Signed(Bits(w), a)
      t == Signed(Bits(w), b)
  IN CASE op = "Eq"  -> a = b
       [] op = "Ne"  -> a # b
       [] op = "LtS" -> s < t
       [] op = "LtU" -> a < b
       [] op = "GtS" -> s > t
       [] op = "GtU" -> a > b
       [] op = "LeS" -> s <= t
       [] op = "LeU" -> a <= b
       [] op = "GeS" -> s >= t
       [] op = "GeU" -> a >= b

\* i32::from(bool)
Flag(b) == IF b THEN 1 ELSE 0

\* extend8_s and its kin: the low n bits, sign-extended to width w.
ExtendS(w, n, v) == Signed(n, v % 2 ^ n) % Modulus(w)

\* Little-endian access to n bytes of a memory; addresses count from 0.
InBounds(mem, a, n) == a + n <= Len(mem)
LoadAt(mem, a, n) ==
  LET f[k \in 0 .. n] == IF k = 0 THEN 0 ELSE f[k - 1] + mem[a + k] * 2 ^ (k - 1)
  IN f[n]
StoreAt(mem, a, n, v) ==
  [i \in DOMAIN mem |-> IF i \in a + 1 .. a + n THEN (v \div 2 ^ (i - a - 1)) % 2 ELSE mem[i]]
Fill(mem, a, n, v) == [i \in DOMAIN mem |-> IF i \in a + 1 .. a + n THEN v % 2 ELSE mem[i]]
=============================================================================
